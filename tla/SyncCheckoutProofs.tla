------------------------ MODULE SyncCheckoutProofs ------------------------
(***************************************************************************)
(* Proofs about SyncCheckout: whatever the scenario, wherever a command is *)
(* killed and whatever the user edits meanwhile, the tables, the journal   *)
(* and the worktree stay consistent with each other, and no content of the *)
(* user's is lost.  SyncCheckoutTables has IInv and the first part of the  *)
(* proof that it is inductive; then come the actions of the client and of  *)
(* the user, from Originals on DInv and what it says of contents, and from *)
(* NextIsFresh on CInv and the journal that the code's validation takes.   *)
(***************************************************************************)
EXTENDS SyncCheckoutTables

(***************************************************************************)
(* The process goes on to the next item of its stage.                      *)
(***************************************************************************)
Walked == {"prepare", "directories", "promote", "late1", "late2", "late3", "late4", "files", "mtimes", "restore",
           "uninstall", "hidden", "cleanup"}
LEMMA WentOn ==
    ASSUME IInv, Intents = {}, run.cmd # "none", run.stage \in Walked, NEW at \in Nat, Goto(run.stage, at), UNCHANGED fs,
           scenario' = scenario, edits' = edits,
           Tables', Intents' = {}, index' = index, State' = State, Onwards,
           run.stage \in ApplyStages => DOMAIN rows' = DOMAIN rows /\ DOMAIN links \subseteq DOMAIN links',
           \A s \in DOMAIN links' : s \in DOMAIN links /\ links'[s].rollback = links[s].rollback,
           run.stage # "mtimes" => at # 0,
           run.stage = "prepare" => \A i \in 1 .. at - 1 :
               i <= Len(Tops) /\ Tops[i].path \in DOMAIN recoveries' => recoveries'[Tops[i].path].completed,
           run.stage = "promote" => \A i \in 1 .. at - 1 : i <= Len(Promote) => Promote[i].source \in DOMAIN links',
           run.stage = "restore" => \A i \in 1 .. at - 1 :
               i <= Len(Promote) /\ Promote[i].source \in DOMAIN links' => links'[Promote[i].source].rollback # None,
           run.stage = "directories" /\ at <= Len(Entries) => Entries[at].kind = "Directory",
           run.stage = "files" /\ at <= Len(Entries) => Entries[at].kind = "File",
           run.stage = "mtimes" /\ at # 0 => at <= Len(Entries) /\ Entries[at].kind = "Directory"
    PROVE  IInv'
  <1>1. Stages /\ Places
    BY DEF IInv, Control
  <1>2. /\ Worlds' /\ RunTypes' /\ Acting' /\ lastId' = lastId /\ lastId \in Nat
        /\ run'.cmd = run.cmd /\ run'.stage = run.stage /\ run'.at = at
        /\ Entries' = Entries /\ Promote' = Promote /\ Tops' = Tops /\ TargetShape' = TargetShape
        /\ Applying' <=> Applying
        /\ TakingBack' <=> TakingBack
    BY Arrived DEF Applying, TakingBack, BackStages, Walked
  <1>3. Base' <=> Base
    BY DEF Base
  <1>4. Applying => State = "applying"
    BY Idle
  <1>5. Stages'
    BY <1>1, <1>2, <1>3, <1>4 DEF Stages, Walked, QuietStages
  <1>6. DOMAIN rows = DOMAIN TargetShape => (run.stage \in ApplyStages => DOMAIN rows' = DOMAIN TargetShape')
    BY <1>2
  <1>7. Places'
    <2>1. run.stage \notin {"clear", "register", "bindscan", "bindcommit"}
      BY DEF Walked
    <2>2. Applying => \A p \in DOMAIN recoveries' : p \in DOMAIN recoveries /\ (recoveries[p].completed => recoveries'[p].completed)
      BY DEF Onwards
    <2>3. Applying => DOMAIN links \subseteq DOMAIN links'
      BY DEF Applying
    <2> QED BY <1>1, <1>2, <1>6, <2>1, <2>2, <2>3 DEF Places
  <1> QED BY <1>2, <1>5, <1>7 DEF IInv, Control

LEMMA NextOne ==
    ASSUME IInv, Intents = {}, run.cmd # "none", run.stage \in Walked \ {"directories", "files", "mtimes"}, Next1,
           scenario' = scenario, edits' = edits,
           run.stage = "prepare" /\ Tops[run.at].path \in DOMAIN recoveries => recoveries[Tops[run.at].path].completed,
           run.stage = "promote" => Promote[run.at].source \in DOMAIN links,
           run.stage = "restore" /\ Promote[run.at].source \in DOMAIN links => links[Promote[run.at].source].rollback # None
    PROVE  IInv'
  <1>1. Enter(run.stage, run.at + 1)
    BY DEF Next1
  <1>2. run.at \in Nat /\ Stages /\ Places
    BY DEF IInv, Control, RunTypes
  <1>3. run.at # 0
    BY <1>2 DEF Places, Walked
  <1>4. /\ run'.cmd = run.cmd /\ run'.stage = run.stage /\ run'.at = run.at + 1 /\ Intents' = {} /\ State' = State
        /\ index' = index /\ rows' = rows /\ recoveries' = recoveries /\ links' = links
    BY <1>1, <1>2, Entered
  <1>5. Tables' /\ Goto(run.stage, run.at + 1) /\ UNCHANGED fs
    BY <1>1, SameTables DEF IInv, Enter, fs, Worlds
  <1>6. Onwards
    BY <1>4 DEF Onwards
  <1>7. \A i \in 1 .. (run.at + 1) - 1 : i = run.at \/ i \in 1 .. run.at - 1
    BY <1>2
  <1>8. run.at + 1 \in Nat /\ run.at + 1 # 0
    BY <1>2
  <1>9. run.stage = "prepare" => \A i \in 1 .. (run.at + 1) - 1 :
            i <= Len(Tops) /\ Tops[i].path \in DOMAIN recoveries => recoveries[Tops[i].path].completed
    BY <1>2, <1>7 DEF Places
  <1>10. run.stage = "promote" => \A i \in 1 .. (run.at + 1) - 1 : i <= Len(Promote) => Promote[i].source \in DOMAIN links
    BY <1>2, <1>7 DEF Places
  <1>11. run.stage = "restore" => \A i \in 1 .. (run.at + 1) - 1 :
             i <= Len(Promote) /\ Promote[i].source \in DOMAIN links => links[Promote[i].source].rollback # None
    BY <1>2, <1>7 DEF Places
  <1> DEFINE at == run.at + 1
  <1> HIDE DEF at
  <1>12. at \in Nat /\ at # 0 /\ Goto(run.stage, at)
    BY <1>5, <1>8 DEF at
  <1>13. /\ run.stage = "prepare" => \A i \in 1 .. at - 1 :
                i <= Len(Tops) /\ Tops[i].path \in DOMAIN recoveries => recoveries[Tops[i].path].completed
         /\ run.stage = "promote" => \A i \in 1 .. at - 1 : i <= Len(Promote) => Promote[i].source \in DOMAIN links
         /\ run.stage = "restore" => \A i \in 1 .. at - 1 :
                i <= Len(Promote) /\ Promote[i].source \in DOMAIN links => links[Promote[i].source].rollback # None
    BY <1>9, <1>10, <1>11 DEF at
  <1>14. run.stage \in Walked /\ run.stage \notin {"directories", "files", "mtimes"}
    OBVIOUS
  <1> QED BY <1>4, <1>5, <1>6, <1>12, <1>13, <1>14, WentOn

(***************************************************************************)
(* Promoted files return.                                                  *)
(***************************************************************************)
LEMMA RestoreJournaled ==
    ASSUME IInv, At("restore"), NEW s \in DOMAIN links, links[s].rollback = None, NEW q \in Path, NEW stamp,
           JournalRestorePromotion(s, q, stamp), scenario' = scenario, edits' = edits
    PROVE  IInv'
  <1> DEFINE c == CurrentOf(s)
             row == RestoreRow(c.target, q, c.id, stamp)
             l == [links EXCEPT ![s].rollback = NextOrder]
  <1>1. /\ run.stage = "restore" /\ Intents = {} /\ run.cmd # "none" /\ Stages /\ Tables /\ Types /\ Worlds
        /\ lastId \in Nat
    BY AtIs DEF Worlds
  <1>2. index # "target" /\ State \in {"pending", "rolling_back"}
    BY <1>1 DEF Stages
  <1>3. Base /\ State = "rolling_back"
    BY <1>1, <1>2 DEF Tables, Indexed, Base, Types, PendingTypes
  <1>4. CurrentIs(s, c) /\ c \in journal /\ IsPromotion(c) /\ RowOK(c) /\ c = Row(links[s].current)
    BY <1>1, <1>3, CurrentRow
  <1> HIDE DEF c
  <1>5. CASE Fail
    BY <1>5, Failed
  <1>6. CASE ~ Fail
    <2>1. HasId(tree, c.target, c.id) /\ Tx([db EXCEPT !.journal = Put(row), !.links[s].rollback = NextOrder])
      BY <1>4, <1>6 DEF JournalRestorePromotion, RestoreRow
    <2>2. RowOK(row)
      BY <1>1, <2>1, RestoreRowOK DEF Types
    <2>3. RowIsOf(row, "restore", "rollback", c.target, q, "File", c.id, NoShape, stamp, None, 0, "")
      BY RowsAre
    <2>4. DOMAIN db = DbFields
      BY <1>1 DEF Types, DbFields
    <2>5. db' = [db EXCEPT !.journal = journal \cup {row}, !.links = l] /\ UNCHANGED fs /\ run' = run
      BY <2>1, <2>4 DEF Tx, Put, DbFields, links
    <2>6. LinkOK(links[s])
      BY <1>1 DEF Types, LinksTypes
    <2>7. NextOrder \in Nat \ {0}
      BY <1>1, NextOrderIs DEF Types
    <2>8. DOMAIN l = DOMAIN links /\ l[s].current = links[s].current /\ l[s].rollback = NextOrder
          /\ DOMAIN l[s] = {"current", "rollback"} /\ \A z \in DOMAIN l : z # s => l[z] = links[z]
      BY <2>6 DEF LinkOK
    <2> HIDE DEF l, row
    <2>9. LinkOK(l[s])
      BY <2>6, <2>7, <2>8 DEF LinkOK
    <2>10. DbIs(journal \cup {row}, pending, rows, recoveries, l, index)
      BY <1>1, <2>5, Transactions
    <2>11. row.order = NextOrder /\ row.state = "intent" /\ row.phase = "rollback" /\ row.origin = None /\ row.op = "restore"
      BY <2>3 DEF RowIsOf
    <2>12. Admitted(row)
      BY <2>2, <2>11 DEF Admitted, IsPromotion
    <2>13. s \in Sources /\ Relinked(l, s) /\ lastId' = lastId
      BY <1>1, <2>5, <2>8 DEF Types, LinksTypes, Relinked, fs
    <2>14. Tables' /\ Intents' = {row}
      BY <1>1, <1>3, <2>8, <2>9, <2>10, <2>11, <2>12, <2>13, LinkAdmitted
    <2>15. rows' = rows /\ recoveries' = recoveries /\ links' = l /\ index' = index /\ State' = State
      BY <2>10 DEF DbIs, State
    <2>16. Onwards /\ run.stage \notin QuietStages /\ ~ Applying
      BY <1>1, <2>15 DEF Onwards, QuietStages, Applying, ApplyStages
    <2>17. \A z \in DOMAIN links' : z \in DOMAIN links /\ (links[z].rollback # None => links'[z].rollback # None)
      BY <2>8, <2>15
    <2> QED BY <1>1, <2>5, <2>14, <2>15, <2>16, <2>17, Stayed
  <1> QED BY <1>5, <1>6

LEMMA RestorePromotedKeeps ==
    ASSUME IInv, RestorePromoted, scenario' = scenario, edits' = edits
    PROVE  IInv'
  <1> DEFINE s == Promote[run.at].source
  <1>1. At("restore") /\ run.at <= Len(Promote)
    BY DEF RestorePromoted
  <1>2. run.stage = "restore" /\ Intents = {} /\ run.cmd # "none" /\ Stages /\ Places /\ scenario \in Scenarios /\ run.at \in Nat
    BY <1>1, AtIs
  <1>3. VisiblePath(s)
    <2>1. run.at \in 1 .. Len(Promote)
      BY <1>1, <1>2, PromoteAre DEF Places
    <2> QED BY <1>2, <2>1, PromoteAre
  <1>4. /\ s \notin DOMAIN links => Next1
        /\ s \in DOMAIN links /\ links[s].rollback # None => Next1
        /\ s \in DOMAIN links /\ links[s].rollback = None =>
               JournalRestorePromotion(s, HiddenAt(s), IF Parent(s) = <<>> THEN NoStamp ELSE BaseShape[Parent(s)].data)
    BY DEF RestorePromoted
  <1> HIDE DEF s
  <1>5. CASE s \in DOMAIN links /\ links[s].rollback = None
    BY <1>1, <1>3, <1>4, <1>5, HiddenAtIs, RestoreJournaled
  <1>6. CASE s \notin DOMAIN links \/ links[s].rollback # None
    BY <1>2, <1>4, <1>6, NextOne DEF s, Walked
  <1> QED BY <1>5, <1>6

(***************************************************************************)
(* One row of a table is written.                                          *)
(***************************************************************************)
LEMMA RowWritten ==
    ASSUME IInv, Intents = {}, NEW p \in DOMAIN rows, NEW row, PathRowOK(row), row.create = rows[p].create,
           index = "none" /\ row.temp = 0 => rows[p].temp = 0,
           db' = SetRow(p, row), scenario' = scenario, lastId' = lastId
    PROVE  /\ Tables' /\ Intents' = {} /\ index' = index /\ State' = State /\ Onwards /\ DOMAIN rows' = DOMAIN rows
           /\ links' = links /\ recoveries' = recoveries
  <1> DEFINE r == [rows EXCEPT ![p] = row]
  <1>1. Tables /\ Types /\ lastId \in Nat
    BY DEF IInv, Tables, Worlds
  <1>2. db' = [db EXCEPT !.rows = r]
    BY <1>1 DEF SetRow, rows, Types
  <1>3. DOMAIN r = DOMAIN rows /\ r[p] = row /\ \A q \in DOMAIN rows : q # p => r[q] = rows[q]
    OBVIOUS
  <1> HIDE DEF r
  <1>4. DbIs(journal, pending, r, recoveries, links, index)
    BY <1>1, <1>2, Transactions
  <1>5. DOMAIN r \subseteq DOMAIN TargetShape /\ \A q \in DOMAIN r : PathRowOK(r[q])
    BY <1>1, <1>3 DEF Types, RowsTypes
  <1>6. SameCreations(r)
    BY <1>3 DEF SameCreations
  <1>7. Tables' /\ Intents' = Intents
    BY <1>1, <1>4, <1>5, <1>6, RowsOnly
  <1> QED BY <1>3, <1>4, <1>7 DEF DbIs, State, Onwards

LEMMA RecoveriesWritten ==
    ASSUME IInv, Intents = {}, NEW c, DOMAIN c = DOMAIN recoveries,
           \A p \in DOMAIN c : RecoveryOK(c[p]) /\ (recoveries[p].completed => c[p].completed),
           db' = [db EXCEPT !.recoveries = c], scenario' = scenario, lastId' = lastId
    PROVE  /\ Tables' /\ Intents' = {} /\ index' = index /\ State' = State /\ Onwards /\ rows' = rows
           /\ links' = links /\ recoveries' = c
  <1>1. Tables /\ Types /\ lastId \in Nat
    BY DEF IInv, Tables, Worlds
  <1>2. DbIs(journal, pending, rows, c, links, index)
    BY <1>1, Transactions
  <1>3. Tables' /\ Intents' = Intents
    BY <1>1, <1>2, RecoveriesOnly
  <1> QED BY <1>2, <1>3 DEF DbIs, State, Onwards

(***************************************************************************)
(* A captured path is done with: its links and their chains go too.        *)
(***************************************************************************)
LEMMA ConsumedTables ==
    ASSUME IInv, Intents = {}, NEW p, db' = Consumed(p), State # "applying", scenario' = scenario, lastId' = lastId,
           Base => \A s \in DOMAIN links : links[s].rollback # None
    PROVE  /\ Tables' /\ Intents' = {} /\ index' = index /\ State' = State /\ Onwards /\ rows' = rows
           /\ \A s \in DOMAIN links' : s \in DOMAIN links /\ links'[s] = links[s]
  <1> DEFINE mine == {s \in DOMAIN links : Top(s) = p}
             owned == {a \in journal : \E s \in mine : RootOf(a) = RootOf(Row(links[s].current)) \/ a.order = links[s].rollback}
             c == Without(recoveries, p)
             j == journal \ owned
             l == [s \in DOMAIN links \ mine |-> links[s]]
  <1>1. Tables /\ Types /\ lastId \in Nat
    BY DEF IInv, Tables, Worlds
  <1>2. db' = [db EXCEPT !.recoveries = c, !.journal = j, !.links = l]
    BY DEF Consumed, recoveries, journal, links
  <1>3. DOMAIN c \subseteq DOMAIN recoveries /\ \A q \in DOMAIN c : c[q] = recoveries[q]
    BY DEF Without
  <1>4. DOMAIN l \subseteq DOMAIN links /\ \A s \in DOMAIN l : l[s] = links[s]
    OBVIOUS
  <1>5. j \subseteq journal
    OBVIOUS
  <1> HIDE DEF c, j, l, mine, owned
  <1>6. DbIs(j, pending, rows, c, l, index)
    BY <1>1, <1>2, Transactions
  <1>7. /\ journal' = j /\ pending' = pending /\ rows' = rows /\ recoveries' = c /\ links' = l
        /\ index' = index /\ DOMAIN db' = DbFields /\ State' = State /\ (Base' <=> Base)
    BY <1>6 DEF DbIs, State, Base
  <1>8. Intents' = {}
    BY <1>5, <1>7 DEF Intents
  <1>9. JournalTypes'
    <2>1. IsFiniteSet(j)
      BY <1>1, <1>5, FS_Subset DEF Types, JournalTypes
    <2> QED BY <1>1, <1>5, <1>7, <2>1, Grown DEF Types, JournalTypes
  <1>10. RecoveriesTypes' /\ LinksTypes'
    BY <1>1, <1>3, <1>4, <1>7, Grown DEF Types, RecoveriesTypes, LinksTypes, RecoveryOK, LinkOK
  <1>11. Types'
    BY <1>1, <1>7, <1>9, <1>10, Framed
  <1>12. Indexed'
    BY <1>1, <1>3, <1>4, <1>7 DEF Tables, Indexed
  <1>13. IntentsTogether' /\ Phases'
    BY <1>8 DEF IntentsTogether, Phases
  <1>14. Unstarted' /\ Roots' /\ Creations'
    BY <1>1, <1>5, <1>7 DEF Tables, Unstarted, Roots, Creations
  <1>15. Linked'
    <2>1. \A a : a \in journal' => a.state # "intent"
      BY <1>8 DEF Intents
    <2>2. Base => \A s : ~ Away(s)'
      BY <1>4, <1>7, <2>1 DEF Away, RestoreIs
    <2> QED BY <1>4, <1>7, <2>2 DEF Linked
  <1>16. Onwards
    BY <1>3, <1>7 DEF Onwards
  <1> QED BY <1>4, <1>7, <1>8, <1>11, <1>12, <1>13, <1>14, <1>15, <1>16 DEF Tables

LEMMA ConsumedKeeps ==
    ASSUME IInv, NEW stage \in {"hidden", "cleanup"}, At(stage), NEW p, Commit(Consumed(p), stage, run.at + 1),
           scenario' = scenario, edits' = edits
    PROVE  IInv'
  <1>1. /\ run.stage = stage /\ Intents = {} /\ run.cmd # "none" /\ Stages /\ Places /\ Tables /\ run.at \in Nat
        /\ run.at + 1 \in Nat
    BY AtIs
  <1>2. db' = Consumed(p) /\ Goto(run.stage, run.at + 1) /\ UNCHANGED fs /\ lastId' = lastId
    BY <1>1 DEF Commit, fs
  <1>3. State # "applying" /\ (Base => \A s \in DOMAIN links : links[s].rollback # None)
    <2>1. CASE stage = "hidden"
      BY <1>1, <2>1 DEF Stages, Places, TakingBack, BackStages
    <2>2. CASE stage = "cleanup"
      BY <1>1, <2>2 DEF Stages, Tables, Indexed
    <2> QED BY <2>1, <2>2
  <1>4. /\ Tables' /\ Intents' = {} /\ index' = index /\ State' = State /\ Onwards /\ rows' = rows
        /\ \A s \in DOMAIN links' : s \in DOMAIN links /\ links'[s] = links[s]
    BY <1>1, <1>2, <1>3, ConsumedTables
  <1>5. run.at + 1 # 0 /\ run.stage \in Walked /\ run.stage \notin ApplyStages
    BY <1>1 DEF Walked, ApplyStages
  <1>6. run.stage \notin {"mtimes", "prepare", "promote", "restore", "directories", "files"}
    BY <1>1
  <1> DEFINE at == run.at + 1
  <1>7. at \in Nat /\ at # 0 /\ Goto(run.stage, at)
    BY <1>1, <1>2, <1>5
  <1> HIDE DEF at
  <1> QED BY <1>1, <1>2, <1>4, <1>5, <1>6, <1>7, WentOn

(***************************************************************************)
(* Captured paths return.                                                  *)
(***************************************************************************)
LEMMA RestoreRecoveryKeeps ==
    ASSUME IInv, RestoreRecovery, scenario' = scenario, edits' = edits
    PROVE  IInv'
  <1> DEFINE p == Tops[run.at].path
             r == recoveries[p]
             hidden == RecoveryName(p)
  <1>1. At("hidden")
    BY DEF RestoreRecovery
  <1>2. run.stage = "hidden" /\ Intents = {} /\ run.cmd # "none" /\ Tables /\ Types /\ scenario \in Scenarios
    BY <1>1, AtIs
  <1>3. /\ p \notin DOMAIN recoveries => Next1
        /\ p \in DOMAIN recoveries => \/ Commit(Consumed(p), "hidden", run.at + 1)
                                      \/ Fail
                                      \/ HasId(tree, hidden, r.id) /\ JournalRename("rollback", hidden, p, r.id)
    BY DEF RestoreRecovery, Require, Holds
  <1>4. p \in DOMAIN recoveries => VisiblePath(p)
    BY <1>2, TopsAre DEF Types, RecoveriesTypes
  <1> HIDE DEF p, r
  <1>5. CASE p \notin DOMAIN recoveries
    BY <1>2, <1>3, <1>5, NextOne DEF Walked
  <1>6. CASE Commit(Consumed(p), "hidden", run.at + 1)
    BY <1>1, <1>6, ConsumedKeeps
  <1>7. CASE p \in DOMAIN recoveries /\ HasId(tree, hidden, r.id) /\ JournalRename("rollback", hidden, p, r.id)
    <2>1. VisiblePath(p) /\ p \in Path /\ p # <<>> /\ Last(p)[1] \in VisibleForms
      BY <1>4, <1>7, VisibleIs
    <2>2. hidden # <<>> /\ Parent(hidden) = Parent(p)
      BY <2>1, InternalIs DEF RecoveryName, InternalForms
    <2>3. ~ IsTemp(p)
      BY <2>1 DEF IsTemp, VisibleForms
    <2>4. Phase("rollback")
      BY DEF Phase
    <2> HIDE DEF hidden
    <2> QED BY <1>2, <1>7, <2>1, <2>2, <2>3, <2>4, RenameIntended DEF QuietStages
  <1> QED BY <1>3, <1>5, <1>6, <1>7, Failed

(***************************************************************************)
(* Cleanup of what was captured.                                           *)
(***************************************************************************)
LEMMA CleanupRecoveryKeeps ==
    ASSUME IInv, CleanupRecovery, scenario' = scenario, edits' = edits
    PROVE  IInv'
  <1> DEFINE p == Tops[run.at].path
             r == recoveries[p]
  <1>1. At("cleanup")
    BY DEF CleanupRecovery
  <1>2. /\ run.stage = "cleanup" /\ Intents = {} /\ run.cmd # "none" /\ Tables /\ Types /\ Worlds /\ scenario \in Scenarios
        /\ lastId \in Nat /\ Stages
    BY <1>1, AtIs DEF Worlds
  <1>3. ~ Base /\ run.stage \notin QuietStages /\ ~ Applying
    BY <1>2 DEF Stages, QuietStages, Applying, ApplyStages
  <1>4. /\ p \notin DOMAIN recoveries => Next1
        /\ p \in DOMAIN recoveries =>
               \/ Commit(Consumed(p), "cleanup", run.at + 1)
               \/ Fail
               \/ Tx([db EXCEPT !.recoveries[p].tombstone = TRUE])
               \/ HasId(tree, RecoveryName(p), r.id) /\ JournalRename("post_base", RecoveryName(p), TombstoneName(p), r.id)
               \/ Tx(RemovalPlan(p))
               \/ HasId(tree, TombstoneName(p), r.id) /\ JournalRemove("post_base", TombstoneName(p), r.id)
    BY DEF CleanupRecovery, Require, Holds
  <1>5. p \in DOMAIN recoveries => VisiblePath(p) /\ RecoveryOK(r)
    BY <1>2, TopsAre DEF Types, RecoveriesTypes
  <1> HIDE DEF p, r
  <1>6. Phase("post_base")
    BY <1>3 DEF Phase
  <1>7. p \in DOMAIN recoveries => /\ RecoveryName(p) \in Path /\ RecoveryName(p) # <<>> /\ Parent(RecoveryName(p)) = Parent(p)
                                   /\ TombstoneName(p) \in Path /\ TombstoneName(p) # <<>> /\ Parent(TombstoneName(p)) = Parent(p)
                                   /\ ~ IsTemp(TombstoneName(p))
    <2> SUFFICES ASSUME p \in DOMAIN recoveries
                 PROVE  /\ RecoveryName(p) \in Path /\ RecoveryName(p) # <<>> /\ Parent(RecoveryName(p)) = Parent(p)
                        /\ TombstoneName(p) \in Path /\ TombstoneName(p) # <<>> /\ Parent(TombstoneName(p)) = Parent(p)
                        /\ ~ IsTemp(TombstoneName(p))
      OBVIOUS
    <2>1. VisiblePath(p)
      BY <1>5
    <2>2. /\ Internal(p, "recovery", 0) \in Path /\ Internal(p, "recovery", 0) # <<>> /\ Parent(Internal(p, "recovery", 0)) = Parent(p)
      BY <2>1, InternalIs DEF InternalForms
    <2>3. /\ Internal(p, "tombstone", 0) \in Path /\ Internal(p, "tombstone", 0) # <<>> /\ Parent(Internal(p, "tombstone", 0)) = Parent(p)
          /\ Last(Internal(p, "tombstone", 0))[1] = "tombstone"
      BY <2>1, InternalIs DEF InternalForms
    <2> QED BY <2>2, <2>3 DEF RecoveryName, TombstoneName, IsTemp
  <1>8. CASE p \notin DOMAIN recoveries
    BY <1>2, <1>4, <1>8, NextOne DEF Walked
  <1>9. CASE Commit(Consumed(p), "cleanup", run.at + 1)
    BY <1>1, <1>9, ConsumedKeeps
  <1>10. CASE p \in DOMAIN recoveries /\ Tx([db EXCEPT !.recoveries[p].tombstone = TRUE])
    <2> DEFINE c == [recoveries EXCEPT ![p].tombstone = TRUE]
    <2>1. db' = [db EXCEPT !.recoveries = c] /\ run' = run /\ UNCHANGED fs /\ lastId' = lastId
      BY <1>2, <1>10 DEF Tx, recoveries, Types, fs
    <2>2. DOMAIN c = DOMAIN recoveries /\ \A q \in DOMAIN c : c[q] = IF q = p THEN [r EXCEPT !.tombstone = TRUE] ELSE recoveries[q]
      BY <1>10 DEF r
    <2> HIDE DEF c
    <2>3. RecoveryOK([r EXCEPT !.tombstone = TRUE]) /\ [r EXCEPT !.tombstone = TRUE].completed = r.completed
      BY <1>5, <1>10 DEF RecoveryOK
    <2>4. \A q \in DOMAIN c : RecoveryOK(c[q]) /\ (recoveries[q].completed => c[q].completed)
      BY <1>2, <2>2, <2>3 DEF Types, RecoveriesTypes, r
    <2>5. /\ Tables' /\ Intents' = {} /\ index' = index /\ State' = State /\ Onwards /\ rows' = rows /\ links' = links
      BY <1>2, <2>1, <2>2, <2>4, RecoveriesWritten
    <2> QED BY <1>2, <1>3, <2>1, <2>5, Stayed
  <1>11. CASE p \in DOMAIN recoveries /\ HasId(tree, RecoveryName(p), r.id)
              /\ JournalRename("post_base", RecoveryName(p), TombstoneName(p), r.id)
    BY <1>2, <1>3, <1>6, <1>7, <1>11, RenameIntended
  <1>12. CASE p \in DOMAIN recoveries /\ Tx(RemovalPlan(p))
    <2>1. db' = RemovalPlan(p) /\ run' = run /\ UNCHANGED fs /\ lastId' = lastId
      BY <1>12 DEF Tx, fs
    <2>2. Tables' /\ pending' = pending /\ rows' = rows /\ recoveries' = recoveries /\ links' = links /\ index' = index
      BY <1>2, <1>3, <1>5, <1>12, <2>1, RemovalPlanned
    <2>3. Onwards /\ State' = State
      BY <2>2 DEF Onwards, State
    <2> QED BY <1>2, <1>3, <2>1, <2>2, <2>3, Stayed
  <1>13. CASE p \in DOMAIN recoveries /\ HasId(tree, TombstoneName(p), r.id) /\ JournalRemove("post_base", TombstoneName(p), r.id)
    BY <1>2, <1>3, <1>6, <1>7, <1>13, RemovalIntended
  <1> QED BY <1>4, <1>8, <1>9, <1>10, <1>11, <1>12, <1>13, Failed

(***************************************************************************)
(* Installed paths are removed.                                            *)
(***************************************************************************)
LEMMA UninstallPathKeeps ==
    ASSUME IInv, UninstallPath, scenario' = scenario, edits' = edits
    PROVE  IInv'
  <1> DEFINE p == Uninstalls[run.at].path
  <1>1. At("uninstall")
    BY DEF UninstallPath
  <1>2. /\ run.stage = "uninstall" /\ Intents = {} /\ run.cmd # "none" /\ Tables /\ Types /\ Worlds /\ scenario \in Scenarios
        /\ lastId \in Nat /\ run.at \in Nat /\ run.at + 1 \in Nat
    BY <1>1, AtIs DEF Worlds
  <1>3. run.stage \notin QuietStages /\ run.stage \notin ApplyStages /\ ~ Applying /\ run.stage \in Walked
    BY <1>2 DEF QuietStages, Applying, ApplyStages, Walked
  <1>4. /\ p \notin DOMAIN rows => Next1
        /\ p \in DOMAIN rows =>
               \/ Next1
               \/ Fail
               \/ Commit([db EXCEPT !.rows = Without(@, p)], "uninstall", run.at + 1)
               \/ HasId(tree, RollbackName(p), InstalledId(p)) /\ JournalRemove("rollback", RollbackName(p), InstalledId(p))
               \/ Tx(SetRow(p, [rows[p] EXCEPT !.tombstone = TRUE]))
               \/ HasId(tree, p, InstalledId(p)) /\ JournalRename("rollback", p, RollbackName(p), InstalledId(p))
    BY DEF UninstallPath, Require, Unchanged, ForgetPath
  <1>5. p \in DOMAIN rows => VisiblePath(p) /\ PathRowOK(rows[p])
    BY <1>2, EntriesAre DEF Types, RowsTypes
  <1> HIDE DEF p
  <1>6. p \in DOMAIN rows => /\ p # <<>> /\ RollbackName(p) \in Path /\ RollbackName(p) # <<>> /\ Parent(RollbackName(p)) = Parent(p)
                             /\ ~ IsTemp(RollbackName(p))
    <2> SUFFICES ASSUME p \in DOMAIN rows
                 PROVE  /\ p # <<>> /\ RollbackName(p) \in Path /\ RollbackName(p) # <<>> /\ Parent(RollbackName(p)) = Parent(p)
                        /\ ~ IsTemp(RollbackName(p))
      OBVIOUS
    <2>1. VisiblePath(p) /\ p # <<>>
      BY <1>5, VisibleIs
    <2>2. /\ Internal(p, "rollback", 0) \in Path /\ Internal(p, "rollback", 0) # <<>> /\ Parent(Internal(p, "rollback", 0)) = Parent(p)
          /\ Last(Internal(p, "rollback", 0))[1] = "rollback"
      BY <2>1, InternalIs DEF InternalForms
    <2> QED BY <2>1, <2>2 DEF RollbackName, IsTemp
  <1>7. Phase("rollback")
    BY DEF Phase
  <1>8. CASE Next1
    BY <1>2, <1>3, <1>8, NextOne
  <1>9. CASE p \in DOMAIN rows /\ Commit([db EXCEPT !.rows = Without(@, p)], "uninstall", run.at + 1)
    <2> DEFINE r == Without(rows, p)
    <2>1. db' = [db EXCEPT !.rows = r] /\ Goto(run.stage, run.at + 1) /\ UNCHANGED fs /\ lastId' = lastId
      BY <1>2, <1>9 DEF Commit, rows, fs
    <2>2. DOMAIN r \subseteq DOMAIN rows /\ \A q \in DOMAIN r : r[q] = rows[q]
      BY DEF Without
    <2> HIDE DEF r
    <2>3. DbIs(journal, pending, r, recoveries, links, index)
      BY <1>2, <2>1, Transactions
    <2>4. DOMAIN r \subseteq DOMAIN TargetShape /\ (\A q \in DOMAIN r : PathRowOK(r[q])) /\ SameCreations(r)
      BY <1>2, <2>2 DEF Types, RowsTypes, SameCreations
    <2>5. Tables' /\ Intents' = Intents
      BY <1>2, <2>1, <2>3, <2>4, RowsOnly
    <2>6. index' = index /\ State' = State /\ Onwards /\ links' = links
      BY <2>3 DEF DbIs, State, Onwards
    <2>7. PICK at \in Nat : at = run.at + 1 /\ at # 0
      BY <1>2
    <2>8. Goto(run.stage, at)
      BY <2>1, <2>7
    <2> QED BY <1>2, <1>3, <2>1, <2>5, <2>6, <2>7, <2>8, WentOn
  <1>10. CASE p \in DOMAIN rows /\ Tx(SetRow(p, [rows[p] EXCEPT !.tombstone = TRUE]))
    <2> DEFINE row == [rows[p] EXCEPT !.tombstone = TRUE]
    <2>1. PathRowOK(row) /\ row.create = rows[p].create /\ row.temp = rows[p].temp
      BY <1>5, <1>10 DEF PathRowOK
    <2>2. db' = SetRow(p, row) /\ run' = run /\ UNCHANGED fs /\ lastId' = lastId
      BY <1>10 DEF Tx, fs
    <2> HIDE DEF row
    <2>3. /\ Tables' /\ Intents' = {} /\ index' = index /\ State' = State /\ Onwards /\ DOMAIN rows' = DOMAIN rows
          /\ links' = links
      BY <1>2, <1>10, <2>1, <2>2, RowWritten
    <2> QED BY <1>2, <1>3, <2>2, <2>3, Stayed
  <1>11. CASE p \in DOMAIN rows /\ HasId(tree, p, InstalledId(p)) /\ JournalRename("rollback", p, RollbackName(p), InstalledId(p))
    BY <1>2, <1>3, <1>6, <1>7, <1>11, RenameIntended
  <1>12. CASE p \in DOMAIN rows /\ HasId(tree, RollbackName(p), InstalledId(p))
              /\ JournalRemove("rollback", RollbackName(p), InstalledId(p))
    BY <1>2, <1>3, <1>6, <1>7, <1>12, RemovalIntended
  <1> QED BY <1>4, <1>8, <1>9, <1>10, <1>11, <1>12, Failed

(***************************************************************************)
(* The rest of a rollback.                                                 *)
(***************************************************************************)
LEMMA RestoreMetadataKeeps ==
    ASSUME IInv, RestoreMetadata, scenario' = scenario, edits' = edits
    PROVE  IInv'
  <1> DEFINE from == {Top(s) : s \in {x \in DOMAIN links : Len(x) > 1}}
             c == [p \in DOMAIN recoveries |-> IF p \in from THEN [recoveries[p] EXCEPT !.shape = BaseBelow(p)] ELSE recoveries[p]]
  <1>1. At("restore") /\ run.at > Len(Promote) /\ Goto("temps", 1) /\ UNCHANGED fs
    BY DEF RestoreMetadata, Commit
  <1>2. db' = [db EXCEPT !.recoveries = c]
    BY DEF RestoreMetadata, Commit, recoveries
  <1>3. /\ run.stage = "restore" /\ Intents = {} /\ run.cmd # "none" /\ Tables /\ Types /\ Stages /\ Places /\ scenario \in Scenarios
        /\ run.at \in Nat
    BY <1>1, AtIs
  <1>4. DOMAIN c = DOMAIN recoveries /\ \A p \in DOMAIN c : RecoveryOK(c[p]) /\ c[p].completed = recoveries[p].completed
    <2>1. \A p \in DOMAIN recoveries : RecoveryOK(recoveries[p])
      BY <1>3 DEF Types, RecoveriesTypes
    <2>2. \A r, x : RecoveryOK(r) => RecoveryOK([r EXCEPT !.shape = x]) /\ [r EXCEPT !.shape = x].completed = r.completed
      BY DEF RecoveryOK
    <2> QED BY <2>1, <2>2
  <1> HIDE DEF c
  <1>5. /\ Worlds' /\ RunTypes' /\ Acting' /\ lastId' = lastId
        /\ run'.cmd = run.cmd /\ run'.stage = "temps" /\ run'.at = 1 /\ ~ Applying' /\ TakingBack'
    BY <1>1, <1>3, Arrived DEF ApplyStages, BackStages
  <1>6. /\ Tables' /\ Intents' = {} /\ index' = index /\ State' = State /\ links' = links
    BY <1>2, <1>3, <1>4, <1>5, RecoveriesWritten
  <1>7. index # "target" /\ State # "applying" /\ run.cmd # "bind"
    BY <1>3 DEF Stages, BindStages
  <1>8. \A s \in DOMAIN links : links[s].rollback # None
    <2> TAKE s \in DOMAIN links
    <2>1. s \in Sources
      BY <1>3 DEF Types, LinksTypes
    <2>2. PICK i \in 1 .. Len(Promote) : Promote[i].source = s
      BY <1>3, <2>1, PromoteAre
    <2>3. i \in 1 .. run.at - 1 /\ i <= Len(Promote)
      BY <1>1, <1>3, <2>2, PromoteAre
    <2> QED BY <1>3, <2>2, <2>3 DEF Places
  <1>9. Stages'
    BY <1>3, <1>5, <1>6, <1>7 DEF Stages, QuietStages
  <1>10. Places'
    BY <1>5, <1>6, <1>8 DEF Places, ApplyStages
  <1> QED BY <1>5, <1>6, <1>9, <1>10 DEF IInv, Control

LEMMA RestoreRootMtimeKeeps ==
    ASSUME IInv, RestoreRootMtime, scenario' = scenario, edits' = edits
    PROVE  IInv'
  <1>1. At("root")
    BY DEF RestoreRootMtime
  <1>2. /\ run.stage = "root" /\ Intents = {} /\ run.cmd # "none" /\ Tables /\ Types /\ Worlds /\ Stages /\ Places
    BY <1>1, AtIs
  <1>3. Enter("clear", 1) \/ Fail \/ JournalMtime("rollback", <<>>, tree[<<>>].id, pending.stamp)
    BY DEF RestoreRootMtime, Require
  <1>4. CASE Enter("clear", 1)
    <2>1. /\ run'.cmd = run.cmd /\ run'.stage = "clear" /\ run'.at = 1 /\ Intents' = {} /\ State' = State
          /\ index' = index /\ links' = links /\ ~ Applying' /\ TakingBack'
          /\ Stages' /\ Places' => IInv'
      BY <1>2, <1>4, Entered DEF ApplyStages, BackStages
    <2>2. TakingBack /\ run.cmd # "bind"
      BY <1>2 DEF TakingBack, BackStages, Stages, BindStages
    <2>3. Stages'
      BY <1>2, <2>1, <2>2 DEF Stages
    <2>4. Places'
      BY <1>2, <2>1, <2>2 DEF Places, ApplyStages
    <2> QED BY <2>1, <2>3, <2>4
  <1>5. CASE JournalMtime("rollback", <<>>, tree[<<>>].id, pending.stamp)
    <2>1. HasId(tree, <<>>, tree[<<>>].id)
      BY <1>2 DEF Worlds, WellFormed, IsDir, HasId
    <2>2. Phase("rollback") /\ run.stage \notin QuietStages
      BY <1>2 DEF Phase, QuietStages
    <2> QED BY <1>2, <1>5, <2>1, <2>2, MtimeIntended
  <1> QED BY <1>3, <1>4, <1>5, Failed

LEMMA CleanupTempsKeeps ==
    ASSUME IInv, CleanupTemps, scenario' = scenario, edits' = edits
    PROVE  IInv'
  <1> DEFINE named == {p \in DOMAIN rows : rows[p].temp # 0}
             left == {p \in named : Exists(TempName(p))}
             p == CHOOSE q \in left : TRUE
             t == TempName(p)
  <1>1. At("temps")
    BY DEF CleanupTemps
  <1>2. /\ run.stage = "temps" /\ Intents = {} /\ run.cmd # "none" /\ Tables /\ Types /\ Worlds /\ Stages /\ Places
        /\ scenario \in Scenarios /\ run.at \in Nat /\ lastId \in Nat
    BY <1>1, AtIs DEF Worlds
  <1>3. run.cmd # "bind" /\ run.stage \notin QuietStages
    BY <1>2 DEF Stages, BindStages, QuietStages
  <1>4. \/ Fail
        \/ left # {} /\ HasId(tree, t, TempId(p)) /\ JournalRemove("rollback", t, TempId(p))
        \/ run.at = 1 /\ Enter("uninstall", 1)
        \/ run.at # 1 /\ /\ State = "none" => Enter("unbind", 0)
                         /\ State = "finalized" => Enter("cleanup", 1)
                         /\ State = "pending" => Enter("restore", 1)
                         /\ State \in {"applying", "rolling_back"} => Commit(BeginRollback, "restore", 1)
    BY DEF CleanupTemps, Require, State
  <1>5. left # {} => p \in DOMAIN rows
    OBVIOUS
  <1> HIDE DEF left, named, p
  <1>6. CASE left # {} /\ HasId(tree, t, TempId(p)) /\ JournalRemove("rollback", t, TempId(p))
    <2>1. VisiblePath(p) /\ rows[p].temp \in Nat
      BY <1>2, <1>5, <1>6, EntriesAre DEF Types, RowsTypes, PathRowOK
    <2>2. t # <<>>
      BY <2>1, InternalIs DEF TempName, InternalForms
    <2>3. Phase("rollback")
      BY DEF Phase
    <2> HIDE DEF t
    <2> QED BY <1>2, <1>3, <1>6, <2>2, <2>3, RemovalIntended
  <1>7. CASE run.at = 1 /\ Enter("uninstall", 1)
    <2>1. /\ run'.cmd = run.cmd /\ run'.stage = "uninstall" /\ run'.at = 1 /\ Intents' = {} /\ State' = State
          /\ index' = index /\ links' = links /\ ~ Applying' /\ TakingBack'
          /\ Stages' /\ Places' => IInv'
      BY <1>2, <1>7, Entered DEF ApplyStages, BackStages
    <2>2. TakingBack
      BY <1>2, <1>7 DEF TakingBack
    <2>3. Stages'
      BY <1>2, <1>3, <2>1, <2>2 DEF Stages
    <2>4. Places'
      BY <1>2, <2>1, <2>2 DEF Places, ApplyStages
    <2> QED BY <2>1, <2>3, <2>4
  <1>8. CASE State = "none" /\ Enter("unbind", 0)
    <2>1. /\ run'.cmd = run.cmd /\ run'.stage = "unbind" /\ run'.at = 0 /\ Intents' = {} /\ State' = State
          /\ index' = index /\ ~ Applying' /\ ~ TakingBack'
          /\ Stages' /\ Places' => IInv'
      BY <1>2, <1>8, Entered DEF ApplyStages, BackStages
    <2>3. Stages'
      BY <1>2, <1>3, <2>1 DEF Stages
    <2>4. Places'
      BY <2>1 DEF Places, ApplyStages
    <2> QED BY <2>1, <2>3, <2>4
  <1>9. CASE State = "finalized" /\ Enter("cleanup", 1)
    <2>1. /\ run'.cmd = run.cmd /\ run'.stage = "cleanup" /\ run'.at = 1 /\ Intents' = {} /\ State' = State
          /\ index' = index /\ (Base' <=> Base) /\ ~ Applying' /\ ~ TakingBack'
          /\ Stages' /\ Places' => IInv'
      BY <1>2, <1>9, Entered DEF ApplyStages, BackStages
    <2>2. ~ Base
      BY <1>2, <1>9 DEF Tables, Indexed, Base
    <2>3. Stages'
      BY <1>2, <1>3, <2>1, <2>2 DEF Stages
    <2>4. Places'
      BY <2>1 DEF Places, ApplyStages
    <2> QED BY <2>1, <2>3, <2>4
  <1>10. CASE State = "pending" /\ Enter("restore", 1)
    <2>1. /\ run'.cmd = run.cmd /\ run'.stage = "restore" /\ run'.at = 1 /\ Intents' = {} /\ State' = State
          /\ index' = index /\ ~ Applying' /\ ~ TakingBack'
          /\ Stages' /\ Places' => IInv'
      BY <1>2, <1>10, Entered DEF ApplyStages, BackStages
    <2>2. index # "target"
      BY <1>2, <1>10 DEF Tables, Indexed
    <2>3. Stages'
      BY <1>2, <1>3, <1>10, <2>1, <2>2 DEF Stages
    <2>4. Places'
      BY <2>1 DEF Places, ApplyStages
    <2> QED BY <2>1, <2>3, <2>4
  <1>11. CASE State \in {"applying", "rolling_back"} /\ Commit(BeginRollback, "restore", 1)
    <2> DEFINE x == [pending EXCEPT !.state = "rolling_back"]
    <2>1. db' = BeginRollback /\ UNCHANGED fs /\ Goto("restore", 1)
      BY <1>11 DEF Commit
    <2>2. db' = [db EXCEPT !.pending = x]
      BY <1>2, <2>1 DEF BeginRollback, pending, Types
    <2>3. DOMAIN x = {"state", "stamp"} /\ x.state = "rolling_back"
      BY <1>2 DEF Types, PendingTypes
    <2> HIDE DEF x
    <2>4. DbIs(journal, x, rows, recoveries, links, index)
      BY <1>2, <2>2, Transactions
    <2>5. /\ Worlds' /\ RunTypes' /\ Acting' /\ lastId' = lastId
          /\ run'.cmd = run.cmd /\ run'.stage = "restore" /\ run'.at = 1 /\ ~ Applying' /\ ~ TakingBack'
      BY <1>2, <2>1, Arrived DEF ApplyStages, BackStages
    <2>6. index # "target"
      BY <1>2, <1>11 DEF Tables, Indexed
    <2>7. Tables' /\ Intents' = {}
      BY <1>2, <2>3, <2>4, <2>5, <2>6, PendingOnly
    <2>8. index' = index /\ State' = "rolling_back"
      BY <2>3, <2>4 DEF DbIs, State
    <2>9. Stages'
      BY <1>2, <1>3, <2>5, <2>6, <2>7, <2>8 DEF Stages
    <2>10. Places'
      BY <2>5 DEF Places, ApplyStages
    <2> QED BY <2>5, <2>7, <2>9, <2>10 DEF IInv, Control
  <1>12. State \in {"none", "pending", "applying", "rolling_back", "finalized"}
    BY <1>2 DEF Types, PendingTypes
  <1> QED BY <1>4, <1>6, <1>7, <1>8, <1>9, <1>10, <1>11, <1>12, Failed

(***************************************************************************)
(* A captured file that was promoted moves on to the next name.            *)
(***************************************************************************)
LEMMA LatePromoted ==
    ASSUME IInv, Intents = {}, Applying, run.stage \notin QuietStages, NEW s \in DOMAIN links, JournalLatePromotion(s),
           scenario' = scenario, edits' = edits
    PROVE  IInv'
  <1> DEFINE c == CurrentOf(s)
             n == NextOfChain(c, c.target, c.id)
             l == [links EXCEPT ![s].current = NextOrder]
  <1>1. Tables /\ Types /\ Worlds /\ lastId \in Nat /\ Base /\ State = "applying"
    BY Idle DEF IInv, Tables, Worlds
  <1>2. links[s].rollback = None /\ \A p \in DOMAIN recoveries : recoveries[p].completed
    BY <1>1 DEF Tables, Linked
  <1>3. CurrentIs(s, c) /\ c \in journal /\ IsPromotion(c) /\ RowOK(c) /\ c = Row(links[s].current)
    BY <1>1, <1>2, CurrentRow
  <1> HIDE DEF c
  <1>4. CASE ~ HasId(tree, c.target, c.id)
    <2>1. Fail
      BY <1>3, <1>4 DEF JournalLatePromotion
    <2> QED BY <2>1, Failed
  <1>5. CASE HasId(tree, c.target, c.id)
    <2>1. Tx([db EXCEPT !.journal = Put(n), !.links[s].current = NextOrder])
      BY <1>3, <1>5 DEF JournalLatePromotion, NextOfChain, ChainRow
    <2>2. DOMAIN db = DbFields
      BY <1>1 DEF Types, DbFields
    <2>3. db' = [db EXCEPT !.journal = journal \cup {n}, !.links = l] /\ UNCHANGED fs /\ run' = run /\ lastId' = lastId
      BY <2>1, <2>2 DEF Tx, Put, DbFields, links, fs
    <2>4. LinkOK(links[s])
      BY <1>1 DEF Types, LinksTypes
    <2>5. NextOrder \in Nat \ {0}
      BY <1>1, NextOrderIs DEF Types
    <2>6. DOMAIN l = DOMAIN links /\ l[s].current = NextOrder /\ l[s].rollback = None
          /\ DOMAIN l[s] = {"current", "rollback"} /\ \A z \in DOMAIN l : z # s => l[z] = links[z]
      BY <1>2, <2>4 DEF LinkOK
    <2>7. Chained(n, c, c.target, c.id)
      BY <1>1, <1>3, <1>5, NextOfChainOK
    <2> HIDE DEF l, n
    <2>8. LinkOK(l[s])
      <3>1. None \in Nat
        BY DEF None
      <3> QED BY <2>5, <2>6, <3>1 DEF LinkOK
    <2>9. DbIs(journal \cup {n}, pending, rows, recoveries, l, index)
      BY <1>1, <2>3, Transactions
    <2>10. Admitted(n) /\ IsPromotion(n) /\ n.op = "rename"
      BY <2>7 DEF Chained
    <2>11. s \in Sources /\ Relinked(l, s)
      BY <1>1, <2>6 DEF Types, LinksTypes, Relinked
    <2>12. Tables' /\ Intents' = {n}
      BY <1>1, <1>2, <2>3, <2>6, <2>8, <2>9, <2>10, <2>11, LinkAdmitted
    <2>13. rows' = rows /\ recoveries' = recoveries /\ links' = l /\ index' = index /\ State' = State
      BY <2>9 DEF DbIs, State
    <2>14. Onwards /\ ~ TakingBack /\ run.stage # "restore"
      BY <2>13 DEF Onwards, TakingBack, Applying, ApplyStages, BackStages
    <2>15. DOMAIN links \subseteq DOMAIN links'
      BY <2>6, <2>13
    <2> QED BY <2>3, <2>12, <2>13, <2>14, <2>15, Stayed
  <1> QED BY <1>4, <1>5

(***************************************************************************)
(* A row is written and the process goes on.                               *)
(***************************************************************************)
LEMMA RowThen ==
    ASSUME IInv, Intents = {}, run.cmd # "none", run.stage \in Walked, NEW at \in Nat, NEW p \in DOMAIN rows, NEW row,
           Commit(SetRow(p, row), run.stage, at), PathRowOK(row), row.create = rows[p].create,
           index = "none" /\ row.temp = 0 => rows[p].temp = 0, scenario' = scenario, edits' = edits,
           run.stage # "mtimes" => at # 0,
           run.stage = "prepare" => \A i \in 1 .. at - 1 :
               i <= Len(Tops) /\ Tops[i].path \in DOMAIN recoveries => recoveries[Tops[i].path].completed,
           run.stage = "promote" => \A i \in 1 .. at - 1 : i <= Len(Promote) => Promote[i].source \in DOMAIN links,
           run.stage = "restore" => \A i \in 1 .. at - 1 :
               i <= Len(Promote) /\ Promote[i].source \in DOMAIN links => links[Promote[i].source].rollback # None,
           run.stage = "directories" /\ at <= Len(Entries) => Entries[at].kind = "Directory",
           run.stage = "files" /\ at <= Len(Entries) => Entries[at].kind = "File",
           run.stage = "mtimes" /\ at # 0 => at <= Len(Entries) /\ Entries[at].kind = "Directory"
    PROVE  IInv'
  <1>1. db' = SetRow(p, row) /\ Goto(run.stage, at) /\ UNCHANGED fs /\ lastId' = lastId
    BY DEF Commit, fs
  <1>2. /\ Tables' /\ Intents' = {} /\ index' = index /\ State' = State /\ Onwards /\ DOMAIN rows' = DOMAIN rows
        /\ links' = links /\ recoveries' = recoveries
    BY <1>1, RowWritten
  <1> QED BY <1>1, <1>2, WentOn

(* A promoted path is to be downloaded.                                    *)
LEMMA ResetKeeps ==
    ASSUME IInv, Intents = {}, Applying, run.stage \in Walked \ {"directories", "files", "mtimes"}, NEW s \in DOMAIN links,
           ResetPromoted(s), scenario' = scenario, edits' = edits
    PROVE  IInv'
  <1> DEFINE t == PromotedTo(s)
             row == [NewPath EXCEPT !.create = rows[t].create]
  <1>1. Types /\ Stages /\ Places /\ scenario \in Scenarios /\ Base /\ run.at \in Nat /\ run.cmd # "none"
    BY Idle, Busy DEF IInv, Tables, Control, Worlds, RunTypes, Walked
  <1>2. s \in Sources
    BY <1>1 DEF Types, LinksTypes
  <1>3. t \in DOMAIN TargetShape
    <2>1. PICK i \in 1 .. Len(Promote) : Promote[i].source = s
      BY <1>1, <1>2, PromoteAre
    <2> QED BY <1>1, <2>1, PromoteAre
  <1>4. t \in DOMAIN rows
    BY <1>1, <1>3 DEF Places, Applying
  <1>5. PathRowOK(rows[t])
    BY <1>1, <1>4 DEF Types, RowsTypes
  <1>6. PathRowOK(row) /\ row.create = rows[t].create
    <2>1. None = 0 /\ 0 \in 0 .. lastId /\ 0 \in Nat
      BY DEF None, IInv, Worlds
    <2>2. DOMAIN row = {"temp", "tempId", "targetId", "completed", "tombstone", "create"}
      BY DEF NewPath
    <2>3. row.create = rows[t].create /\ row.temp = 0 /\ row.tempId = 0 /\ row.targetId = 0 /\ row.completed = FALSE
          /\ row.tombstone = FALSE
      BY <2>1 DEF NewPath
    <2>4. rows[t].create \in Nat
      BY <1>5 DEF PathRowOK
    <2> HIDE DEF row
    <2> QED BY <2>1, <2>2, <2>3, <2>4 DEF PathRowOK
  <1>7. Commit(SetRow(t, row), run.stage, run.at)
    BY DEF ResetPromoted
  <1> HIDE DEF row, t
  <1>8. run.at # 0 /\ index # "none"
    BY <1>1 DEF Places, Walked, Base
  <1>9. /\ run.stage = "prepare" => \A i \in 1 .. run.at - 1 :
               i <= Len(Tops) /\ Tops[i].path \in DOMAIN recoveries => recoveries[Tops[i].path].completed
        /\ run.stage = "promote" => \A i \in 1 .. run.at - 1 : i <= Len(Promote) => Promote[i].source \in DOMAIN links
        /\ run.stage = "restore" => \A i \in 1 .. run.at - 1 :
               i <= Len(Promote) /\ Promote[i].source \in DOMAIN links => links[Promote[i].source].rollback # None
    BY <1>1 DEF Places
  <1> QED BY <1>1, <1>4, <1>6, <1>7, <1>8, <1>9, RowThen

(***************************************************************************)
(* Reconciliation.                                                         *)
(***************************************************************************)
LEMMA ReconcileKeeps ==
    ASSUME IInv, Reconcile, scenario' = scenario, edits' = edits
    PROVE  IInv'
  <1> DEFINE s == Promote[run.at].source
  <1>1. /\ run.stage \in {"late1", "late2", "late3", "late4"} /\ Intents = {} /\ run.at <= Len(Promote)
        /\ ResetPromoted(s) \/ JournalLatePromotion(s) \/ Next1
    BY DEF Reconcile, AfterLate
  <1>2. /\ run.cmd # "none" /\ Stages /\ Places /\ scenario \in Scenarios /\ run.at \in Nat
    BY <1>1, AtIs DEF At
  <1>3. Applying /\ run.stage \notin QuietStages
    BY <1>1, <1>2 DEF Applying, ApplyStages, Stages, BindStages, QuietStages
  <1>4. s \in DOMAIN links
    <2>1. run.at \in 1 .. Len(Promote)
      BY <1>1, <1>2, PromoteAre DEF Places
    <2> QED BY <1>1, <1>2, <1>3, <2>1 DEF Places
  <1> HIDE DEF s
  <1>5. CASE ResetPromoted(s)
    BY <1>1, <1>3, <1>4, <1>5, ResetKeeps DEF Walked
  <1>6. CASE JournalLatePromotion(s)
    BY <1>1, <1>3, <1>4, <1>6, LatePromoted
  <1>7. CASE Next1
    BY <1>1, <1>2, <1>7, NextOne DEF Walked
  <1> QED BY <1>1, <1>5, <1>6, <1>7

(***************************************************************************)
(* Capture.                                                                *)
(***************************************************************************)
LEMMA Stepped ==
    ASSUME IInv, Intents = {}, run.stage \notin QuietStages, run.cmd # "none", NEW step, run' = [run EXCEPT !.step = step],
           UNCHANGED <<fs, db>>, scenario' = scenario, edits' = edits
    PROVE  IInv'
  <1>1. Worlds' /\ lastId' = lastId /\ lastId \in Nat
    BY WorldsSame DEF IInv, fs, Worlds
  <1>2. Tables' /\ Intents' = Intents /\ index' = index /\ State' = State /\ rows' = rows /\ recoveries' = recoveries /\ links' = links
    BY <1>1, SameTables DEF IInv, index, State, pending, rows, recoveries, links
  <1>3. RunTypes' /\ run'.cmd = run.cmd /\ run'.stage = run.stage /\ run'.at = run.at /\ run'.acted = run.acted
    BY DEF IInv, Control, RunTypes
  <1>4. Acting' /\ Onwards
    BY <1>2, <1>3, Idle DEF Acting, Onwards
  <1>5. Stages' /\ Places'
    BY <1>2, <1>3, <1>4, Idle, StillThere DEF IInv, Control
  <1> QED BY <1>1, <1>2, <1>3, <1>4, <1>5 DEF IInv, Control

LEMMA CaptureKeeps ==
    ASSUME IInv, At("prepare"), NEW p \in DOMAIN recoveries, Exists(p), Capture(p, recoveries[p]),
           scenario' = scenario, edits' = edits
    PROVE  IInv'
  <1> DEFINE r == recoveries[p]
  <1>1. /\ run.stage = "prepare" /\ Intents = {} /\ run.cmd # "none" /\ Tables /\ Types /\ Worlds /\ scenario \in Scenarios
        /\ lastId \in Nat /\ Stages /\ (Applying => Base /\ State = "applying")
    BY AtIs DEF Worlds
  <1>2. Applying /\ run.stage \notin QuietStages /\ State = "applying"
    BY <1>1 DEF Applying, ApplyStages, Stages, BindStages, QuietStages
  <1>3. \/ Fail
        \/ run' = [run EXCEPT !.step = "verified"] /\ UNCHANGED <<fs, db>>
        \/ HasId(tree, p, r.id) /\ JournalRename("pre_base", p, RecoveryName(p), r.id)
        \/ Tx([db EXCEPT !.recoveries[p].id = tree[p].id])
    BY DEF Capture, Require
  <1>4. VisiblePath(p) /\ RecoveryOK(r)
    BY <1>1, TopsAre DEF Types, RecoveriesTypes
  <1>5. CASE run' = [run EXCEPT !.step = "verified"] /\ UNCHANGED <<fs, db>>
    BY <1>1, <1>2, <1>5, Stepped
  <1>6. CASE HasId(tree, p, r.id) /\ JournalRename("pre_base", p, RecoveryName(p), r.id)
    <2>1. p # <<>>
      BY <1>4, VisibleIs
    <2>2. /\ Internal(p, "recovery", 0) \in Path /\ Internal(p, "recovery", 0) # <<>> /\ Parent(Internal(p, "recovery", 0)) = Parent(p)
          /\ Last(Internal(p, "recovery", 0))[1] = "recovery"
      BY <1>4, InternalIs DEF InternalForms
    <2>3. /\ RecoveryName(p) \in Path /\ RecoveryName(p) # <<>> /\ Parent(RecoveryName(p)) = Parent(p) /\ ~ IsTemp(RecoveryName(p))
      BY <2>2 DEF RecoveryName, IsTemp
    <2>4. Phase("pre_base")
      BY <1>2 DEF Phase
    <2> QED BY <1>1, <1>2, <1>6, <2>1, <2>3, <2>4, RenameIntended
  <1>7. CASE Tx([db EXCEPT !.recoveries[p].id = tree[p].id])
    <2> DEFINE c == [recoveries EXCEPT ![p].id = tree[p].id]
    <2>1. db' = [db EXCEPT !.recoveries = c] /\ run' = run /\ UNCHANGED fs /\ lastId' = lastId
      BY <1>1, <1>7 DEF Tx, recoveries, Types, fs
    <2>2. DOMAIN c = DOMAIN recoveries /\ \A q \in DOMAIN c : c[q] = IF q = p THEN [r EXCEPT !.id = tree[p].id] ELSE recoveries[q]
      OBVIOUS
    <2> HIDE DEF c
    <2>3. tree[p].id \in Nat
      <3>1. tree[p].id \in 1 .. lastId
        BY <1>1, ObjectIs DEF Exists
      <3> QED BY <1>1, <3>1
    <2>4. RecoveryOK([r EXCEPT !.id = tree[p].id]) /\ [r EXCEPT !.id = tree[p].id].completed = r.completed
      BY <1>4, <2>3 DEF RecoveryOK
    <2>5. \A q \in DOMAIN c : RecoveryOK(c[q]) /\ (recoveries[q].completed => c[q].completed)
      BY <1>1, <2>2, <2>4 DEF Types, RecoveriesTypes
    <2>6. /\ Tables' /\ Intents' = {} /\ index' = index /\ State' = State /\ Onwards /\ rows' = rows /\ links' = links
      BY <1>1, <2>1, <2>2, <2>5, RecoveriesWritten
    <2>7. ~ TakingBack
      BY <1>1 DEF TakingBack, BackStages
    <2> QED BY <1>1, <1>2, <2>1, <2>6, <2>7, Stayed
  <1> QED BY <1>3, <1>5, <1>6, <1>7, Failed

LEMMA CapturedKeeps ==
    ASSUME IInv, At("prepare"), NEW p \in DOMAIN recoveries, p = Tops[run.at].path,
           Commit([db EXCEPT !.recoveries[p].completed = TRUE], "prepare", run.at + 1), scenario' = scenario, edits' = edits
    PROVE  IInv'
  <1> DEFINE c == [recoveries EXCEPT ![p].completed = TRUE]
  <1>1. /\ run.stage = "prepare" /\ Intents = {} /\ run.cmd # "none" /\ Types /\ Places /\ run.at \in Nat
    BY AtIs
  <1>2. db' = [db EXCEPT !.recoveries = c] /\ Goto(run.stage, run.at + 1) /\ UNCHANGED fs /\ lastId' = lastId
    BY <1>1 DEF Commit, recoveries, Types, fs
  <1>3. DOMAIN c = DOMAIN recoveries /\ \A q \in DOMAIN c : c[q] = IF q = p THEN [recoveries[p] EXCEPT !.completed = TRUE] ELSE recoveries[q]
    OBVIOUS
  <1> HIDE DEF c
  <1>4. RecoveryOK([recoveries[p] EXCEPT !.completed = TRUE]) /\ [recoveries[p] EXCEPT !.completed = TRUE].completed = TRUE
    BY <1>1 DEF RecoveryOK, Types, RecoveriesTypes
  <1>5. \A q \in DOMAIN c : RecoveryOK(c[q]) /\ (recoveries[q].completed => c[q].completed)
    BY <1>1, <1>3, <1>4 DEF Types, RecoveriesTypes
  <1>6. /\ Tables' /\ Intents' = {} /\ index' = index /\ State' = State /\ Onwards /\ rows' = rows /\ links' = links
        /\ recoveries' = c
    BY <1>1, <1>2, <1>3, <1>5, RecoveriesWritten
  <1>7. PICK at \in Nat : at = run.at + 1 /\ at # 0
    BY <1>1
  <1>8. Goto(run.stage, at)
    BY <1>2, <1>7
  <1>9. \A i \in 1 .. at - 1 : i = run.at \/ i \in 1 .. run.at - 1
    BY <1>1, <1>7
  <1>10. \A i \in 1 .. at - 1 : i <= Len(Tops) /\ Tops[i].path \in DOMAIN recoveries' => recoveries'[Tops[i].path].completed
    BY <1>1, <1>3, <1>4, <1>5, <1>6, <1>9 DEF Places
  <1>11. run.stage \in Walked /\ run.stage \notin {"mtimes", "promote", "restore", "directories", "files"}
    BY <1>1 DEF Walked
  <1> QED BY <1>1, <1>2, <1>6, <1>7, <1>8, <1>10, <1>11, WentOn

LEMMA PrepareRecoveryKeeps ==
    ASSUME IInv, PrepareRecovery, scenario' = scenario, edits' = edits
    PROVE  IInv'
  <1> DEFINE p == Tops[run.at].path
             r == recoveries[p]
             mine == {s \in DOMAIN links : Top(s) = p}
             unsettled == {s \in mine : ~ Settled(s)}
             stale == {s \in mine : NeedsReset(s)}
  <1>1. At("prepare") /\ run.at <= Len(Tops)
    BY DEF PrepareRecovery
  <1>2. /\ run.stage = "prepare" /\ Intents = {} /\ run.cmd # "none" /\ Tables /\ Types /\ Stages /\ Places
        /\ scenario \in Scenarios /\ run.at \in Nat /\ (Applying => Base /\ State = "applying")
    BY <1>1, AtIs
  <1>3. Applying /\ run.stage \notin QuietStages /\ State = "applying"
    BY <1>2 DEF Applying, ApplyStages, Stages, BindStages, QuietStages
  <1>4. p \in DOMAIN recoveries
    <2>1. run.at \in 1 .. Len(Tops)
      BY <1>1, <1>2, TopsAre DEF Places
    <2> QED BY <1>2, <1>3, <2>1, TopsAre DEF Tables, Indexed
  <1>5. \/ r.completed /\ PrepareCompleted(p)
        \/ Commit([db EXCEPT !.recoveries[p].completed = TRUE], "prepare", run.at + 1)
        \/ Exists(p) /\ Capture(p, r)
        \/ Fail
    BY DEF PrepareRecovery
  <1>6. PrepareCompleted(p) => \/ unsettled # {} /\ JournalLatePromotion(CHOOSE s \in unsettled : TRUE)
                               \/ stale # {} /\ ResetPromoted(CHOOSE s \in stale : TRUE)
                               \/ Fail
                               \/ Next1
    BY DEF PrepareCompleted, Require
  <1>7. CASE unsettled # {} /\ JournalLatePromotion(CHOOSE s \in unsettled : TRUE)
    <2> DEFINE s == CHOOSE x \in unsettled : TRUE
    <2>1. s \in DOMAIN links /\ JournalLatePromotion(s)
      BY <1>7
    <2> HIDE DEF s
    <2> QED BY <1>2, <1>3, <2>1, LatePromoted
  <1>8. CASE stale # {} /\ ResetPromoted(CHOOSE s \in stale : TRUE)
    <2> DEFINE s == CHOOSE x \in stale : TRUE
    <2>1. s \in DOMAIN links /\ ResetPromoted(s)
      BY <1>8
    <2> HIDE DEF s
    <2> QED BY <1>2, <1>3, <2>1, ResetKeeps DEF Walked
  <1>9. CASE r.completed /\ Next1
    BY <1>2, <1>9, NextOne DEF Walked
  <1> HIDE DEF p, mine, unsettled, stale
  <1>10. CASE Commit([db EXCEPT !.recoveries[p].completed = TRUE], "prepare", run.at + 1)
    BY <1>1, <1>4, <1>10, CapturedKeeps DEF p
  <1>11. CASE Exists(p) /\ Capture(p, r)
    BY <1>1, <1>4, <1>11, CaptureKeeps
  <1> QED BY <1>5, <1>6, <1>7, <1>8, <1>9, <1>10, <1>11, Failed

(***************************************************************************)
(* Promotion.                                                              *)
(***************************************************************************)
LEMMA NextFreeIs ==
    ASSUME NEW t, VisiblePath(t), FreeOrdinals(t) # {}
    PROVE  VisiblePath(NextFree(t))
  <1>1. t \in Path /\ t # <<>>
    BY VisibleIs
  <1>2. Last(t)[3] \in Nat
    BY <1>1, LeafNumber
  <1>3. FreeOrdinals(t) \subseteq Nat /\ \A i \in FreeOrdinals(t) : i <= MaxOrdinal
    BY <1>2 DEF FreeOrdinals
  <1>4. IsFiniteSet(FreeOrdinals(t))
    <2>1. MaxOrdinal \in Nat
      BY DEF MaxOrdinal
    <2> QED BY <1>3, <2>1, FS_BoundedSetOfNaturals
  <1>5. PICK n \in Nat : n = Min(FreeOrdinals(t))
    BY <1>3, <1>4, MinOfNats
  <1>6. VisiblePath(Renamed(t, "user", n))
    BY <1>1, RenamedIs DEF VisibleForms
  <1> QED BY <1>5, <1>6 DEF NextFree

LEMMA PromotionJournaled ==
    ASSUME IInv, At("promote"), NEW s \in Sources, s \notin DOMAIN links, NEW p, Exists(p), NEW q, VisiblePath(q),
           JournalPromotion(s, p, q), scenario' = scenario, edits' = edits
    PROVE  IInv'
  <1> DEFINE n == PromotionRow(p, q)
             l == Extended(links, s, [current |-> NextOrder, rollback |-> None])
  <1>1. /\ run.stage = "promote" /\ Intents = {} /\ run.cmd # "none" /\ Tables /\ Types /\ Worlds /\ lastId \in Nat
        /\ Stages /\ Places
    BY AtIs DEF Worlds
  <1>2. Applying /\ run.stage \notin QuietStages /\ Base /\ State = "applying"
    BY <1>1, Idle DEF Applying, ApplyStages, Stages, BindStages, QuietStages
  <1>3. \A r \in DOMAIN recoveries : recoveries[r].completed
    BY <1>1, <1>2 DEF Places
  <1>4. db' = [db EXCEPT !.journal = journal \cup {n}, !.links = l] /\ UNCHANGED fs /\ run' = run /\ lastId' = lastId
    BY <1>1 DEF JournalPromotion, Tx, Put, PromotionRow, links, fs, Types
  <1>5. /\ RowOK(n) /\ IsPromotion(n)
        /\ n.order = NextOrder /\ n.state = "intent" /\ n.origin = None /\ n.op = "rename" /\ n.phase = "pre_base"
    <2>1. RowOK(n) /\ IsPromotion(n)
      BY <1>1, PromotionRowOK DEF Types
    <2>2. RowIsOf(n, "rename", "pre_base", p, q, "File", tree[p].id, Shape(tree, p), NoStamp, None, 0, "")
      BY RowsAre
    <2> HIDE DEF n
    <2> QED BY <2>1, <2>2 DEF RowIsOf
  <1>6. NextOrder \in Nat \ {0} /\ None \in Nat
    BY <1>1, NextOrderIs DEF Types, None
  <1>7. /\ DOMAIN l = DOMAIN links \cup {s} /\ LinkOK(l[s]) /\ l[s].current = NextOrder /\ l[s].rollback = None
        /\ \A z \in DOMAIN links : z # s => l[z] = links[z]
    <2>1. DOMAIN l = DOMAIN links \cup {s} /\ l[s] = [current |-> NextOrder, rollback |-> None]
          /\ \A z \in DOMAIN links : z # s => l[z] = links[z]
      BY DEF Extended
    <2> QED BY <1>6, <2>1 DEF LinkOK
  <1> HIDE DEF l, n
  <1>8. Relinked(l, s)
    BY <1>7 DEF Relinked
  <1>9. Admitted(n)
    BY <1>2, <1>5 DEF Admitted
  <1>10. DbIs(journal \cup {n}, pending, rows, recoveries, l, index)
    BY <1>1, <1>4, Transactions
  <1>11. Tables' /\ Intents' = {n}
    BY <1>1, <1>2, <1>3, <1>4, <1>5, <1>7, <1>8, <1>9, <1>10, LinkAdmitted
  <1>12. rows' = rows /\ recoveries' = recoveries /\ links' = l /\ index' = index /\ State' = State
    BY <1>10 DEF DbIs, State
  <1>13. Onwards /\ ~ TakingBack /\ run.stage # "restore"
    BY <1>1, <1>12 DEF Onwards, TakingBack, BackStages
  <1>14. DOMAIN links \subseteq DOMAIN links'
    BY <1>7, <1>12
  <1> QED BY <1>1, <1>2, <1>4, <1>11, <1>12, <1>13, <1>14, Stayed

LEMMA PromotedKeeps ==
    ASSUME IInv, At("promote"), run.at <= Len(Promote), Promote[run.at].source \in DOMAIN links,
           NEW t \in DOMAIN rows, Exists(t), RegisterPromoted(t), scenario' = scenario, edits' = edits
    PROVE  IInv'
  <1> DEFINE r == rows[t]
             id == tree[t].id
             row == [r EXCEPT !.tempId = id, !.targetId = id, !.completed = TRUE]
  <1>1. /\ run.stage = "promote" /\ Intents = {} /\ run.cmd # "none" /\ Types /\ Worlds /\ lastId \in Nat /\ Stages /\ Places
        /\ run.at \in Nat
    BY AtIs DEF Worlds
  <1>2. Next1 \/ Commit(SetRow(t, row), "promote", run.at + 1) \/ Fail
    BY DEF RegisterPromoted, Require
  <1>3. PathRowOK(row) /\ row.create = r.create /\ row.temp = r.temp
    <2>1. PathRowOK(r)
      BY <1>1 DEF Types, RowsTypes
    <2>2. id \in 0 .. lastId
      BY <1>1, ObjectIs DEF Exists
    <2>3. /\ DOMAIN row = DOMAIN r /\ row.tempId = id /\ row.targetId = id /\ row.completed = TRUE
          /\ row.create = r.create /\ row.temp = r.temp /\ row.tombstone = r.tombstone
      BY <2>1 DEF PathRowOK
    <2> HIDE DEF row, id, r
    <2> QED BY <2>1, <2>2, <2>3 DEF PathRowOK
  <1> HIDE DEF row, r
  <1>4. CASE Next1
    BY <1>1, <1>4, NextOne DEF Walked
  <1>5. CASE Commit(SetRow(t, row), "promote", run.at + 1)
    <2>1. PICK at \in Nat : at = run.at + 1 /\ at # 0
      BY <1>1
    <2>2. Commit(SetRow(t, row), run.stage, at)
      BY <1>1, <1>5, <2>1
    <2>3. \A i \in 1 .. at - 1 : i = run.at \/ i \in 1 .. run.at - 1
      BY <1>1, <2>1
    <2>4. \A i \in 1 .. at - 1 : i <= Len(Promote) => Promote[i].source \in DOMAIN links
      BY <1>1, <2>3 DEF Places
    <2>5. run.stage \in Walked
          /\ run.stage \notin {"mtimes", "prepare", "restore", "directories", "files"}
      BY <1>1 DEF Walked
    <2> QED BY <1>1, <1>3, <2>1, <2>2, <2>4, <2>5, RowThen DEF r
  <1> QED BY <1>2, <1>4, <1>5, Failed

LEMMA PromoteCapturedKeeps ==
    ASSUME IInv, PromoteCaptured, scenario' = scenario, edits' = edits
    PROVE  IInv'
  <1> DEFINE s == Promote[run.at].source
             t == Promote[run.at].target
             here == HiddenAt(s)
             fixed == Shape(tree, here) = FileShape(BaseShape[s].data) /\ TargetShape[t] = BaseShape[s]
  <1>1. At("promote") /\ run.at <= Len(Promote)
    BY DEF PromoteCaptured
  <1>2. /\ run.stage = "promote" /\ Intents = {} /\ run.cmd # "none" /\ Types /\ Stages /\ Places
        /\ scenario \in Scenarios /\ run.at \in Nat
    BY <1>1, AtIs
  <1>3. Applying /\ run.stage \notin QuietStages
    BY <1>2 DEF Applying, ApplyStages, Stages, BindStages, QuietStages
  <1>4. s \in Sources /\ t \in DOMAIN TargetShape
    <2>1. run.at \in 1 .. Len(Promote)
      BY <1>1, <1>2, PromoteAre DEF Places
    <2> QED BY <1>2, <2>1, PromoteAre
  <1>5. t \in DOMAIN rows /\ VisiblePath(t)
    BY <1>2, <1>4, EntriesAre DEF Places, ApplyStages
  <1>6. \/ Exists(here) /\ s \notin DOMAIN links /\ fixed /\ JournalPromotion(s, here, t)
        \/ Exists(here) /\ s \notin DOMAIN links /\ FreeOrdinals(t) # {} /\ JournalPromotion(s, here, NextFree(t))
        \/ s \in DOMAIN links /\ ResetPromoted(s)
        \/ s \in DOMAIN links /\ JournalLatePromotion(s)
        \/ s \in DOMAIN links /\ Settled(s) /\ CurrentOf(s).target = t /\ RegisterPromoted(t)
        \/ s \in DOMAIN links /\ Next1
        \/ Fail
    BY DEF PromoteCaptured, Require
  <1> HIDE DEF fixed, here
  <1>7. CASE Exists(here) /\ s \notin DOMAIN links /\ JournalPromotion(s, here, t)
    <2> HIDE DEF s, t
    <2> QED BY <1>1, <1>4, <1>5, <1>7, PromotionJournaled
  <1>8. CASE Exists(here) /\ s \notin DOMAIN links /\ FreeOrdinals(t) # {} /\ JournalPromotion(s, here, NextFree(t))
    <2> HIDE DEF s, t
    <2>1. VisiblePath(NextFree(t))
      BY <1>5, <1>8, NextFreeIs
    <2> QED BY <1>1, <1>4, <1>8, <2>1, PromotionJournaled
  <1>9. CASE s \in DOMAIN links /\ ResetPromoted(s)
    BY <1>2, <1>3, <1>9, ResetKeeps DEF Walked
  <1>10. CASE s \in DOMAIN links /\ JournalLatePromotion(s)
    BY <1>2, <1>3, <1>10, LatePromoted
  <1>11. CASE s \in DOMAIN links /\ Settled(s) /\ CurrentOf(s).target = t /\ RegisterPromoted(t)
    <2>1. Exists(t)
      BY <1>11 DEF Settled, Holds, HasId, Exists
    <2> QED BY <1>1, <1>5, <1>11, <2>1, PromotedKeeps
  <1>12. CASE s \in DOMAIN links /\ Next1
    BY <1>2, <1>12, NextOne DEF Walked
  <1> QED BY <1>6, <1>7, <1>8, <1>9, <1>10, <1>11, <1>12, Failed

(* At the end of the promotions every captured directory has a new shape.  *)
Renewed == [p \in DOMAIN recoveries |->
               IF recoveries[p].shape[<<>>].kind = "Directory"
               THEN [recoveries[p] EXCEPT !.shape = Shape(tree, RecoveryName(p))] ELSE recoveries[p]]
LEMMA SnapshotDirectoriesKeeps ==
    ASSUME IInv, SnapshotDirectories, scenario' = scenario, edits' = edits
    PROVE  IInv'
  <1>1. At("promote") /\ run.at > Len(Promote)
    BY DEF SnapshotDirectories
  <1>2. /\ run.stage = "promote" /\ Intents = {} /\ run.cmd # "none" /\ Types /\ Stages /\ Places
        /\ scenario \in Scenarios /\ run.at \in Nat /\ lastId \in Nat /\ Tables
    BY <1>1, AtIs DEF Worlds, IInv
  <1>3. Applying /\ Base /\ State = "applying"
    BY <1>2, Idle DEF Applying, ApplyStages, Stages, BindStages
  <1>4. Commit([db EXCEPT !.recoveries = Renewed], "late1", 1)
    <2>1. DOMAIN db = DbFields
      BY <1>2 DEF Types, DbFields
    <2>2. \A p \in DOMAIN recoveries : p \in {q \in DOMAIN recoveries : recoveries[q].shape[<<>>].kind = "Directory"}
              <=> recoveries[p].shape[<<>>].kind = "Directory"
      OBVIOUS
    <2>3. Renewed = [p \in DOMAIN db.recoveries |->
              IF p \in {q \in DOMAIN recoveries : recoveries[q].shape[<<>>].kind = "Directory"}
              THEN [db.recoveries[p] EXCEPT !.shape = Shape(tree, RecoveryName(p))] ELSE db.recoveries[p]]
      BY <2>2 DEF Renewed, recoveries
    <2> QED BY <2>3 DEF SnapshotDirectories
  <1>5. db' = [db EXCEPT !.recoveries = Renewed] /\ Goto("late1", 1) /\ UNCHANGED fs /\ lastId' = lastId
    BY <1>4 DEF Commit, fs
  <1>6. DOMAIN Renewed = DOMAIN recoveries
        /\ \A p \in DOMAIN Renewed : RecoveryOK(Renewed[p]) /\ (recoveries[p].completed => Renewed[p].completed)
    <2>1. \A p \in DOMAIN recoveries : RecoveryOK(recoveries[p])
      BY <1>2 DEF Types, RecoveriesTypes
    <2>2. DOMAIN Renewed = DOMAIN recoveries
      BY DEF Renewed
    <2>3. \A p \in DOMAIN recoveries :
              Renewed[p] = recoveries[p] \/ Renewed[p] = [recoveries[p] EXCEPT !.shape = Shape(tree, RecoveryName(p))]
      BY DEF Renewed
    <2>4. \A p \in DOMAIN recoveries : \A x : RecoveryOK([recoveries[p] EXCEPT !.shape = x])
              /\ [recoveries[p] EXCEPT !.shape = x].completed = recoveries[p].completed
      BY <2>1 DEF RecoveryOK
    <2>5. ASSUME NEW p \in DOMAIN recoveries
          PROVE  RecoveryOK(Renewed[p]) /\ (recoveries[p].completed => Renewed[p].completed)
      <3>1. CASE Renewed[p] = recoveries[p]
        BY <2>1, <3>1
      <3>2. CASE Renewed[p] = [recoveries[p] EXCEPT !.shape = Shape(tree, RecoveryName(p))]
        BY <2>4, <3>2
      <3> QED BY <2>3, <3>1, <3>2
    <2> QED BY <2>2, <2>5
  <1>7. /\ Tables' /\ Intents' = {} /\ index' = index /\ State' = State /\ Onwards /\ rows' = rows /\ links' = links
        /\ recoveries' = Renewed
    BY <1>2, <1>5, <1>6, RecoveriesWritten
  <1>8. /\ Worlds' /\ RunTypes' /\ Acting' /\ run'.cmd = run.cmd /\ run'.stage = "late1" /\ run'.at = 1
        /\ Entries' = Entries /\ Promote' = Promote /\ Tops' = Tops /\ TargetShape' = TargetShape
        /\ Applying' /\ ~ TakingBack'
    <2>1. run.cmd # "bind" /\ "late1" \in ApplyStages /\ "late1" \notin BackStages /\ "late1" # "temps"
      BY <1>3 DEF Applying, ApplyStages, BackStages
    <2> QED BY <1>2, <1>5, <2>1, Arrived
  <1>9. Stages'
    BY <1>2, <1>3, <1>7, <1>8 DEF Stages, QuietStages, Base, Applying
  <1>10. \A i \in 1 .. Len(Promote) : Promote[i].source \in DOMAIN links
    <2>1. \A i \in 1 .. Len(Promote) : i \in 1 .. run.at - 1
      BY <1>1, <1>2, PromoteAre
    <2> QED BY <1>2, <2>1 DEF Places
  <1>11. \A p \in DOMAIN recoveries' : recoveries'[p].completed
    BY <1>2, <1>3, <1>7 DEF Places, Onwards
  <1>12. Places'
    BY <1>2, <1>7, <1>8, <1>10, <1>11 DEF Places, Applying, ApplyStages
  <1> QED BY <1>7, <1>8, <1>9, <1>12 DEF IInv, Control

(***************************************************************************)
(* Installing a path.                                                      *)
(***************************************************************************)
Installing == run.stage \in {"directories", "files"} /\ Intents = {}
LEMMA InstallingIs ==
    ASSUME IInv, Installing
    PROVE  /\ Tables /\ Types /\ Worlds /\ scenario \in Scenarios /\ lastId \in Nat /\ Stages /\ Places
           /\ run.cmd # "none" /\ run.stage \in Walked /\ run.stage \notin QuietStages /\ ~ TakingBack /\ run.at \in Nat \ {0}
           /\ run.cmd # "bind" => Applying /\ Base /\ State = "applying"
           /\ run.cmd = "bind" => index = "none" /\ ~ Base /\ State # "applying"
           /\ Phase("pre_base")
           /\ DOMAIN rows = DOMAIN TargetShape
           /\ run.at <= Len(Entries) =>
                  /\ Entries[run.at].path \in DOMAIN rows /\ VisiblePath(Entries[run.at].path)
                  /\ Entries[run.at].kind = IF run.stage = "files" THEN "File" ELSE "Directory"
  <1>1. /\ Tables /\ Types /\ Worlds /\ scenario \in Scenarios /\ lastId \in Nat /\ Stages /\ Places /\ Indexed
        /\ run.stage \in {"directories", "files"} /\ Intents = {} /\ run.at \in Nat
    BY DEF IInv, Tables, Worlds, Control, RunTypes, Installing
  <1>2. /\ run.cmd # "none" /\ run.stage \in Walked /\ run.stage \notin QuietStages /\ ~ TakingBack
    BY <1>1, Busy DEF Walked, QuietStages, TakingBack, BackStages
  <1>3. run.cmd # "bind" => Applying /\ Base /\ State = "applying"
    BY <1>1, Idle DEF Applying, ApplyStages
  <1>4. run.cmd = "bind" => index = "none" /\ ~ Base /\ State # "applying"
    BY <1>1 DEF Stages, Indexed, Base
  <1>5. Phase("pre_base")
    BY <1>3, <1>4 DEF Phase
  <1>6. DOMAIN rows = DOMAIN TargetShape /\ run.at # 0
        /\ (run.at <= Len(Entries) => Entries[run.at].kind = IF run.stage = "files" THEN "File" ELSE "Directory")
    BY <1>1 DEF Places, ApplyStages
  <1>7. run.at <= Len(Entries) => Entries[run.at].path \in DOMAIN TargetShape /\ VisiblePath(Entries[run.at].path)
    BY <1>1, <1>6, EntriesAre
  <1> QED BY <1>1, <1>2, <1>3, <1>4, <1>5, <1>6, <1>7

(* A row is written, the process stays.                                    *)
LEMMA RowRecorded ==
    ASSUME IInv, Installing, NEW p \in DOMAIN rows, NEW row, Tx(SetRow(p, row)), PathRowOK(row), row.create = rows[p].create,
           row.temp # 0 \/ row.temp = rows[p].temp, scenario' = scenario, edits' = edits
    PROVE  IInv'
  <1>1. Intents = {} /\ run.stage \notin QuietStages /\ ~ TakingBack /\ run.stage # "restore"
    BY InstallingIs DEF Installing
  <1>2. db' = SetRow(p, row) /\ UNCHANGED fs /\ run' = run /\ lastId' = lastId
    BY DEF Tx, fs
  <1>3. /\ Tables' /\ Intents' = {} /\ index' = index /\ State' = State /\ Onwards /\ DOMAIN rows' = DOMAIN rows
        /\ links' = links /\ recoveries' = recoveries
    BY <1>1, <1>2, RowWritten
  <1> QED BY <1>1, <1>2, <1>3, Stayed

LEMMA RegisterTempKeeps ==
    ASSUME IInv, Installing, NEW p \in DOMAIN rows, RegisterTemp(p), scenario' = scenario, edits' = edits
    PROVE  IInv'
  <1> DEFINE r == rows[p]
             n == IF r.temp # 0 THEN r.temp ELSE IF r.create = None THEN 1 ELSE 1 + Last(Row(r.create).path)[3]
             row == [r EXCEPT !.temp = n]
  <1>1. PathRowOK(r) /\ Tables /\ Types /\ JournalTypes /\ Creations
    BY InstallingIs DEF Types, RowsTypes, Tables
  <1>2. Tx(SetRow(p, row))
    <2>1. row = [r EXCEPT !.temp = IF @ # 0 THEN @ ELSE IF r.create = None THEN 1 ELSE 1 + Last(Row(r.create).path)[3]]
      BY <1>1 DEF PathRowOK
    <2> QED BY <2>1 DEF RegisterTemp
  <1>3. n \in Nat \ {0}
    <2>1. CASE r.temp # 0
      BY <1>1, <2>1 DEF PathRowOK
    <2>2. CASE r.temp = 0 /\ r.create = None
      BY <2>2
    <2>3. CASE r.temp = 0 /\ r.create # None
      <3>1. State = "applying"
        BY <1>1, <2>3, InstallingIs DEF Creations
      <3>2. PICK a : CreationOf(r.create, a)
        BY <1>1, <2>3, <3>1 DEF Creations
      <3>3. a \in journal /\ a.order = r.create /\ Row(r.create) = a /\ RowOK(a) /\ a.op = "create"
        BY <1>1, <3>2, RowIs DEF CreationOf, JournalTypes
      <3>4. a.path \in Path /\ a.path # <<>>
        BY <3>3 DEF RowOK, IsTemp
      <3>5. PICK m \in Nat : m = Last(a.path)[3]
        BY <3>4, LeafNumber
      <3>6. n = 1 + m
        BY <2>3, <3>3, <3>5
      <3> QED BY <3>6
    <2> QED BY <2>1, <2>2, <2>3
  <1>4. /\ DOMAIN row = DOMAIN r /\ row.temp = n /\ row.tempId = r.tempId /\ row.targetId = r.targetId
        /\ row.completed = r.completed /\ row.create = r.create /\ row.tombstone = r.tombstone
    BY <1>1 DEF PathRowOK
  <1> HIDE DEF row, n
  <1>5. PathRowOK(row)
    BY <1>1, <1>3, <1>4 DEF PathRowOK
  <1> QED BY <1>2, <1>3, <1>4, <1>5, RowRecorded

LEMMA TempNameIs ==
    ASSUME NEW p, VisiblePath(p), rows[p].temp \in Nat
    PROVE  /\ TempName(p) \in Path /\ TempName(p) # <<>> /\ IsTemp(TempName(p))
           /\ Parent(TempName(p)) = Parent(p)
  <1>1. PICK n \in Nat : n = rows[p].temp
    OBVIOUS
  <1>2. /\ Internal(p, "temp", n) \in Path /\ Internal(p, "temp", n) # <<>> /\ Parent(Internal(p, "temp", n)) = Parent(p)
        /\ Last(Internal(p, "temp", n))[1] = "temp"
    BY InternalIs DEF InternalForms
  <1> QED BY <1>1, <1>2 DEF TempName, IsTemp

LEMMA CreationIntended ==
    ASSUME IInv, Installing, NEW p \in DOMAIN rows, rows[p].temp # 0, rows[p].create = None, NEW at \in Path, IsTemp(at),
           NEW kind \in Kinds, JournalCreate(p, at, kind), scenario' = scenario, edits' = edits
    PROVE  IInv'
  <1> DEFINE a == CreateRow(at, kind)
             row == [rows[p] EXCEPT !.create = NextOrder]
             r == [rows EXCEPT ![p] = row]
  <1>1. /\ Tables /\ Types /\ Worlds /\ JournalTypes /\ Intents = {} /\ Phase("pre_base") /\ lastId \in Nat
        /\ run.stage \notin QuietStages /\ ~ TakingBack /\ run.stage # "restore" /\ PathRowOK(rows[p])
    BY InstallingIs DEF Types, Installing, RowsTypes
  <1>2. RowOK(a) /\ a.order = NextOrder /\ a.state = "intent" /\ a.origin = None /\ a.op = "create" /\ a.phase = "pre_base"
    <2>1. RowOK(a)
      BY <1>1, CreateRowOK
    <2>2. RowIsOf(a, "create", "pre_base", at, <<>>, kind, None, NoShape, NoStamp, None, 0, "")
      BY RowsAre
    <2> HIDE DEF a
    <2> QED BY <2>1, <2>2 DEF RowIsOf
  <1>3. db' = [db EXCEPT !.journal = journal \cup {a}, !.rows = r] /\ UNCHANGED fs /\ run' = run /\ lastId' = lastId
    BY <1>1 DEF JournalCreate, CreateRow, Tx, Put, rows, fs, Types
  <1>4. NextOrder \in Nat \ {0} /\ None = 0
    BY <1>1, NextOrderIs DEF None
  <1>5. /\ DOMAIN row = DOMAIN rows[p] /\ row.temp = rows[p].temp /\ row.tempId = rows[p].tempId /\ row.targetId = rows[p].targetId
        /\ row.completed = rows[p].completed /\ row.create = NextOrder /\ row.tombstone = rows[p].tombstone
    BY <1>1 DEF PathRowOK
  <1> HIDE DEF a, row
  <1>6. PathRowOK(row)
    BY <1>1, <1>4, <1>5 DEF PathRowOK
  <1>7. DOMAIN r = DOMAIN rows /\ r[p] = row /\ \A q \in DOMAIN rows : q # p => r[q] = rows[q]
    OBVIOUS
  <1> HIDE DEF r
  <1>8. DbIs(journal \cup {a}, pending, r, recoveries, links, index)
    BY <1>1, <1>3, Transactions
  <1>9. journal' = journal \cup {a} /\ pending' = pending /\ rows' = r /\ recoveries' = recoveries /\ links' = links
        /\ index' = index /\ DOMAIN db' = DbFields /\ State' = State /\ (Base' <=> Base)
    BY <1>8 DEF DbIs, State, Base
  <1>10. Admitted(a)
    BY <1>1, <1>2 DEF Admitted, Phase, IsPromotion
  <1>11. /\ Intents' = {a}
         /\ JournalTypes' /\ PendingTypes' /\ IntentsTogether' /\ Unstarted' /\ Phases' /\ Roots'
    BY <1>1, <1>3, <1>9, <1>10, Admit
  <1>12. RowsTypes' /\ RecoveriesTypes' /\ LinksTypes' /\ Indexed'
    <2>1. RecoveriesTypes' /\ LinksTypes' /\ Indexed'
      BY <1>1, <1>3, <1>9, Framed DEF Tables
    <2>2. \A q \in DOMAIN r : PathRowOK(r[q])
      BY <1>1, <1>6, <1>7 DEF Types, RowsTypes
    <2>3. (\A q : PathRowOK(q) => PathRowOK(q)') /\ DOMAIN TargetShape' = DOMAIN TargetShape
      BY <1>1, <1>3, Grown
    <2>4. RowsTypes'
      BY <1>1, <1>7, <1>9, <2>2, <2>3 DEF Types, RowsTypes
    <2> QED BY <2>1, <2>4
  <1>13. Types'
    BY <1>9, <1>11, <1>12 DEF Types, DbFields
  <1>14. Creations'
    <2>1. ~ (Base /\ State \in {"none", "pending"})
      BY <1>1 DEF Phase
    <2>2. \A o : (\E c : CreationOf(o, c)) => \E c \in journal' : c.order = o /\ c.op = "create"
      BY <1>9 DEF CreationOf
    <2>3. \E c \in journal' : c.order = NextOrder /\ c.op = "create"
      BY <1>2, <1>9
    <2>4. ASSUME State = "applying", NEW q \in DOMAIN r, r[q].create # None
          PROVE  \E c \in journal' : c.order = r[q].create /\ c.op = "create"
      <3>1. CASE q = p
        BY <1>5, <1>7, <2>3, <3>1
      <3>2. CASE q # p
        BY <1>1, <1>7, <2>2, <2>4, <3>2 DEF Tables, Creations
      <3> QED BY <3>1, <3>2
    <2>5. index = "none" => \A q \in DOMAIN r : r[q].temp = 0 => r[q].create = None
      BY <1>1, <1>5, <1>7 DEF Tables, Creations
    <2>6. State' = "applying" => \A q \in DOMAIN rows' : rows'[q].create # None =>
              \E c \in journal' : c.order = rows'[q].create /\ c.op = "create"
      BY <1>9, <2>4
    <2> QED BY <1>9, <2>1, <2>5, <2>6 DEF Creations, CreationOf
  <1>15. Linked'
    <2>1. \A s, c : CurrentIs(s, c) => CurrentIs(s, c)'
      BY <1>9 DEF CurrentIs
    <2>2. \A s, c : RestoreIs(s, c)' <=> RestoreIs(s, c)
      BY <1>2, <1>9 DEF RestoreIs
    <2>3. \A s : Away(s)' <=> Away(s)
      BY <1>9, <2>2 DEF Away
    <2> QED BY <1>1, <1>9, <2>1, <2>2, <2>3 DEF Tables, Linked
  <1>16. Tables'
    BY <1>11, <1>12, <1>13, <1>14, <1>15 DEF Tables
  <1>17. Onwards /\ DOMAIN rows' = DOMAIN rows
    BY <1>7, <1>9 DEF Onwards
  <1> QED BY <1>1, <1>3, <1>9, <1>16, <1>17, Stayed

LEMMA CreateTempKeeps ==
    ASSUME IInv, Installing, NEW p \in DOMAIN rows, VisiblePath(p), rows[p].temp # 0, NEW kind \in Kinds, CreateTemp(p, kind),
           scenario' = scenario, edits' = edits
    PROVE  IInv'
  <1>1. PathRowOK(rows[p]) /\ Types
    BY InstallingIs DEF Types, RowsTypes
  <1>2. rows[p].temp \in Nat
    BY <1>1 DEF PathRowOK
  <1>3. CASE rows[p].create = None
    <2>1. JournalCreate(p, TempName(p), kind)
      BY <1>3 DEF CreateTemp
    <2> QED BY <1>2, <1>3, <2>1, TempNameIs, CreationIntended
  <1>4. CASE rows[p].create # None
    <2> DEFINE row == [rows[p] EXCEPT !.tempId = CreatedId(p)]
    <2>1. Fail \/ (Created(p) # {} /\ Tx(SetRow(p, row)))
      BY <1>4 DEF CreateTemp, Require
    <2>2. CASE Created(p) # {} /\ Tx(SetRow(p, row))
      <3>1. PICK a \in journal : CreatedId(p) = a.id
        <4> DEFINE a == CHOOSE x \in Created(p) : TRUE
        <4>1. a \in Created(p)
          BY <2>2
        <4>2. CreatedId(p) = a.id
          BY DEF CreatedId
        <4> HIDE DEF a
        <4> QED BY <4>1, <4>2 DEF Created
      <3>2. CreatedId(p) \in 0 .. lastId
        BY <1>1, <3>1 DEF Types, JournalTypes, RowOK
      <3>3. /\ DOMAIN row = DOMAIN rows[p] /\ row.temp = rows[p].temp /\ row.tempId = CreatedId(p) /\ row.targetId = rows[p].targetId
            /\ row.completed = rows[p].completed /\ row.create = rows[p].create /\ row.tombstone = rows[p].tombstone
        BY <1>1 DEF PathRowOK
      <3> HIDE DEF row
      <3>4. PathRowOK(row)
        BY <1>1, <3>2, <3>3 DEF PathRowOK
      <3> QED BY <2>2, <3>3, <3>4, RowRecorded
    <2> QED BY <2>1, <2>2, Failed
  <1> QED BY <1>3, <1>4

LEMMA InstallTempKeeps ==
    ASSUME IInv, Installing, NEW p \in DOMAIN rows, VisiblePath(p), HasId(tree, TempName(p), rows[p].tempId), InstallTemp(p),
           scenario' = scenario, edits' = edits
    PROVE  IInv'
  <1>1. Types /\ Phase("pre_base") /\ Intents = {} /\ run.stage \notin QuietStages
    BY InstallingIs DEF Installing
  <1>2. rows[p].temp \in Nat
    BY <1>1 DEF Types, RowsTypes, PathRowOK
  <1>3. TempName(p) # <<>> /\ Parent(p) = Parent(TempName(p)) /\ p \in Path /\ p # <<>> /\ ~ IsTemp(p)
    BY <1>2, TempNameIs, VisibleIs DEF IsTemp, VisibleForms
  <1> QED BY <1>1, <1>3, RenameIntended DEF InstallTemp

LEMMA EnteredNext ==
    ASSUME IInv, Intents = {}, run.cmd # "none", run.stage \in {"directories", "files", "mtimes"}, NEW at \in Nat,
           Enter(run.stage, at), scenario' = scenario, edits' = edits,
           run.stage # "mtimes" => at # 0,
           run.stage = "directories" /\ at <= Len(Entries) => Entries[at].kind = "Directory",
           run.stage = "files" /\ at <= Len(Entries) => Entries[at].kind = "File",
           run.stage = "mtimes" /\ at # 0 => at <= Len(Entries) /\ Entries[at].kind = "Directory"
    PROVE  IInv'
  <1>1. Goto(run.stage, at) /\ UNCHANGED fs /\ db' = db
    BY DEF Enter
  <1>2. /\ Intents' = {} /\ State' = State /\ index' = index /\ rows' = rows /\ recoveries' = recoveries /\ links' = links
    BY Entered
  <1>3. Tables'
    BY <1>1, SameTables DEF IInv, fs, Worlds
  <1>4. Onwards
    BY <1>2 DEF Onwards
  <1>5. run.stage \in Walked /\ run.stage \notin {"prepare", "promote", "restore"}
    BY DEF Walked
  <1> QED BY <1>1, <1>2, <1>3, <1>4, <1>5, WentOn

LEMMA InstallDirectoryKeeps ==
    ASSUME IInv, InstallDirectory, scenario' = scenario, edits' = edits
    PROVE  IInv'
  <1> DEFINE p == Entries[run.at].path
             r == rows[p]
             next == NextItem("Directory", run.at + 1)
             row == [r EXCEPT !.targetId = tree[p].id, !.completed = TRUE]
  <1>1. At("directories") /\ run.at <= Len(Entries)
    BY DEF InstallDirectory
  <1>2. Installing /\ run.stage = "directories" /\ Intents = {}
    BY <1>1 DEF At, Installing
  <1>3. /\ Types /\ Worlds /\ lastId \in Nat /\ run.cmd # "none" /\ run.stage \in Walked /\ run.at \in Nat /\ scenario \in Scenarios
        /\ p \in DOMAIN rows /\ VisiblePath(p)
    BY <1>1, <1>2, InstallingIs
  <1>4. next \in Nat \ {0} /\ (next <= Len(Entries) => Entries[next].kind = "Directory")
    <2>1. PICK i \in Nat \ {0} : i = run.at + 1
      BY <1>3
    <2> QED BY <1>3, <2>1, NextItemIs
  <1>5. \/ RegisterTemp(p)
        \/ Exists(p) /\ Enter("directories", next)
        \/ Exists(p) /\ Commit(SetRow(p, row), "directories", next)
        \/ r.temp # 0 /\ CreateTemp(p, "Directory")
        \/ HasId(tree, TempName(p), r.tempId) /\ InstallTemp(p)
        \/ Fail
    BY DEF InstallDirectory, Require
  <1> HIDE DEF p, next, row
  <1>6. CASE RegisterTemp(p)
    BY <1>2, <1>3, <1>6, RegisterTempKeeps
  <1>7. CASE Enter("directories", next)
    BY <1>2, <1>3, <1>4, <1>7, EnteredNext
  <1>8. CASE Exists(p) /\ Commit(SetRow(p, row), "directories", next)
    <2>1. PathRowOK(row) /\ row.create = r.create /\ row.temp = r.temp
      <3>1. PathRowOK(r)
        BY <1>3 DEF Types, RowsTypes
      <3>2. tree[p].id \in 0 .. lastId
        BY <1>3, <1>8, ObjectIs DEF Exists
      <3>3. /\ DOMAIN row = DOMAIN r /\ row.tempId = r.tempId /\ row.targetId = tree[p].id /\ row.completed = TRUE
            /\ row.create = r.create /\ row.temp = r.temp /\ row.tombstone = r.tombstone
        BY <3>1 DEF PathRowOK, row
      <3> HIDE DEF r
      <3> QED BY <3>1, <3>2, <3>3 DEF PathRowOK
    <2>2. Commit(SetRow(p, row), run.stage, next) /\ next \in Nat /\ next # 0
      BY <1>2, <1>4, <1>8
    <2>3. run.stage \notin {"mtimes", "prepare", "promote", "restore", "files"}
      BY <1>2
    <2> QED BY <1>2, <1>3, <1>4, <2>1, <2>2, <2>3, RowThen
  <1>9. CASE r.temp # 0 /\ CreateTemp(p, "Directory")
    <2>1. "Directory" \in Kinds
      BY DEF Kinds
    <2> QED BY <1>2, <1>3, <1>9, <2>1, CreateTempKeeps
  <1>10. CASE HasId(tree, TempName(p), r.tempId) /\ InstallTemp(p)
    BY <1>2, <1>3, <1>10, InstallTempKeeps
  <1> QED BY <1>5, <1>6, <1>7, <1>8, <1>9, <1>10, Failed

(***************************************************************************)
(* Files.                                                                  *)
(***************************************************************************)
(* A write to the worktree that leaves the process where it is.            *)
LEMMA WroteKeeps ==
    ASSUME IInv, Intents = {}, run.stage \notin QuietStages, run' = run, db' = db, lastId' = lastId, WellFormed(tree', lastId),
           scenario' = scenario, edits' = edits
    PROVE  IInv'
  <1>1. Worlds' /\ lastId \in Nat
    BY WorldsAfter DEF IInv, Worlds
  <1>2. Tables' /\ Intents' = Intents
    BY <1>1, SameTables DEF IInv
  <1>3. index' = index /\ State' = State /\ rows' = rows /\ recoveries' = recoveries /\ links' = links
    BY DEF index, State, pending, rows, recoveries, links
  <1>4. RunTypes' /\ Acting' /\ Onwards
    BY <1>3, Idle DEF IInv, Control, RunTypes, Acting, Onwards
  <1>5. Stages' /\ Places'
    BY <1>3, <1>4, Idle, StillThere DEF IInv, Control
  <1> QED BY <1>1, <1>2, <1>4, <1>5 DEF IInv, Control

LEMMA WriteFileKeeps ==
    ASSUME IInv, Installing, NEW p \in DOMAIN rows, VisiblePath(p), HasId(tree, TempName(p), rows[p].tempId), WriteFile(p),
           scenario' = scenario, edits' = edits
    PROVE  IInv'
  <1> DEFINE t == TempName(p)
  <1>1. Phase("pre_base") /\ Intents = {} /\ run.stage \notin QuietStages /\ lastId \in Nat /\ WellFormed(tree, lastId)
    BY InstallingIs DEF Installing, Worlds
  <1>2. \/ InstallTemp(p)
        \/ JournalMtime("pre_base", t, rows[p].tempId, Entries[run.at].data)
        \/ Call(Stamped(tree, t, Raw)) /\ UNCHANGED run
    BY DEF WriteFile
  <1> HIDE DEF t
  <1>3. CASE InstallTemp(p)
    BY <1>3, InstallTempKeeps
  <1>4. CASE JournalMtime("pre_base", t, rows[p].tempId, Entries[run.at].data)
    BY <1>1, <1>4, MtimeIntended DEF t
  <1>5. CASE Call(Stamped(tree, t, Raw)) /\ UNCHANGED run
    <2>1. tree' = Stamped(tree, t, Raw) /\ run' = run /\ db' = db /\ lastId' = lastId
      BY <1>5 DEF Call
    <2>2. WellFormed(tree', lastId)
      BY <1>1, <2>1, StampedWellFormed
    <2> QED BY <1>1, <2>1, <2>2, WroteKeeps
  <1> QED BY <1>2, <1>3, <1>4, <1>5

LEMMA ParentIsThere ==
    ASSUME Worlds, NEW p \in Path, p # <<>>, ParentsHeld(p)
    PROVE  IsDir(tree, Parent(p))
  <1>1. Len(p) \in Nat \ {0} /\ Len(Parent(p)) = Len(p) - 1 /\ Parent(p) \in Path /\ \A i \in 1 .. Len(p) - 1 : Parent(p)[i] = p[i]
    BY ParentIs
  <1>2. CASE Len(p) = 1
    <2>1. Parent(p) = <<>>
      BY <1>1, <1>2 DEF Path
    <2> QED BY <2>1 DEF Worlds, WellFormed
  <1>3. CASE Len(p) # 1
    <2>1. Len(p) - 1 \in 1 .. Len(p) - 1
      BY <1>1, <1>3
    <2>2. IsDir(tree, SubSeq(p, 1, Len(p) - 1))
      BY <2>1 DEF ParentsHeld
    <2>3. Parent(p) = SubSeq(p, 1, Len(p) - 1)
      BY DEF Parent, Front
    <2> QED BY <2>2, <2>3
  <1> QED BY <1>2, <1>3

LEMMA RecreateTempKeeps ==
    ASSUME IInv, Installing, NEW p \in DOMAIN rows, VisiblePath(p), ParentsHeld(p), ~ Exists(TempName(p)), RecreateTemp(p),
           scenario' = scenario, edits' = edits
    PROVE  IInv'
  <1>1. Types /\ Worlds /\ lastId \in Nat /\ WellFormed(tree, lastId)
    BY InstallingIs DEF Worlds
  <1>2. rows[p].temp \in Nat
    BY <1>1 DEF Types, RowsTypes, PathRowOK
  <1>3. TempName(p) \in Path /\ TempName(p) # <<>> /\ Parent(TempName(p)) = Parent(p) /\ p \in Path /\ p # <<>>
    BY <1>2, TempNameIs, VisibleIs
  <1>4. IsDir(tree, Parent(TempName(p)))
    BY <1>1, <1>3, ParentIsThere
  <1>5. "File" \in Kinds /\ TempName(p) \notin DOMAIN tree
    BY DEF Kinds, Exists
  <1>6. tree' = Made(tree, TempName(p), lastId + 1, "File", Blank) /\ lastId' = lastId + 1 /\ run' = NoRun /\ db' = db
    BY DEF RecreateTemp
  <1>7. WellFormed(tree', lastId') /\ lastId' \in Nat /\ lastId' >= lastId
    BY <1>1, <1>3, <1>4, <1>5, <1>6, MadeWellFormed
  <1>8. Worlds'
    BY <1>1, <1>7, WorldsAfter
  <1> QED BY <1>6, <1>7, <1>8, Halted

LEMMA InstallFileKeeps ==
    ASSUME IInv, InstallFile, scenario' = scenario, edits' = edits
    PROVE  IInv'
  <1> DEFINE p == Entries[run.at].path
             r == rows[p]
             next == NextItem("File", run.at + 1)
             row == [r EXCEPT !.completed = TRUE]
  <1>1. At("files") /\ run.at <= Len(Entries)
    BY DEF InstallFile
  <1>2. Installing /\ run.stage = "files" /\ Intents = {}
    BY <1>1 DEF At, Installing
  <1>3. /\ Types /\ run.cmd # "none" /\ run.stage \in Walked /\ run.at \in Nat /\ scenario \in Scenarios
        /\ p \in DOMAIN rows /\ VisiblePath(p)
    BY <1>1, <1>2, InstallingIs
  <1>4. next \in Nat \ {0} /\ (next <= Len(Entries) => Entries[next].kind = "File")
    <2>1. PICK i \in Nat \ {0} : i = run.at + 1
      BY <1>3
    <2> QED BY <1>3, <2>1, NextItemIs
  <1>5. \/ RegisterTemp(p)
        \/ Enter("files", next)
        \/ Commit(SetRow(p, row), "files", next)
        \/ r.temp # 0 /\ CreateTemp(p, "File")
        \/ ParentsHeld(p) /\ ~ Exists(TempName(p)) /\ RecreateTemp(p)
        \/ HasId(tree, TempName(p), r.tempId) /\ WriteFile(p)
        \/ Fail
    BY DEF InstallFile, Require
  <1> HIDE DEF p, next, row
  <1>6. CASE RegisterTemp(p)
    BY <1>2, <1>3, <1>6, RegisterTempKeeps
  <1>7. CASE Enter("files", next)
    BY <1>2, <1>3, <1>4, <1>7, EnteredNext
  <1>8. CASE Commit(SetRow(p, row), "files", next)
    <2>1. PathRowOK(row) /\ row.create = r.create /\ row.temp = r.temp
      <3>1. PathRowOK(r)
        BY <1>3 DEF Types, RowsTypes
      <3> QED BY <3>1 DEF PathRowOK, row
    <2>2. Commit(SetRow(p, row), run.stage, next) /\ next \in Nat /\ next # 0
      BY <1>2, <1>4, <1>8
    <2>3. run.stage \notin {"mtimes", "prepare", "promote", "restore", "directories"}
      BY <1>2
    <2> QED BY <1>2, <1>3, <1>4, <2>1, <2>2, <2>3, RowThen
  <1>9. CASE r.temp # 0 /\ CreateTemp(p, "File")
    <2>1. "File" \in Kinds
      BY DEF Kinds
    <2> QED BY <1>2, <1>3, <1>9, <2>1, CreateTempKeeps
  <1>10. CASE ParentsHeld(p) /\ ~ Exists(TempName(p)) /\ RecreateTemp(p)
    BY <1>2, <1>3, <1>10, RecreateTempKeeps
  <1>11. CASE HasId(tree, TempName(p), r.tempId) /\ WriteFile(p)
    BY <1>2, <1>3, <1>11, WriteFileKeeps
  <1> QED BY <1>5, <1>6, <1>7, <1>8, <1>9, <1>10, <1>11, Failed

LEMMA SetDirectoryMtimeKeeps ==
    ASSUME IInv, SetDirectoryMtime, scenario' = scenario, edits' = edits
    PROVE  IInv'
  <1> DEFINE p == Entries[run.at].path
             next == LastItem("Directory", run.at - 1)
  <1>1. At("mtimes") /\ run.at > 0
    BY DEF SetDirectoryMtime
  <1>2. /\ run.stage = "mtimes" /\ Intents = {} /\ run.cmd # "none" /\ run.at \in Nat /\ scenario \in Scenarios /\ Stages /\ Places /\ Indexed
        /\ (Applying => Base /\ State = "applying")
    BY <1>1, AtIs DEF Tables
  <1>3. run.at <= Len(Entries) /\ run.stage \notin QuietStages
    BY <1>1, <1>2 DEF Places, QuietStages
  <1>4. next \in Nat /\ next <= Len(Entries) /\ (next # 0 => Entries[next].kind = "Directory")
    <2>1. PICK i \in Nat : i = run.at - 1
      BY <1>1, <1>2
    <2>2. LastItem("Directory", i) \in Nat /\ LastItem("Directory", i) <= i
          /\ (LastItem("Directory", i) # 0 => Entries[LastItem("Directory", i)].kind = "Directory")
      BY <1>2, <2>1, LastItemIs
    <2>3. Len(Entries) \in Nat
      BY <1>2, EntriesAre
    <2>4. next = LastItem("Directory", i)
      BY <2>1
    <2> HIDE DEF next
    <2> QED BY <1>2, <1>3, <2>1, <2>2, <2>3, <2>4
  <1>5. Phase("pre_base")
    <2>1. run.cmd # "bind" => Applying
      BY <1>2 DEF Applying, ApplyStages
    <2>2. run.cmd = "bind" => ~ Base
      BY <1>2 DEF Stages, Base
    <2> QED BY <1>2, <2>1, <2>2 DEF Phase
  <1>6. \/ Enter("mtimes", next)
        \/ HasId(tree, p, tree[p].id) /\ JournalMtime("pre_base", p, tree[p].id, Entries[run.at].data)
        \/ Fail
    BY DEF SetDirectoryMtime, Require, HasId
  <1> HIDE DEF p, next
  <1>7. CASE Enter("mtimes", next)
    BY <1>2, <1>4, <1>7, EnteredNext
  <1>8. CASE HasId(tree, p, tree[p].id) /\ JournalMtime("pre_base", p, tree[p].id, Entries[run.at].data)
    BY <1>2, <1>3, <1>5, <1>8, MtimeIntended
  <1> QED BY <1>6, <1>7, <1>8, Failed

(***************************************************************************)
(* The user.  No step of his touches a temporary.                          *)
(***************************************************************************)
TempsStay == \A p \in DOMAIN tree : IsTemp(p) => p \in DOMAIN tree' /\ tree'[p].kind = tree[p].kind

LEMMA UserKeeps ==
    ASSUME IInv, db' = db, run' = run, scenario' = scenario, edits' \in 0 .. scenario.edits, lastId' \in Nat, lastId' >= lastId,
           WellFormed(tree', lastId'), TempsStay
    PROVE  IInv'
  <1>1. /\ Worlds /\ Stages /\ Places /\ RunTypes /\ Acting /\ lastId \in Nat /\ Tables
    BY DEF IInv, Control, Worlds
  <1>2. Worlds'
    <2>1. Len(scenario.base) \in Nat
      BY <1>1, BaseIs DEF Worlds
    <2>2. Len(scenario'.base) < lastId' /\ scenario' \in Scenarios /\ edits' \in 0 .. scenario'.edits
      BY <1>1, <2>1 DEF Worlds
    <2> QED BY <2>2 DEF Worlds
  <1>3. Tables' /\ Intents' = Intents
    BY <1>1, SameTables
  <1>4. /\ index' = index /\ State' = State /\ rows' = rows /\ recoveries' = recoveries /\ links' = links /\ journal' = journal
        /\ (Base' <=> Base) /\ (Turned' <=> Turned) /\ (Applying' <=> Applying) /\ (TakingBack' <=> TakingBack)
        /\ Entries' = Entries /\ Promote' = Promote /\ Tops' = Tops /\ TargetShape' = TargetShape
    BY <1>3 DEF index, State, pending, rows, recoveries, links, journal, Base, Turned, Applying, TakingBack, Entries, Promote, Tops, TargetShape
  <1>5. Stages'
    BY <1>1, <1>3, <1>4 DEF Stages
  <1>6. Places'
    BY <1>1, <1>4 DEF Places
  <1>7. RunTypes'
    BY <1>1 DEF RunTypes
  <1>8. Acting'
    <2>1. \A a \in Intents : a.op = "create" => IsTemp(a.path)
      BY <1>1 DEF Intents, Tables, Types, JournalTypes, RowOK
    <2>2. \A a, c : Before(a, c)' <=> Before(a, c)
      BY <1>4 DEF Before, RootOf, Row
    <2> QED BY <1>1, <1>3, <2>1, <2>2 DEF Acting, TempsStay, Exists
  <1> QED BY <1>2, <1>3, <1>5, <1>6, <1>7, <1>8 DEF IInv, Control

LEMMA TempIsHidden ==
    ASSUME NEW p \in Path, IsTemp(p)
    PROVE  Hidden(p)
  <1>1. p # <<>> /\ Last(p)[1] = "temp"
    BY DEF IsTemp
  <1>2. Len(p) \in DOMAIN p /\ Last(p) = p[Len(p)]
    BY <1>1, ParentIs DEF Path
  <1> QED BY <1>1, <1>2 DEF Hidden, VisibleForms

LEMMA AnotherEdit ==
    ASSUME IInv, NEW lost, NEW new, Edit(lost, new)
    PROVE  /\ db' = db /\ run' = run /\ scenario' = scenario /\ edits' \in 0 .. scenario.edits
           /\ lastId \in Nat /\ WellFormed(tree, lastId) /\ scenario \in Scenarios
  <1>1. edits \in 0 .. scenario.edits /\ scenario.edits \in Nat
    BY ScenarioAssumption DEF IInv, Worlds
  <1> QED BY <1>1 DEF Edit, IInv, Worlds

LEMMA FileIs ==
    ASSUME IInv, NEW p \in Files
    PROVE  /\ p \in Path /\ p # <<>> /\ IsFile(tree, p) /\ IsDir(tree, Parent(p)) /\ Parent(p) # p
  <1>1. WellFormed(tree, lastId) /\ p \in DOMAIN tree /\ tree[p].kind = "File"
    BY DEF IInv, Worlds, Files
  <1>2. p \in Path /\ p # <<>>
    BY <1>1 DEF WellFormed, IsDir
  <1>3. IsPrefix(Parent(p), p) /\ Parent(p) \in Path /\ Parent(p) # p
    <2>1. /\ Len(p) \in Nat \ {0} /\ Parent(p) \in Path /\ Len(Parent(p)) = Len(p) - 1
          /\ \A i \in 1 .. Len(p) - 1 : Parent(p)[i] = p[i]
      BY <1>2, ParentIs
    <2>2. Parent(p) # p /\ Len(Parent(p)) <= Len(p)
      BY <2>1
    <2> QED BY <1>2, <2>1, <2>2, PrefixIs
  <1> QED BY <1>1, <1>2, <1>3 DEF WellFormed, IsFile

LEMMA WriteKeeps == IInv /\ Write => IInv'
  <1> SUFFICES ASSUME IInv, Write PROVE IInv'
    OBVIOUS
  <1>1. PICK p \in Files : Edit({tree[p].data}, {Written}) /\ tree' = Stamped(tree, p, Written) /\ lastId' = lastId
    BY DEF Write
  <1>2. /\ db' = db /\ run' = run /\ scenario' = scenario /\ edits' \in 0 .. scenario.edits
        /\ lastId \in Nat /\ WellFormed(tree, lastId)
    BY <1>1, AnotherEdit
  <1>3. WellFormed(tree', lastId)
    BY <1>1, <1>2, StampedWellFormed
  <1>4. AfterStamp(tree', tree, p, Written)
    BY <1>1, <1>2, StampedIs DEF WellFormed
  <1>5. TempsStay
    BY <1>4 DEF TempsStay, AfterStamp, Keeps
  <1> QED BY <1>1, <1>2, <1>3, <1>5, UserKeeps

LEMMA ReplaceFileKeeps == IInv /\ ReplaceFile => IInv'
  <1> SUFFICES ASSUME IInv, ReplaceFile PROVE IInv'
    OBVIOUS
  <1>1. PICK p \in Files : /\ ~ Hidden(p) /\ Edit({tree[p].data}, {Written})
                           /\ tree' = Made(Removed(tree, p), p, lastId + 1, "File", Written) /\ lastId' = lastId + 1
    BY DEF ReplaceFile
  <1>2. /\ db' = db /\ run' = run /\ scenario' = scenario /\ edits' \in 0 .. scenario.edits
        /\ lastId \in Nat /\ WellFormed(tree, lastId)
    BY <1>1, AnotherEdit
  <1>3. p \in Path /\ p # <<>> /\ IsFile(tree, p) /\ IsDir(tree, Parent(p)) /\ Parent(p) # p /\ p \in DOMAIN tree /\ "File" \in Kinds
    BY FileIs DEF IsFile, Kinds
  <1> DEFINE u == Removed(tree, p)
  <1>4. WellFormed(u, lastId) /\ AfterRemove(u, tree, p) /\ Objects(u)
    BY <1>2, <1>3, RemovedWellFormed, RemovedIs DEF WellFormed
  <1> HIDE DEF u
  <1>5. p \notin DOMAIN u /\ IsDir(u, Parent(p))
    BY <1>3, <1>4 DEF AfterRemove, IsDir
  <1>6. tree' = Made(u, p, lastId + 1, "File", Written)
    BY <1>1 DEF u
  <1>7. WellFormed(tree', lastId') /\ lastId' \in Nat /\ lastId' >= lastId
    BY <1>1, <1>2, <1>3, <1>4, <1>5, <1>6, MadeWellFormed
  <1>8. AfterMake(tree', u, p, lastId + 1, "File", Written)
    BY <1>3, <1>4, <1>5, <1>6, MadeIs
  <1>9. TempsStay
    <2>1. \A q \in DOMAIN tree : IsTemp(q) => q # p
      BY <1>1, <1>3, TempIsHidden
    <2> QED BY <1>4, <1>8, <2>1 DEF TempsStay, AfterMake, Keeps, AfterRemove
  <1> QED BY <1>2, <1>7, <1>9, UserKeeps

LEMMA CreateFileKeeps == IInv /\ CreateFile => IInv'
  <1> SUFFICES ASSUME IInv, CreateFile PROVE IInv'
    OBVIOUS
  <1>1. PICK p \in scenario.names : /\ ~ Exists(p) /\ Exists(Parent(p)) /\ tree[Parent(p)].kind = "Directory"
                                    /\ Edit({}, {Written})
                                    /\ tree' = Made(tree, p, lastId + 1, "File", Written) /\ lastId' = lastId + 1
    BY DEF CreateFile
  <1>2. /\ db' = db /\ run' = run /\ scenario' = scenario /\ edits' \in 0 .. scenario.edits
        /\ lastId \in Nat /\ WellFormed(tree, lastId) /\ scenario \in Scenarios
    BY <1>1, AnotherEdit
  <1>3. p \in Path /\ p # <<>>
    <2>1. VisiblePath(p)
      BY <1>2, ScenarioAssumption
    <2> QED BY <2>1, VisibleIs
  <1>4. p \notin DOMAIN tree /\ IsDir(tree, Parent(p)) /\ "File" \in Kinds /\ Parent(p) # p
    BY <1>1 DEF Exists, IsDir, Kinds
  <1>5. WellFormed(tree', lastId') /\ lastId' \in Nat /\ lastId' >= lastId
    BY <1>1, <1>2, <1>3, <1>4, MadeWellFormed
  <1>6. AfterMake(tree', tree, p, lastId + 1, "File", Written)
    BY <1>1, <1>2, <1>4, MadeIs DEF WellFormed
  <1>7. TempsStay
    BY <1>6 DEF TempsStay, AfterMake, Keeps
  <1> QED BY <1>2, <1>5, <1>7, UserKeeps

LEMMA DeleteFileKeeps == IInv /\ DeleteFile => IInv'
  <1> SUFFICES ASSUME IInv, DeleteFile PROVE IInv'
    OBVIOUS
  <1>1. PICK p \in Files : /\ ~ Hidden(p) /\ Edit({tree[p].data}, {})
                           /\ tree' = Removed(tree, p) /\ lastId' = lastId
    BY DEF DeleteFile
  <1>2. /\ db' = db /\ run' = run /\ scenario' = scenario /\ edits' \in 0 .. scenario.edits
        /\ lastId \in Nat /\ WellFormed(tree, lastId)
    BY <1>1, AnotherEdit
  <1>3. p \in Path /\ p # <<>> /\ IsFile(tree, p) /\ p \in DOMAIN tree
    BY FileIs DEF IsFile
  <1>4. WellFormed(tree', lastId') /\ AfterRemove(tree', tree, p)
    BY <1>1, <1>2, <1>3, RemovedWellFormed, RemovedIs DEF WellFormed
  <1>5. TempsStay
    <2>1. \A q \in DOMAIN tree : IsTemp(q) => q # p
      BY <1>1, <1>3, TempIsHidden
    <2> QED BY <1>4, <2>1 DEF TempsStay, AfterRemove
  <1> QED BY <1>1, <1>2, <1>4, <1>5, UserKeeps

(***************************************************************************)
(* A kill.                                                                 *)
(***************************************************************************)
LEMMA KillKeeps == IInv /\ Kill => IInv'
  <1> SUFFICES ASSUME IInv, Kill PROVE IInv'
    OBVIOUS
  <1>1. run' = NoRun /\ UNCHANGED fs /\ db' = db /\ scenario' = scenario /\ edits' = edits
    BY DEF Kill
  <1>2. Worlds' /\ lastId' = lastId /\ lastId \in Nat
    BY <1>1, WorldsSame DEF IInv, fs, Worlds
  <1> QED BY <1>1, <1>2, Halted

(***************************************************************************)
(* The initial states.                                                     *)
(***************************************************************************)
Place(p) == CHOOSE j \in DOMAIN scenario.base : scenario.base[j].path = p
LEMMA FirstTree ==
    ASSUME Init
    PROVE  WellFormed(tree, lastId) /\ lastId \in Nat /\ Len(scenario.base) < lastId
  <1> DEFINE base == scenario.base
             n == Len(base)
  <1>1. scenario \in Scenarios /\ Snapshot(base)
    BY ScenarioAssumption DEF Init
  <1>2. n \in Nat /\ DOMAIN base = 1 .. n /\ \A i \in 1 .. n : VisiblePath(base[i].path) /\ base[i].kind \in Kinds /\ base[i] \in Range(base)
    BY <1>1, BaseIs
  <1>3. lastId = n + 1
    BY DEF Init
  <1> DEFINE root == <<"", 0>>
             dom == {<<>>} \cup {base[i].path : i \in 1 .. n}
  <1>4. /\ DOMAIN tree = dom /\ <<>> \in dom
        /\ DOMAIN tree[<<>>] = {"id", "kind", "data"} /\ tree[<<>>].id = 1 /\ tree[<<>>].kind = "Directory"
        /\ \A p \in dom : p # <<>> =>
              /\ DOMAIN tree[p] = {"id", "kind", "data"}
              /\ tree[p].id = Place(p) + 1 /\ tree[p].kind = base[Place(p)].kind
    <2>1. tree = [p \in dom |-> IF p = <<>> THEN [id |-> 1, kind |-> "Directory", data |-> root]
                                ELSE [id |-> Place(p) + 1, kind |-> base[Place(p)].kind, data |-> base[Place(p)].data]]
      BY <1>2 DEF Init, Place
    <2> HIDE DEF root
    <2>2. <<>> \in dom
      OBVIOUS
    <2> HIDE DEF dom, base
    <2>3. DOMAIN tree = dom
      BY <2>1
    <2>4. tree[<<>>] = [id |-> 1, kind |-> "Directory", data |-> root]
      BY <2>1, <2>2
    <2>5. \A p \in dom : p # <<>> => tree[p] = [id |-> Place(p) + 1, kind |-> base[Place(p)].kind, data |-> base[Place(p)].data]
      BY <2>1
    <2> QED BY <2>2, <2>3, <2>4, <2>5
  <1>5. \A i, j \in 1 .. n : base[i].path = base[j].path => i = j
    BY <1>1, <1>2 DEF Snapshot
  <1>6. ASSUME NEW p \in DOMAIN tree, p # <<>>
        PROVE  Place(p) \in 1 .. n /\ base[Place(p)].path = p
    <2>1. \E j \in DOMAIN base : base[j].path = p
      BY <1>2, <1>4, <1>6
    <2> QED BY <1>2, <2>1 DEF Place
  <1> HIDE DEF n
  <1>7. \A p \in DOMAIN tree : p \in Path
    BY <1>2, <1>4, VisibleIs, RootIsPath
  <1>8. Objects(tree)
    BY <1>2, <1>4, <1>6 DEF Objects, IsObject, Kinds
  <1>9. IsDir(tree, <<>>)
    BY <1>4 DEF IsDir
  <1>10. \A p \in DOMAIN tree : p = <<>> \/ (Place(p) \in 1 .. n /\ tree[p].id = Place(p) + 1 /\ base[Place(p)].path = p)
    BY <1>4, <1>6
  <1>11. \A p \in DOMAIN tree : tree[p].id \in 1 .. lastId
    BY <1>2, <1>3, <1>4, <1>10
  <1>12. \A p, q \in DOMAIN tree : tree[p].id = tree[q].id => p = q
    <2> SUFFICES ASSUME NEW p \in DOMAIN tree, NEW q \in DOMAIN tree, tree[p].id = tree[q].id
                 PROVE  p = q
      OBVIOUS
    <2>1. tree[<<>>].id = 1
      BY <1>4
    <2> QED BY <1>2, <1>10, <2>1
  <1>13. ASSUME NEW p \in DOMAIN tree, NEW q \in Path, IsPrefix(q, p), q # p
         PROVE  IsDir(tree, q)
    <2>1. CASE q = <<>>
      BY <1>9, <2>1
    <2>2. CASE q # <<>>
      <3>1. p \in Path /\ Len(p) \in Nat /\ Len(q) \in Nat
        BY <1>7 DEF Path
      <3>2. Len(q) <= Len(p) /\ \A i \in 1 .. Len(q) : q[i] = p[i]
        BY <3>1, <1>13, PrefixIs
      <3>3. Len(q) # Len(p) /\ Len(q) # 0
        BY <1>13, <2>2, <3>1, <3>2 DEF Path
      <3>4. Len(q) \in 1 .. Len(p) - 1
        BY <3>1, <3>2, <3>3
      <3>5. p # <<>>
        BY <3>1, <3>4
      <3>6. q = SubSeq(p, 1, Len(q))
        <4>1. SubSeq(q, 1, Len(q)) = q
          BY SubSeqFull DEF Path
        <4> QED BY <1>13, <4>1 DEF IsPrefix
      <3>7. PICK d \in Range(base) : d.path = q /\ d.kind = "Directory"
        <4>1. base[Place(p)] \in Range(base) /\ base[Place(p)].path = p
          BY <1>2, <1>6, <3>5
        <4>2. \A e \in Range(base) : \A i \in 1 .. Len(e.path) - 1 :
                  \E d \in Range(base) : d.path = SubSeq(e.path, 1, i) /\ d.kind = "Directory"
          BY <1>1 DEF Snapshot
        <4>3. PICK e \in Range(base) : e.path = p
          BY <4>1
        <4> QED BY <3>4, <3>6, <4>2, <4>3
      <3>8. PICK k \in 1 .. n : base[k] = d
        BY <1>2 DEF Range
      <3>9. q \in DOMAIN tree
        BY <1>4, <3>7, <3>8
      <3>10. Place(q) = k
        BY <1>5, <1>10, <2>2, <3>7, <3>8, <3>9
      <3> QED BY <1>4, <2>2, <3>7, <3>8, <3>9, <3>10 DEF IsDir
    <2> QED BY <2>1, <2>2
  <1>14. WellFormed(tree, lastId)
    BY <1>7, <1>8, <1>9, <1>11, <1>12, <1>13 DEF WellFormed
  <1> QED BY <1>2, <1>3, <1>14 DEF n

LEMMA Starting == Init => IInv
  <1> SUFFICES ASSUME Init PROVE IInv
    OBVIOUS
  <1>1. Worlds
    <2>1. scenario \in Scenarios /\ edits = 0
      BY DEF Init
    <2>2. scenario.edits \in Nat
      BY <2>1, ScenarioAssumption
    <2>3. edits \in 0 .. scenario.edits
      BY <2>1, <2>2
    <2> QED BY <2>1, <2>3, FirstTree DEF Worlds
  <1>2. /\ DOMAIN db = {"journal", "pending", "rows", "recoveries", "links", "index"} /\ journal = {} /\ pending = NoPending
        /\ rows = <<>> /\ recoveries = <<>> /\ links = <<>> /\ index \in {"none", "base"}
    <2> DEFINE i == IF scenario.bind THEN "none" ELSE "base"
    <2>1. db = [journal |-> {}, pending |-> NoPending, rows |-> <<>>, recoveries |-> <<>>, links |-> <<>>, index |-> i]
      BY DEF Init
    <2>2. i \in {"none", "base"}
      OBVIOUS
    <2> HIDE DEF i
    <2> QED BY <2>1, <2>2 DEF journal, pending, rows, recoveries, links, index
  <1>3. DOMAIN rows = {} /\ DOMAIN recoveries = {} /\ DOMAIN links = {}
    BY <1>2
  <1>4. State = "none" /\ DOMAIN pending = {"state", "stamp"}
    BY <1>2 DEF State, NoPending
  <1>5. Intents = {}
    BY <1>2 DEF Intents
  <1>6. JournalTypes
    BY <1>2, FS_EmptySet DEF JournalTypes
  <1>7. Types
    BY <1>2, <1>3, <1>4, <1>6 DEF Types, PendingTypes, RowsTypes, RecoveriesTypes, LinksTypes
  <1>8. Tables
    BY <1>2, <1>3, <1>4, <1>5, <1>7 DEF Tables, IntentsTogether, Indexed, Unstarted, Phases, Creations, Roots, Linked, Base
  <1>9. Control
    BY DEF Init, Control, RunTypes, Stages, Places, Acting, NoRun, BindStages, ApplyStages, QuietStages, BackStages, Applying, TakingBack
  <1> QED BY <1>1, <1>8, <1>9 DEF IInv

(***************************************************************************)
(* Every step keeps the invariant.                                         *)
(***************************************************************************)
LEMMA CheckoutKeeps ==
    ASSUME IInv, Checkout, scenario' = scenario, edits' = edits
    PROVE  IInv'
  <1>1. Dispatch \/ SaveCheckoutPaths \/ RegisterRecoveryPlan \/ PrepareRecovery \/ Prepared => IInv'
    BY DispatchKeeps, SaveCheckoutPathsKeeps, RegisterRecoveryPlanKeeps, PrepareRecoveryKeeps, PreparedKeeps
  <1>2. InstallDirectory \/ DirectoriesInstalled \/ PromoteCaptured \/ Reconcile \/ Reconciled \/ InstallFile => IInv'
    BY InstallDirectoryKeeps, DirectoriesInstalledKeeps, PromoteCapturedKeeps, ReconcileKeeps, ReconciledKeeps, InstallFileKeeps
  <1>3. FilesInstalled \/ SetDirectoryMtime \/ Materialized \/ BindScan \/ FinalizeCheckout => IInv'
    BY FilesInstalledKeeps, SetDirectoryMtimeKeeps, MaterializedKeeps, BindScanKeeps, FinalizeCheckoutKeeps
  <1>4. VerifyCaptured \/ ScanTarget \/ Recheck \/ FinalizeSyncApply \/ CleanupRecovery \/ FinishSyncCleanup => IInv'
    BY VerifyCapturedKeeps, ScanTargetKeeps, RecheckKeeps, FinalizeSyncApplyKeeps, CleanupRecoveryKeeps, FinishSyncCleanupKeeps
  <1> QED BY <1>1, <1>2, <1>3, <1>4 DEF Checkout

LEMMA RollbackKeeps ==
    ASSUME IInv, Rollback, scenario' = scenario, edits' = edits
    PROVE  IInv'
  <1>1. RestorePromoted \/ RestoreMetadata \/ CleanupTemps \/ UninstallPath \/ Uninstalled \/ RestoreRecovery => IInv'
    BY RestorePromotedKeeps, RestoreMetadataKeeps, CleanupTempsKeeps, UninstallPathKeeps, UninstalledKeeps, RestoreRecoveryKeeps
  <1>2. Restored \/ RestoreRootMtime \/ ClearRollback \/ PlanSync \/ RunLibraryUnbind => IInv'
    BY RestoredKeeps, RestoreRootMtimeKeeps, ClearRollbackKeeps, PlanSyncKeeps, RunLibraryUnbindKeeps
  <1> QED BY <1>1, <1>2 DEF Rollback

LEMMA Unchanged_vars == IInv /\ UNCHANGED vars => IInv'
  <1> SUFFICES ASSUME IInv, UNCHANGED vars PROVE IInv'
    OBVIOUS
  <1>1. tree' = tree /\ lastId' = lastId /\ db' = db /\ run' = run /\ scenario' = scenario /\ edits' = edits
    BY DEF vars, fs, world
  <1>2. Worlds' /\ lastId \in Nat
    BY <1>1, WorldsSame DEF IInv, fs, Worlds
  <1>3. Tables' /\ Intents' = Intents
    BY <1>1, <1>2, SameTables DEF IInv
  <1>4. RunTypes' /\ Stages' /\ Places' /\ Acting'
    <2>1. RunTypes /\ Stages /\ Places /\ Acting
      BY DEF IInv, Control
    <2>2. /\ index' = index /\ State' = State /\ rows' = rows /\ recoveries' = recoveries /\ links' = links /\ journal' = journal
          /\ (Base' <=> Base) /\ (Turned' <=> Turned) /\ (Applying' <=> Applying) /\ (TakingBack' <=> TakingBack)
          /\ Entries' = Entries /\ Promote' = Promote /\ Tops' = Tops /\ TargetShape' = TargetShape
      BY <1>1, <1>3 DEF index, State, pending, rows, recoveries, links, journal, Base, Turned, Applying, TakingBack, Entries, Promote,
         Tops, TargetShape
    <2>3. \A a, c : Before(a, c)' <=> Before(a, c)
      BY <2>2 DEF Before, RootOf, Row
    <2>4. RunTypes' /\ Acting'
      BY <1>1, <1>3, <2>1, <2>3 DEF RunTypes, Acting, Exists
    <2>5. Stages'
      BY <1>1, <1>3, <2>1, <2>2 DEF Stages
    <2>6. Places'
      BY <1>1, <2>1, <2>2 DEF Places
    <2> QED BY <2>4, <2>5, <2>6
  <1> QED BY <1>2, <1>3, <1>4 DEF IInv, Control

LEMMA NextKeeps == IInv /\ [Next]_vars => IInv'
  <1> SUFFICES ASSUME IInv, [Next]_vars PROVE IInv'
    OBVIOUS
  <1>1. CASE UNCHANGED vars
    BY <1>1, Unchanged_vars
  <1>2. CASE Command
    BY <1>2, StartKeeps DEF Command, world
  <1>3. CASE Client
    <2>1. scenario' = scenario /\ edits' = edits /\ (SnapshotDirectories \/ Execute \/ Checkout \/ Rollback)
      BY <1>3 DEF Client, world
    <2> QED BY <2>1, SnapshotDirectoriesKeeps, ExecuteKeeps, CheckoutKeeps, RollbackKeeps
  <1>4. CASE User
    BY <1>4, WriteKeeps, ReplaceFileKeeps, CreateFileKeeps, DeleteFileKeeps DEF User
  <1>5. CASE Kill
    BY <1>5, KillKeeps
  <1> QED BY <1>1, <1>2, <1>3, <1>4, <1>5 DEF Next

(* The tables, the worktree and the process stay what IInv says.           *)
THEOREM Invariant == Spec => []IInv
  BY Starting, NextKeeps, PTL DEF Spec

(* TypeOK: the tables name paths of the target and of the base only, an    *)
(* order names one row, the worktree is a tree.                            *)
THEOREM TypeCorrect == Spec => []TypeOK
  <1>1. IInv => TypeOK
    <2> SUFFICES ASSUME IInv PROVE TypeOK
      OBVIOUS
    <2>1. /\ Types /\ JournalTypes /\ PendingTypes /\ RowsTypes /\ RecoveriesTypes /\ scenario \in Scenarios /\ WellFormed(tree, lastId)
      BY DEF IInv, Tables, Types, Worlds
    <2>2. TopPaths = {e.path : e \in Range(Tops)}
      BY DEF TopPaths
    <2>3. <<>> \in DOMAIN tree
      BY <2>1 DEF WellFormed, IsDir
    <2>4. ASSUME NEW p \in DOMAIN tree PROVE Parent(p) \in DOMAIN tree
      <3>1. p \in Path
        BY <2>1 DEF WellFormed
      <3>2. CASE p = <<>>
        BY <2>3, <3>2, RootIsPath
      <3>3. CASE p # <<>>
        <4>1. /\ Len(p) \in Nat \ {0} /\ Parent(p) \in Path /\ Len(Parent(p)) = Len(p) - 1
              /\ \A i \in 1 .. Len(p) - 1 : Parent(p)[i] = p[i]
          BY <3>1, <3>3, ParentIs
        <4>2. Len(Parent(p)) <= Len(p)
          BY <4>1
        <4>3. IsPrefix(Parent(p), p)
          BY <3>1, <4>1, <4>2, PrefixIs
        <4> QED BY <2>1, <4>1, <4>3, Ancestors
      <3> QED BY <3>2, <3>3
    <2> QED BY <2>1, <2>2, <2>3, <2>4 DEF TypeOK, JournalTypes, PendingTypes, RowsTypes, RecoveriesTypes, State
  <1> QED BY <1>1, Invariant, PTL

-----------------------------------------------------------------------------
(***************************************************************************)
(* What becomes of the user's contents.  An object of the base keeps its   *)
(* identity whatever the checkout moves (Originals); a content may be      *)
(* deleted by the client if it is not the user's, of the base, or adopted  *)
(* (Safe).                                                                 *)
(***************************************************************************)
Originals == 2 .. Len(scenario.base) + 1
Future == {EditData[i] : i \in edits + 1 .. Len(EditData)}
Safe(d) == d \notin Future /\ (d \in owed => d \in BaseData \cup adopted)

(***************************************************************************)
(* Objects.  No object of the base is at or below a temporary name; what   *)
(* a creation made and what is registered as a directory is what it was.   *)
(***************************************************************************)
TempFree == \A p \in DOMAIN tree : InTemp(p) => tree[p].id \notin Originals
KindIs(id, kind) == \A q \in DOMAIN tree : tree[q].id = id => tree[q].kind = kind
CreatedHere(a) == IsTemp(a.path) /\ a.outcome = "" /\ (a.state = "completed" \/ Kept(a)) => a.op = "create"
Creates(a) == a.op = "create" =>
    /\ \E p \in DOMAIN TargetShape, n \in Nat : a.path = Internal(p, "temp", n) /\ a.kind = TargetShape[p].kind
    /\ a.id # None => a.id \notin Originals /\ KindIs(a.id, a.kind)
CreationFact(a) == CreatedHere(a) /\ Creates(a)
CreateRows == \A a \in journal : CreationFact(a)
DirectoryFact(t, r) == TargetShape[t].kind = "Directory" => KindIs(r.tempId, "Directory") /\ KindIs(r.targetId, "Directory")
DirectoryRows == \A t \in DOMAIN rows : DirectoryFact(t, rows[t])

(***************************************************************************)
(* Contents.                                                               *)
(***************************************************************************)
FutureFree ==
    /\ \A p \in DOMAIN tree : tree[p].kind = "File" => tree[p].data \notin Future
    /\ owed \cap Future = {} /\ owed \subseteq BaseData \cup Range(EditData)
SafeShape(shape) == \A x \in DOMAIN shape : shape[x].kind = "File" => Safe(shape[x].data)
Shapes == \A p \in DOMAIN recoveries : SafeShape(recoveries[p].shape)
KeptAt(p, d) == /\ p \in DOMAIN tree /\ tree[p].kind = "File" /\ ~ IsTemp(p) /\ tree[p].data = d
                /\ d \in BaseData => tree[p].id \in Originals
AllKept == \A d \in owed \ (adopted \cup Discarded) : \E p : KeptAt(p, d)

(***************************************************************************)
(* Promotions.  A promotion that is not taken back holds its object; no    *)
(* two hold the same one, and while the checkout goes on a held object is  *)
(* where it was captured or visible.                                       *)
(***************************************************************************)
HeldBy(s, o) == Away(s) /\ \E c \in journal : CurrentIs(s, c) /\ c.id = o
Distinct == Base => \A s, z, o : HeldBy(s, o) /\ HeldBy(z, o) => s = z
OutOfHiding == State = "applying" => \A s \in DOMAIN links : \A q \in DOMAIN tree : HeldBy(s, tree[q].id) => OutAt(s, q)
Returned(t, o) ==
    /\ State = "rolling_back"
    /\ \A q \in DOMAIN tree : tree[q].id = o => tree[q].kind = "File" /\ NotAt(t, q)
    /\ \A s \in DOMAIN links : ~ HeldBy(s, o)
RegisteredFor(t, o) == o \in Originals => \E m \in Range(Promote) :
    m.target = t /\ ((m.source \in DOMAIN links /\ HeldBy(m.source, o)) \/ Returned(t, o))
Registration == Base => \A t \in DOMAIN rows : RegisteredFor(t, rows[t].tempId)

(***************************************************************************)
(* Intents.                                                                *)
(***************************************************************************)
Foreign(a) == a.id # None /\ a.id \notin Originals
RemovalFact(a) == a.op = "remove" /\ a.kind = "File" /\ ~ IsTemp(a.path) =>
    /\ a.shape # NoShape /\ <<>> \in DOMAIN a.shape /\ Safe(a.shape[<<>>].data)
    /\ Base => Foreign(a)
StampFact(a) == a.op = "mtime" => a.kind = "Directory" \/ (IsTemp(a.path) /\ a.stamp \notin Range(EditData))
Captures(a)    == a.phase = "pre_base" /\ VisiblePath(a.path) /\ Len(a.path) = 1 /\ a.target = RecoveryName(a.path) /\ DOMAIN links = {}
Uninstalling(a) == /\ State # "applying" /\ VisiblePath(a.path) /\ a.target = RollbackName(a.path)
                   /\ a.kind = "File" => Foreign(a)
Uncovers(a)    == State # "applying" /\ VisiblePath(a.target) /\ Len(a.target) = 1 /\ a.path = RecoveryName(a.target)
Installs(a)    == IsTemp(a.path) /\ Last(a.target)[1] \in VisibleForms
PlainFact(a) == Base /\ Plain(a) => Installs(a) \/ Captures(a) \/ Uninstalling(a) \/ Uncovers(a)
RestoreFact(a) == a.op = "restore" =>
    /\ Base /\ State = "rolling_back"
    /\ \E s \in DOMAIN links : links[s].rollback = a.order
    /\ \A s \in DOMAIN links : links[s].rollback = a.order => a.target = HiddenAt(s) /\ HeldBy(s, a.id)
IntentFact(a) == RemovalFact(a) /\ StampFact(a) /\ PlainFact(a) /\ RestoreFact(a)
Actions == \A a \in Intents : IntentFact(a)
ActedRestore == run.acted => \A a \in Intents : a.op = "restore" => IsFile(tree, a.target) /\ tree[a.target].id = a.id

Objects1 == TempFree /\ CreateRows /\ DirectoryRows
Contents1 == FutureFree /\ Shapes /\ AllKept
Promoted == Distinct /\ OutOfHiding /\ Registration
DInv == Objects1 /\ Contents1 /\ Promoted /\ Actions /\ ActedRestore

LEMMA Known ==
    ASSUME IInv
    PROVE  /\ scenario \in Scenarios /\ lastId \in Nat /\ Types /\ Tables /\ Worlds
           /\ \A o \in Originals : o \in Nat /\ o # None /\ o <= lastId
           /\ \A a \in journal : RowOK(a) /\ a.id \in Nat /\ a.id <= lastId /\ (a.state = "intent" <=> a \in Intents)
           /\ Intents \subseteq journal
           /\ \A t \in DOMAIN rows : /\ t \in DOMAIN TargetShape /\ PathRowOK(rows[t])
                                     /\ rows[t].tempId \in Nat /\ rows[t].tempId <= lastId
                                     /\ rows[t].targetId \in Nat /\ rows[t].targetId <= lastId
           /\ \A p \in DOMAIN tree : /\ p \in Path /\ tree[p].kind \in Kinds /\ tree[p].id \in Nat /\ tree[p].id <= lastId
                                     /\ tree[p].id # None
           /\ \A p, q \in DOMAIN tree : tree[p].id = tree[q].id => p = q
           /\ \A a, c \in journal : a.order = c.order => a = c
           /\ \A s \in DOMAIN links : s \in Sources /\ VisiblePath(s)
  <1>1. scenario \in Scenarios /\ lastId \in Nat /\ Types /\ Tables /\ Worlds /\ WellFormed(tree, lastId)
        /\ Len(scenario.base) < lastId
    BY DEF IInv, Tables, Worlds
  <1>2. Len(scenario.base) \in Nat
    BY <1>1, BaseIs
  <1>3. \A o \in Originals : o \in Nat /\ o # None /\ o <= lastId
    BY <1>1, <1>2 DEF Originals, None
  <1>4. \A a \in journal : RowOK(a) /\ a.id \in Nat /\ a.id <= lastId /\ (a.state = "intent" <=> a \in Intents)
    <2>1. \A a \in journal : RowOK(a)
      BY <1>1 DEF Types, JournalTypes
    <2>2. \A a \in journal : a.id \in 0 .. lastId
      BY <2>1 DEF RowOK
    <2> QED BY <1>1, <2>1, <2>2 DEF Intents
  <1>5. \A t \in DOMAIN rows : PathRowOK(rows[t]) /\ t \in DOMAIN TargetShape
    BY <1>1 DEF Types, RowsTypes
  <1>6. \A t \in DOMAIN rows : rows[t].tempId \in Nat /\ rows[t].tempId <= lastId /\ rows[t].targetId \in Nat /\ rows[t].targetId <= lastId
    BY <1>1, <1>5 DEF PathRowOK
  <1>7. \A p \in DOMAIN tree : /\ p \in Path /\ tree[p].kind \in Kinds /\ tree[p].id \in Nat /\ tree[p].id <= lastId
                               /\ tree[p].id # None
    BY <1>1 DEF WellFormed, Objects, IsObject, None
  <1>8. \A p, q \in DOMAIN tree : tree[p].id = tree[q].id => p = q
    BY <1>1 DEF WellFormed
  <1>9. \A a, c \in journal : a.order = c.order => a = c
    BY <1>1 DEF Types, JournalTypes
  <1>10. \A s \in DOMAIN links : s \in Sources /\ VisiblePath(s)
    BY <1>1, PromoteAre DEF Types, LinksTypes
  <1> QED BY <1>1, <1>3, <1>4, <1>5, <1>6, <1>7, <1>8, <1>9, <1>10 DEF Intents

LEMMA SameScenario ==
    ASSUME scenario' = scenario
    PROVE  /\ Originals' = Originals /\ BaseData' = BaseData /\ TargetShape' = TargetShape /\ BaseShape' = BaseShape
           /\ Promote' = Promote /\ Sources' = Sources /\ Entries' = Entries /\ Tops' = Tops /\ TopPaths' = TopPaths
  BY DEF Originals, BaseData, TargetShape, BaseShape, Promote, Sources, Entries, Tops, TopPaths, ShapeOf

(* What a step may do with the contents the user wants.                    *)
Still == scenario' = scenario /\ edits' = edits /\ owed' = owed /\ adopted \subseteq adopted'

LEMMA SafeStays ==
    ASSUME Still
    PROVE  /\ Future' = Future /\ \A d : Safe(d) => Safe(d)'
           /\ \A shape : SafeShape(shape) => SafeShape(shape)'
           /\ recoveries' = recoveries /\ Shapes => Shapes'
  <1>1. Future' = Future /\ BaseData' = BaseData
    BY SameScenario DEF Future, Still
  <1>2. \A d : Safe(d) => Safe(d)'
    BY <1>1 DEF Safe, Still
  <1>3. \A shape : SafeShape(shape) => SafeShape(shape)'
    BY <1>2 DEF SafeShape
  <1> QED BY <1>1, <1>2, <1>3 DEF Shapes

LEMMA SafeIs ==
    ASSUME IInv, FutureFree, NEW d, d \notin Range(EditData)
    PROVE  Safe(d)
  <1>1. d \notin Future
    <2>1. edits \in Nat /\ EditData \in Seq(Range(EditData)) /\ Len(EditData) \in Nat /\ DOMAIN EditData = 1 .. Len(EditData)
      BY Known, EditAssumption, ScenarioAssumption DEF EditAssumption, ScenarioAssumption, Worlds
    <2>2. \A i \in edits + 1 .. Len(EditData) : EditData[i] \in Range(EditData)
      BY <2>1 DEF Range
    <2> QED BY <2>2 DEF Future
  <1> QED BY <1>1 DEF Safe, FutureFree

(***************************************************************************)
(* Objects that stay what they are.                                        *)
(***************************************************************************)
Inherits == \A q \in DOMAIN tree' : \/ tree'[q].id > lastId
                                    \/ \E r \in DOMAIN tree : tree'[q].id = tree[r].id /\ tree'[q].kind = tree[r].kind
Stays == \A q \in DOMAIN tree' : \/ tree'[q].id > lastId
                                 \/ q \in DOMAIN tree /\ tree'[q].id = tree[q].id /\ tree'[q].kind = tree[q].kind

LEMMA StaysInherits == Stays => Inherits
  BY DEF Stays, Inherits

LEMMA KindStays ==
    ASSUME IInv, Inherits, NEW id \in Nat, id <= lastId, NEW kind, KindIs(id, kind)
    PROVE  KindIs(id, kind)'
  <1>1. lastId \in Nat
    BY Known
  <1> QED BY <1>1 DEF Inherits, KindIs

LEMMA RowsStay ==
    ASSUME IInv, Inherits, scenario' = scenario
    PROVE  /\ \A a \in journal : CreationFact(a) => CreationFact(a)'
           /\ \A t \in DOMAIN rows : DirectoryFact(t, rows[t]) => \A r : r = rows[t] => DirectoryFact(t, r)'
           /\ rows' = rows /\ DirectoryRows => DirectoryRows'
           /\ CreateRows /\ (\A a \in journal' : a \in journal) => CreateRows'
  <1>1. \A a \in journal : CreationFact(a) => CreationFact(a)'
    <2> SUFFICES ASSUME NEW a \in journal, CreationFact(a) PROVE CreationFact(a)'
      OBVIOUS
    <2>1. a.id # None /\ a.op = "create" => KindIs(a.id, a.kind)'
      BY Known, KindStays DEF CreationFact, Creates
    <2> QED BY <2>1, SameScenario DEF CreationFact, Creates, CreatedHere, Kept, IsPromotion, IsTemp
  <1>2. \A t \in DOMAIN rows : DirectoryFact(t, rows[t]) => \A r : r = rows[t] => DirectoryFact(t, r)'
    <2> SUFFICES ASSUME NEW t \in DOMAIN rows, DirectoryFact(t, rows[t]), NEW r, r = rows[t] PROVE DirectoryFact(t, r)'
      OBVIOUS
    <2>1. r.tempId \in Nat /\ r.tempId <= lastId /\ r.targetId \in Nat /\ r.targetId <= lastId
      BY Known
    <2>2. TargetShape[t].kind = "Directory" => KindIs(r.tempId, "Directory")' /\ KindIs(r.targetId, "Directory")'
      BY <2>1, KindStays DEF DirectoryFact
    <2> QED BY <2>2, SameScenario DEF DirectoryFact
  <1>3. rows' = rows /\ DirectoryRows => DirectoryRows'
    BY <1>2 DEF DirectoryRows
  <1>4. CreateRows /\ (\A a \in journal' : a \in journal) => CreateRows'
    BY <1>1 DEF CreateRows
  <1> QED BY <1>1, <1>2, <1>3, <1>4

LEMMA TempFreeStays ==
    ASSUME IInv, Stays, scenario' = scenario, TempFree
    PROVE  TempFree'
  <1>1. \A o \in Originals : o \in Nat /\ o <= lastId
    BY Known
  <1>2. lastId \in Nat
    BY Known
  <1> QED BY <1>1, <1>2, SameScenario DEF TempFree, Stays

(***************************************************************************)
(* What promotions hold.                                                   *)
(***************************************************************************)
LEMMA HeldIs ==
    ASSUME IInv, NEW s, NEW o, HeldBy(s, o)
    PROVE  /\ s \in DOMAIN links /\ o \in Nat /\ o <= lastId /\ Away(s)
           /\ \A z : HeldBy(s, z) => z = o
  <1>1. PICK c : CurrentIs(s, c) /\ c.id = o
    BY DEF HeldBy
  <1>2. c \in journal /\ o \in Nat /\ o <= lastId
    BY <1>1, Known DEF CurrentIs
  <1>3. \A a : CurrentIs(s, a) => a = c
    BY <1>1, Known DEF CurrentIs
  <1> QED BY <1>1, <1>2, <1>3 DEF HeldBy, Away

SameHeld == \A s, o : HeldBy(s, o)' <=> HeldBy(s, o)

LEMMA HeldSame ==
    ASSUME IInv, IInv', Base, links' = links,
           \A a \in journal : IsPromotion(a) => \E b \in journal' : IsPromotion(b) /\ b.order = a.order /\ b.id = a.id,
           \A a \in Intents \cup Intents' : a.op = "restore" => (a \in Intents <=> a \in Intents')
    PROVE  SameHeld
  <1>1. \A s : Away(s)' <=> Away(s)
    BY DEF Away, RestoreIs, Intents
  <1>2. ASSUME NEW s, NEW o, HeldBy(s, o) PROVE HeldBy(s, o)'
    <2>1. PICK c : CurrentIs(s, c) /\ c.id = o
      BY <1>2 DEF HeldBy
    <2>2. c \in journal /\ IsPromotion(c) /\ c.order = links[s].current
      BY <2>1 DEF CurrentIs
    <2>3. PICK b \in journal' : IsPromotion(b) /\ b.order = c.order /\ b.id = c.id
      BY <2>2
    <2>4. CurrentIs(s, b)'
      BY <2>2, <2>3 DEF CurrentIs, IsPromotion
    <2> QED BY <1>1, <1>2, <2>1, <2>3, <2>4 DEF HeldBy
  <1>3. ASSUME NEW s, NEW o, HeldBy(s, o)' PROVE HeldBy(s, o)
    <2>1. Away(s) /\ s \in DOMAIN links
      BY <1>1, <1>3 DEF HeldBy, Away
    <2>2. PICK c : CurrentIs(s, c)
      BY <2>1, Known DEF Tables, Linked
    <2>3. HeldBy(s, c.id)
      BY <2>1, <2>2 DEF HeldBy, CurrentIs
    <2>4. HeldBy(s, c.id)'
      BY <1>2, <2>3
    <2>5. o = c.id
      <3>1. PICK b : CurrentIs(s, b)' /\ b.id = o
        BY <1>3 DEF HeldBy
      <3>2. PICK d : CurrentIs(s, d)' /\ d.id = c.id
        BY <2>4 DEF HeldBy
      <3>3. b \in journal' /\ d \in journal' /\ b.order = d.order
        BY <3>1, <3>2 DEF CurrentIs
      <3>4. \A x, y \in journal' : x.order = y.order => x = y
        BY DEF IInv, Tables, Types, JournalTypes
      <3> QED BY <3>1, <3>2, <3>3, <3>4
    <2> QED BY <2>3, <2>5
  <1> QED BY <1>2, <1>3 DEF SameHeld

(* The states of a checkout as far as promotions depend on them.           *)
StateGoes == State' = State \/ (State' # "applying" /\ State # "rolling_back")

LEMMA RegisteredStays ==
    ASSUME IInv, Stays, scenario' = scenario, SameHeld, StateGoes, NEW t, NEW o, RegisteredFor(t, o)
    PROVE  RegisteredFor(t, o)'
  <1> SUFFICES ASSUME o \in Originals PROVE RegisteredFor(t, o)'
    BY SameScenario DEF RegisteredFor
  <1>1. PICK m \in Range(Promote) : m.target = t /\ ((m.source \in DOMAIN links /\ HeldBy(m.source, o)) \/ Returned(t, o))
    BY DEF RegisteredFor
  <1>2. HeldBy(m.source, o) => HeldBy(m.source, o)' /\ m.source \in DOMAIN links'
    BY DEF SameHeld, HeldBy, Away
  <1>3. Returned(t, o) => Returned(t, o)'
    <2> SUFFICES ASSUME Returned(t, o) PROVE Returned(t, o)'
      OBVIOUS
    <2>1. State' = "rolling_back"
      BY DEF Returned, StateGoes
    <2>2. o <= lastId /\ o \in Nat /\ lastId \in Nat
      BY Known
    <2>3. \A q \in DOMAIN tree' : tree'[q].id = o => tree'[q].kind = "File" /\ NotAt(t, q)
      BY <2>2 DEF Returned, Stays
    <2>4. \A s : NotAt(t, s)' <=> NotAt(t, s)
      BY DEF NotAt
    <2>5. \A s \in DOMAIN links' : ~ HeldBy(s, o)'
      BY DEF Returned, SameHeld, HeldBy, Away
    <2> QED BY <2>1, <2>3, <2>4, <2>5 DEF Returned
  <1> QED BY <1>1, <1>2, <1>3, SameScenario DEF RegisteredFor

LEMMA PromotedStays ==
    ASSUME IInv, IInv', Promoted, Stays, scenario' = scenario, Base' => Base, Base' => SameHeld, StateGoes,
           Base' => \A t \in DOMAIN rows' : \E o : o = rows'[t].tempId /\ RegisteredFor(t, o)
    PROVE  Promoted'
  <1>1. Distinct'
    BY DEF Promoted, Distinct, SameHeld
  <1>2. OutOfHiding'
    <2> SUFFICES ASSUME State' = "applying" PROVE OutOfHiding'
      BY DEF OutOfHiding
    <2>1. Base' /\ State = "applying" /\ SameHeld
      BY Known DEF StateGoes, IInv, Tables, Indexed
    <2>2. ASSUME NEW s, NEW q \in DOMAIN tree', HeldBy(s, tree'[q].id) PROVE OutAt(s, q)
      <3>1. tree'[q].id <= lastId /\ tree'[q].id \in Nat /\ lastId \in Nat /\ s \in DOMAIN links
        BY <2>2, HeldIs, Known
      <3> QED BY <2>1, <2>2, <3>1 DEF Promoted, OutOfHiding, Stays
    <2>3. \A s, o, q : HeldBy(s, o)' /\ q \in DOMAIN tree' /\ o = tree'[q].id => OutAt(s, q)
      BY <2>1, <2>2 DEF SameHeld
    <2>4. \A s, q : OutAt(s, q)' <=> OutAt(s, q)
      BY DEF OutAt
    <2>5. \A s, o, q : HeldBy(s, o)' /\ q \in DOMAIN tree' /\ o = tree'[q].id => OutAt(s, q)'
      BY <2>3, <2>4
    <2> QED BY <2>5 DEF OutOfHiding
  <1>3. Registration'
    <2> SUFFICES ASSUME Base' PROVE Registration'
      BY DEF Registration
    <2> SUFFICES ASSUME NEW t \in DOMAIN rows' PROVE RegisteredFor(t, rows[t].tempId)'
      BY DEF Registration
    <2>1. PICK o : o = rows'[t].tempId /\ RegisteredFor(t, o)
      OBVIOUS
    <2>2. RegisteredFor(t, o)'
      BY <2>1, RegisteredStays
    <2> QED BY <2>1, <2>2 DEF RegisteredFor, Returned
  <1> QED BY <1>1, <1>2, <1>3 DEF Promoted

LEMMA RegisteredRows ==
    ASSUME Registration, Base, rows' = rows
    PROVE  \A t \in DOMAIN rows' : \E o : o = rows'[t].tempId /\ RegisteredFor(t, o)
  BY DEF Registration

(***************************************************************************)
(* Contents.  A step brings no content the user has yet to write, and      *)
(* every file it takes away is one that may go.                            *)
(***************************************************************************)
DataFrom == \A q \in DOMAIN tree' : tree'[q].kind = "File" =>
    \/ tree'[q].data \notin Range(EditData)
    \/ \E r \in DOMAIN tree : tree[r].kind = "File" /\ tree'[q].data = tree[r].data
Replaceable(r) == Safe(tree[r].data) /\ (Base => tree[r].id \notin Originals)
KeepsFiles == \A r \in DOMAIN tree : tree[r].kind = "File" /\ ~ IsTemp(r) =>
    \/ \E q \in DOMAIN tree' : /\ tree'[q].kind = "File" /\ ~ IsTemp(q)
                               /\ tree'[q].data = tree[r].data /\ tree'[q].id = tree[r].id
    \/ Replaceable(r)

LEMMA ContentsKept ==
    ASSUME IInv, Still, FutureFree, AllKept, DataFrom, KeepsFiles, Base' => Base
    PROVE  FutureFree' /\ AllKept'
  <1>1. BaseData' = BaseData /\ Future' = Future /\ Originals' = Originals
    BY SafeStays, SameScenario DEF Still
  <1>2. FutureFree'
    <2>1. \A q \in DOMAIN tree' : tree'[q].kind = "File" => tree'[q].data \notin Future
      BY SafeIs DEF DataFrom, FutureFree, Safe
    <2> QED BY <1>1, <2>1 DEF FutureFree, Still
  <1>3. AllKept'
    <2>1. Discarded \subseteq Discarded'
      BY <1>1 DEF Discarded, Base
    <2> SUFFICES ASSUME NEW d \in owed, d \notin adopted, d \notin Discarded PROVE \E p : KeptAt(p, d)'
      BY <2>1 DEF AllKept, Still
    <2>2. PICK r : KeptAt(r, d)
      BY DEF AllKept
    <2>3. r \in DOMAIN tree /\ tree[r].kind = "File" /\ ~ IsTemp(r) /\ tree[r].data = d /\ (d \in BaseData => tree[r].id \in Originals)
      BY <2>2 DEF KeptAt
    <2>4. ~ Replaceable(r)
      <3>1. Safe(d) => d \in BaseData
        BY DEF Safe
      <3>2. d \in BaseData => Base
        BY DEF Discarded, Base
      <3> QED BY <2>3, <3>1, <3>2 DEF Replaceable
    <2>5. PICK q \in DOMAIN tree' : tree'[q].kind = "File" /\ ~ IsTemp(q) /\ tree'[q].data = d /\ tree'[q].id = tree[r].id
      BY <2>3, <2>4 DEF KeepsFiles
    <2>6. KeptAt(q, d)'
      BY <1>1, <2>3, <2>5 DEF KeptAt, IsTemp
    <2> QED BY <2>6
  <1> QED BY <1>2, <1>3

LEMMA ContentsSame ==
    ASSUME IInv, Still, tree' = tree, FutureFree, AllKept, Base' => Base
    PROVE  FutureFree' /\ AllKept'
  <1>1. DataFrom /\ KeepsFiles
    BY DEF DataFrom, KeepsFiles
  <1> QED BY <1>1, ContentsKept

(***************************************************************************)
(* Intents that stay.                                                      *)
(***************************************************************************)
LEMMA FactsGo ==
    ASSUME scenario' = scenario, \A d : Safe(d) => Safe(d)', index' = index, DOMAIN links' = DOMAIN links, StateGoes,
           NEW a, IntentFact(a), a.op = "restore" => State' = State /\ links' = links /\ SameHeld
    PROVE  IntentFact(a)'
  <1>1. RemovalFact(a)'
    BY SameScenario DEF IntentFact, RemovalFact, Base, Foreign
  <1>2. StampFact(a)'
    BY DEF IntentFact, StampFact
  <1>3. PlainFact(a)'
    <2>1. \A x : RecoveryName(x)' = RecoveryName(x) /\ RollbackName(x)' = RollbackName(x)
      BY DEF RecoveryName, RollbackName
    <2>2. Foreign(a)' <=> Foreign(a)
      BY SameScenario DEF Foreign
    <2>3. State # "applying" => State' # "applying"
      BY DEF StateGoes
    <2>4. Installs(a)' <=> Installs(a)
      BY DEF Installs
    <2>5. Captures(a)' <=> Captures(a)
      BY <2>1 DEF Captures
    <2>6. (Uninstalling(a) => Uninstalling(a)') /\ (Uncovers(a) => Uncovers(a)')
      BY <2>1, <2>2, <2>3 DEF Uninstalling, Uncovers
    <2>7. (Base' <=> Base) /\ (Plain(a)' <=> Plain(a))
      BY DEF Base, Plain
    <2> QED BY <2>4, <2>5, <2>6, <2>7 DEF IntentFact, PlainFact
  <1>4. RestoreFact(a)'
    <2> SUFFICES ASSUME a.op = "restore" PROVE RestoreFact(a)'
      BY DEF RestoreFact
    <2>1. Base' /\ State' = "rolling_back" /\ links' = links
      BY DEF IntentFact, RestoreFact, Base
    <2>2. \A s : HiddenAt(s)' = HiddenAt(s)
      BY DEF HiddenAt
    <2>3. \A s \in DOMAIN links : links[s].rollback = a.order => a.target = HiddenAt(s) /\ HeldBy(s, a.id)'
      BY DEF IntentFact, RestoreFact, SameHeld
    <2> QED BY <2>1, <2>2, <2>3 DEF IntentFact, RestoreFact
  <1> QED BY <1>1, <1>2, <1>3, <1>4 DEF IntentFact

LEMMA FactsStay ==
    ASSUME Still, index' = index, DOMAIN links' = DOMAIN links, StateGoes, NEW a, IntentFact(a),
           a.op = "restore" => State' = State /\ links' = links /\ SameHeld
    PROVE  IntentFact(a)'
  BY FactsGo, SafeStays DEF Still

(***************************************************************************)
(* A step of the tables leaves the worktree alone.                         *)
(***************************************************************************)
LEMMA TablesStep ==
    ASSUME IInv, IInv', DInv, Still, UNCHANGED fs, Base' => Base,
           \A a \in journal' : a \in journal \/ CreationFact(a),
           \A t \in DOMAIN rows' : \E r : r = rows'[t] /\ DirectoryFact(t, r),
           Shapes', Promoted', Actions', ActedRestore'
    PROVE  DInv'
  <1>1. tree' = tree /\ lastId' = lastId /\ scenario' = scenario
    BY DEF fs, Still
  <1>2. TempFree'
    BY <1>1, SameScenario DEF TempFree, DInv, Objects1
  <1>3. CreateRows'
    <2>1. \A a : CreationFact(a)' <=> CreationFact(a)
      BY <1>1, SameScenario DEF CreationFact, Creates, CreatedHere, Kept, IsPromotion, IsTemp, KindIs
    <2> QED BY <2>1 DEF CreateRows, DInv, Objects1, CreationFact
  <1>4. DirectoryRows'
    <2>1. \A t, r : DirectoryFact(t, r)' <=> DirectoryFact(t, r)
      BY <1>1, SameScenario DEF DirectoryFact, KindIs
    <2>2. \A t \in DOMAIN rows' : \E r : r = rows'[t] /\ DirectoryFact(t, r)'
      BY <2>1
    <2> QED BY <2>2 DEF DirectoryRows, DirectoryFact
  <1>5. FutureFree' /\ AllKept'
    BY <1>1, ContentsSame DEF DInv, Contents1
  <1> QED BY <1>2, <1>3, <1>4, <1>5 DEF DInv, Objects1, Contents1

LEMMA NoIntents ==
    ASSUME IInv', Intents' = {}
    PROVE  Actions' /\ ActedRestore'
  BY DEF Actions, ActedRestore

LEMMA DirectoriesSame ==
    ASSUME DInv, rows' = rows
    PROVE  \A t \in DOMAIN rows' : \E r : r = rows'[t] /\ DirectoryFact(t, r)
  BY DEF DInv, Objects1, DirectoryRows

(* The database stays as it is.                                            *)
LEMMA QuietStep ==
    ASSUME IInv, IInv', DInv, Still, UNCHANGED <<fs, db>>, run'.acted => run.acted
    PROVE  DInv'
  <1>1. journal' = journal /\ rows' = rows /\ recoveries' = recoveries /\ links' = links /\ pending' = pending /\ index' = index
        /\ Intents' = Intents /\ tree' = tree /\ State' = State /\ (Base' <=> Base)
    BY DEF journal, rows, recoveries, links, pending, index, Intents, fs, State, Base
  <1>2. SameHeld
    BY <1>1 DEF SameHeld, HeldBy, Away, CurrentIs, RestoreIs, IsPromotion
  <1>3. StateGoes
    BY <1>1 DEF StateGoes
  <1>4. Actions'
    BY <1>1, <1>2, <1>3, FactsStay DEF Actions, DInv
  <1>5. ActedRestore'
    BY <1>1 DEF ActedRestore, DInv, IsFile
  <1>6. Stays /\ scenario' = scenario
    BY <1>1 DEF Stays, Still
  <1>7. Promoted'
    BY <1>1, <1>2, <1>3, <1>6, PromotedStays, RegisteredRows DEF DInv, Promoted
  <1>8. Shapes'
    BY <1>1, SafeStays DEF DInv, Contents1
  <1>9. UNCHANGED fs
    BY DEF fs
  <1> QED BY <1>1, <1>4, <1>5, <1>7, <1>8, <1>9, TablesStep, DirectoriesSame

(***************************************************************************)
(* Steps of the tables without intents.                                    *)
(***************************************************************************)
LEMMA Settle ==
    ASSUME IInv, IInv', DInv, Still, UNCHANGED fs, Base' => Base, Intents' = {},
           \A a \in journal' : a \in journal,
           \A t \in DOMAIN rows' : \E r : r = rows'[t] /\ DirectoryFact(t, r),
           Shapes', Promoted'
    PROVE  DInv'
  BY TablesStep, NoIntents

LEMMA TablesAlone ==
    ASSUME journal' = journal, links' = links
    PROVE  SameHeld /\ Intents' = Intents
  BY DEF SameHeld, HeldBy, Away, CurrentIs, RestoreIs, IsPromotion, Intents

LEMMA StaysSame ==
    ASSUME UNCHANGED fs
    PROVE  Stays
  BY DEF fs, Stays

LEMMA RowsStep ==
    ASSUME IInv, IInv', DInv, Still, UNCHANGED fs, Intents = {},
           NEW r, DbIs(journal, pending, r, recoveries, links, index),
           \A t \in DOMAIN r : DirectoryFact(t, r[t]) /\ (Base => RegisteredFor(t, r[t].tempId))
    PROVE  DInv'
  <1>1. journal' = journal /\ rows' = r /\ recoveries' = recoveries /\ links' = links /\ pending' = pending /\ index' = index
    BY DEF DbIs
  <1>2. SameHeld /\ Intents' = {} /\ Stays /\ StateGoes /\ (Base' <=> Base) /\ scenario' = scenario
    BY <1>1, TablesAlone, StaysSame DEF StateGoes, State, Base, Still
  <1>3. Base' => \A t \in DOMAIN rows' : \E o : o = rows'[t].tempId /\ RegisteredFor(t, o)
    BY <1>1, <1>2
  <1>4. Promoted'
    BY <1>2, <1>3, PromotedStays DEF DInv
  <1>5. Shapes'
    BY <1>1, SafeStays DEF DInv, Contents1
  <1>6. \A t \in DOMAIN rows' : \E x : x = rows'[t] /\ DirectoryFact(t, x)
    BY <1>1
  <1> QED BY <1>1, <1>2, <1>4, <1>5, <1>6, Settle

LEMMA RecoveriesStep ==
    ASSUME IInv, IInv', DInv, Still, UNCHANGED fs, Intents = {},
           NEW c, DbIs(journal, pending, rows, c, links, index), \A p \in DOMAIN c : SafeShape(c[p].shape)'
    PROVE  DInv'
  <1>1. journal' = journal /\ rows' = rows /\ recoveries' = c /\ links' = links /\ pending' = pending /\ index' = index
    BY DEF DbIs
  <1>2. SameHeld /\ Intents' = {} /\ Stays /\ StateGoes /\ (Base' <=> Base) /\ scenario' = scenario
    BY <1>1, TablesAlone, StaysSame DEF StateGoes, State, Base, Still
  <1>4. Promoted'
    BY <1>1, <1>2, RegisteredRows, PromotedStays DEF DInv, Promoted
  <1>5. Shapes'
    <2>1. \A p \in DOMAIN recoveries' : SafeShape(c[p].shape)'
      BY <1>1
    <2> QED BY <1>1, <2>1 DEF Shapes, SafeShape
  <1> QED BY <1>1, <1>2, <1>4, <1>5, Settle, DirectoriesSame

LEMMA PendingStep ==
    ASSUME IInv, IInv', DInv, Still, UNCHANGED fs, Intents = {},
           NEW p, DbIs(journal, p, rows, recoveries, links, index), StateGoes
    PROVE  DInv'
  <1>1. journal' = journal /\ rows' = rows /\ recoveries' = recoveries /\ links' = links /\ index' = index
    BY DEF DbIs
  <1>2. SameHeld /\ Intents' = {} /\ Stays /\ (Base' <=> Base) /\ scenario' = scenario
    BY <1>1, TablesAlone, StaysSame DEF Base, Still
  <1>4. Promoted'
    BY <1>1, <1>2, RegisteredRows, PromotedStays DEF DInv, Promoted
  <1>5. Shapes'
    BY <1>1, SafeStays DEF DInv, Contents1
  <1> QED BY <1>1, <1>2, <1>4, <1>5, Settle, DirectoriesSame

(***************************************************************************)
(* Steps that change the process only.                                     *)
(***************************************************************************)
Beside1 == UNCHANGED world /\ UNCHANGED adopted
LEMMA BesideStill == Beside1 => Still /\ scenario' = scenario /\ edits' = edits /\ adopted' = adopted /\ owed' = owed
  BY DEF Beside1, Still, world

Proper == IInv /\ IInv' /\ DInv /\ Still

LEMMA Entering ==
    ASSUME Proper, NEW stage, NEW at, Enter(stage, at)
    PROVE  DInv'
  <1>1. run'.acted = FALSE /\ UNCHANGED <<fs, db>>
    <2>1. "acted" \in DOMAIN run
      BY DEF Proper, IInv, Control, RunTypes
    <2> QED BY <2>1 DEF Enter, Goto, Proper, IInv, Control, RunTypes
  <1> QED BY <1>1, QuietStep DEF Proper

LEMMA Failing ==
    ASSUME Proper, Fail
    PROVE  DInv'
  <1>1. run'.acted = FALSE /\ UNCHANGED <<fs, db>>
    BY DEF Fail, NoRun
  <1> QED BY <1>1, QuietStep DEF Proper

LEMMA QuietActions ==
    ASSUME Proper, \/ Prepared \/ DirectoriesInstalled \/ FilesInstalled \/ Materialized \/ BindScan \/ ScanTarget \/ Recheck
                   \/ Reconciled \/ Uninstalled \/ Restored
    PROVE  DInv'
  BY Entering, Failing DEF Prepared, DirectoriesInstalled, FilesInstalled, Materialized, BindScan, ScanTarget, Recheck,
                   Reconciled, Uninstalled, Restored, Require

LEMMA Starts ==
    ASSUME Proper, Start
    PROVE  DInv'
  <1>1. run'.acted = FALSE /\ UNCHANGED <<fs, db>>
    BY DEF Start, NoRun
  <1> QED BY <1>1, QuietStep DEF Proper

LEMMA Kills ==
    ASSUME IInv, IInv', DInv, Kill
    PROVE  DInv'
  <1>1. run'.acted = FALSE /\ UNCHANGED <<fs, db>> /\ Still
    BY DEF Kill, NoRun, Still
  <1> QED BY <1>1, QuietStep

LEMMA NobodyAway ==
    ASSUME IInv, Intents = {}, \A s \in DOMAIN links : links[s].rollback # None
    PROVE  \A s, o : ~ HeldBy(s, o)
  <1>1. \A a \in journal : a.state # "intent"
    BY DEF Intents
  <1> QED BY <1>1 DEF HeldBy, Away, RestoreIs

(* The checkout's rows go.                                                 *)
LEMMA Clearing ==
    ASSUME Proper, UNCHANGED fs, Intents = {}, NEW j, NEW p, NEW c, NEW l, NEW x, DbIs(j, p, <<>>, c, l, x),
           j \subseteq journal, \A y \in DOMAIN c : y \in DOMAIN recoveries /\ c[y] = recoveries[y],
           x = "base" => Base /\ DOMAIN l = {} /\ p.state # "applying"
    PROVE  DInv'
  <1>1. journal' = j /\ pending' = p /\ rows' = <<>> /\ recoveries' = c /\ links' = l /\ index' = x
    BY DEF DbIs
  <1>2. Intents' = {} /\ DOMAIN rows' = {}
    BY <1>1 DEF Intents
  <1>3. Shapes'
    <2>1. \A y \in DOMAIN c : SafeShape(c[y].shape)'
      BY SafeStays DEF Proper, DInv, Contents1, Shapes
    <2> QED BY <1>1, <2>1 DEF Shapes, SafeShape
  <1>4. Promoted'
    <2>1. ~ Base' => Distinct' /\ Registration' /\ OutOfHiding'
      BY DEF Distinct, Registration, OutOfHiding, Proper, IInv, Tables, Indexed
    <2>2. Base' => Distinct' /\ Registration' /\ OutOfHiding'
      BY <1>1, <1>2 DEF Distinct, Registration, OutOfHiding, HeldBy, Away, Base, State
    <2> QED BY <2>1, <2>2 DEF Promoted
  <1>5. Base' => Base
    BY <1>1 DEF Base
  <1>6. \A a \in journal' : a \in journal
    BY <1>1
  <1>7. \A t \in DOMAIN rows' : \E r : r = rows'[t] /\ DirectoryFact(t, r)
    BY <1>2
  <1> QED BY <1>2, <1>3, <1>4, <1>5, <1>6, <1>7, Settle DEF Proper

LEMMA EndClears ==
    ASSUME Proper, FinalizeCheckout \/ FinishSyncCleanup \/ RunLibraryUnbind
    PROVE  DInv'
  <1>0. IInv /\ DOMAIN db = DbFields
    BY DEF Proper, IInv, Tables, Types, DbFields
  <1>1. CASE FinalizeCheckout
    <2>1. Intents = {} /\ UNCHANGED fs
      BY <1>1, <1>0, AtIs DEF FinalizeCheckout, Fail
    <2>2. Fail \/ db' = [db EXCEPT !.index = "target", !.rows = <<>>, !.pending = NoPending, !.journal = {}]
      BY <1>1 DEF FinalizeCheckout
    <2>3. CASE db' = [db EXCEPT !.index = "target", !.rows = <<>>, !.pending = NoPending, !.journal = {}]
      <3>1. DbIs({}, NoPending, <<>>, recoveries, links, "target")
        BY <1>0, <2>3 DEF DbIs, DbFields, journal, pending, rows, recoveries, links, index
      <3> QED BY <2>1, <3>1, Clearing
    <2> QED BY <2>2, <2>3, Failing
  <1>2. CASE FinishSyncCleanup
    <2>1. Intents = {} /\ ~ Base
      BY <1>2, <1>0, AtIs DEF FinishSyncCleanup, Stages
    <2>2. \/ Enter("unbind", 0)
          \/ db' = [db EXCEPT !.rows = <<>>, !.pending = NoPending, !.journal = Intents] /\ UNCHANGED fs
      BY <1>2 DEF FinishSyncCleanup
    <2>3. CASE db' = [db EXCEPT !.rows = <<>>, !.pending = NoPending, !.journal = Intents] /\ UNCHANGED fs
      <3>1. DbIs({}, NoPending, <<>>, recoveries, links, index)
        BY <1>0, <2>1, <2>3 DEF DbIs, DbFields, journal, pending, rows, recoveries, links, index
      <3> QED BY <2>1, <2>3, <3>1, Clearing DEF Base
    <2> QED BY <2>2, <2>3, Entering
  <1>3. CASE RunLibraryUnbind
    <2>1. Intents = {} /\ UNCHANGED fs /\ db' = [Cleared EXCEPT !.journal = {}, !.index = "gone"]
      BY <1>3, <1>0, AtIs DEF RunLibraryUnbind
    <2>2. DOMAIN Cleared = DbFields /\ DOMAIN db' = DbFields
      BY <1>0, <2>1 DEF DbFields, Cleared
    <2>3. DbIs({}, NoPending, <<>>, <<>>, <<>>, "gone")
      BY <2>1, <2>2 DEF DbIs, DbFields, Cleared, journal, pending, rows, recoveries, links, index
    <2>4. PICK e : e = <<>>
      OBVIOUS
    <2>5. DbIs({}, NoPending, <<>>, e, e, "gone") /\ DOMAIN e = {}
      BY <2>3, <2>4
    <2> QED BY <2>1, <2>5, Clearing
  <1> QED BY <1>1, <1>2, <1>3

LEMMA ClearRollbackDoes ==
    ASSUME Proper, ClearRollback
    PROVE  DInv'
  <1>0. IInv /\ DInv /\ Still /\ IInv'
    BY DEF Proper
  <1>1. At("clear")
    BY DEF ClearRollback
  <1>2. /\ run.stage = "clear" /\ Intents = {} /\ Stages /\ Places /\ Tables /\ Types
    BY <1>0, <1>1, AtIs
  <1>3. TakingBack /\ State # "applying" /\ \A s \in DOMAIN links : links[s].rollback # None
    BY <1>2 DEF TakingBack, BackStages, Stages, Places
  <1>4. run.at = 1 \/ run.at = 2
    BY <1>2 DEF Places
  <1>5. CASE run.at = 1
    <2>1. db' = [db EXCEPT !.journal = {}] /\ UNCHANGED fs
      BY <1>5 DEF ClearRollback, Commit
    <2>2. DbIs({}, pending, rows, recoveries, links, index)
      BY <1>2, <2>1, Transactions
    <2>3. /\ journal' = {} /\ pending' = pending /\ rows' = rows /\ recoveries' = recoveries /\ links' = links /\ index' = index
          /\ State' = State /\ (Base' <=> Base)
      BY <2>2 DEF DbIs, State, Base
    <2>4. Intents' = {}
      BY <2>3 DEF Intents
    <2>5. \A s, o : ~ HeldBy(s, o)
      BY <1>0, <1>2, <1>3, NobodyAway
    <2>6. \A s, o : ~ HeldBy(s, o)'
      BY <2>3 DEF HeldBy, CurrentIs
    <2>7. SameHeld /\ StateGoes /\ Stays
      BY <2>1, <2>3, <2>5, <2>6, StaysSame DEF SameHeld, StateGoes
    <2>8. Promoted'
      BY <1>0, <2>3, <2>7, PromotedStays, RegisteredRows DEF DInv, Promoted, Still
    <2>9. Shapes'
      BY <1>0, <2>3, SafeStays DEF DInv, Contents1
    <2>10. \A a \in journal' : a \in journal
      BY <2>3
    <2> QED BY <1>0, <2>1, <2>3, <2>4, <2>8, <2>9, <2>10, Settle, DirectoriesSame
  <1>6. CASE run.at = 2
    <2>1. Enter("unbind", 0) \/ (db' = Cleared /\ UNCHANGED fs)
      BY <1>6 DEF ClearRollback, Commit
    <2>2. CASE db' = Cleared /\ UNCHANGED fs
      <3>1. DbIs(journal, NoPending, <<>>, <<>>, <<>>, index)
        BY <1>2, <2>2, ClearedIs
      <3>4. PICK e : e = <<>>
        OBVIOUS
      <3>5. DbIs(journal, NoPending, <<>>, e, e, index) /\ DOMAIN e = {} /\ NoPending.state # "applying"
        BY <3>1, <3>4 DEF NoPending
      <3> QED BY <1>2, <2>2, <3>5, Clearing DEF Base
    <2> QED BY <2>1, <2>2, Entering
  <1> QED BY <1>4, <1>5, <1>6

(***************************************************************************)
(* Steps of the pending row.                                               *)
(***************************************************************************)
LEMMA Plans ==
    ASSUME Proper, Intents = {}, State = "none", Plan
    PROVE  DInv'
  <1>0. IInv /\ DInv /\ Still /\ IInv' /\ Types
    BY Known DEF Proper
  <1>1. Fail \/ Planned
    BY DEF Plan, Require, Planned
  <1>2. CASE Planned
    <2> DEFINE p == [NoPending EXCEPT !.state = "pending"]
    <2>1. db' = [db EXCEPT !.pending = p] /\ UNCHANGED fs
      BY <1>2 DEF Planned, Commit
    <2>2. p.state = "pending"
      BY DEF NoPending
    <2> HIDE DEF p
    <2>3. DbIs(journal, p, rows, recoveries, links, index)
      BY <1>0, <2>1, Transactions
    <2>4. StateGoes
      BY <2>2, <2>3 DEF StateGoes, DbIs, State
    <2> QED BY <1>0, <2>1, <2>3, <2>4, PendingStep
  <1> QED BY <1>1, <1>2, Failing

LEMMA Dispatches ==
    ASSUME Proper, PlanSync \/ Dispatch
    PROVE  DInv'
  <1>0. IInv
    BY DEF Proper
  <1>1. CASE PlanSync
    <2>1. Intents = {} /\ State = "none" /\ Plan
      BY <1>0, <1>1, AtIs DEF PlanSync, Stages
    <2> QED BY <2>1, Plans
  <1>2. CASE Dispatch
    <2>1. Intents = {} /\ PendingTypes
      BY <1>0, <1>2, AtIs DEF Dispatch, Types
    <2>2. CASE run.cmd = "bind"
      <3>1. Enter("rows", 0) \/ (pending = NoPending /\ (Fail \/ Planned))
        BY <1>2, <2>2 DEF Dispatch, Require, Planned
      <3>2. CASE pending = NoPending /\ Planned
        <4> DEFINE p == [NoPending EXCEPT !.state = "pending"]
        <4>1. db' = [db EXCEPT !.pending = p] /\ UNCHANGED fs /\ State = "none"
          BY <3>2 DEF Planned, Commit, State, NoPending
        <4>2. p.state = "pending"
          BY DEF NoPending
        <4> HIDE DEF p
        <4>3. DbIs(journal, p, rows, recoveries, links, index)
          BY <1>0, <4>1, Transactions, Known
        <4>4. StateGoes
          BY <4>1, <4>2, <4>3 DEF StateGoes, DbIs, State
        <4> QED BY <2>1, <4>1, <4>3, <4>4, PendingStep DEF Proper
      <3> QED BY <3>1, <3>2, Entering, Failing
    <2>3. CASE run.cmd = "unbind"
      BY <1>2, <2>3, Entering DEF Dispatch
    <2>4. CASE run.cmd \notin {"bind", "unbind"}
      <3>1. (State = "none" /\ Plan) \/ Enter("cleanup", 1) \/ Enter("restore", 1) \/ Enter("rows", 0)
        BY <1>2, <2>4 DEF Dispatch, State
      <3> QED BY <2>1, <3>1, Plans, Entering
    <2> QED BY <2>2, <2>3, <2>4
  <1> QED BY <1>1, <1>2

LEMMA Verifies ==
    ASSUME Proper, VerifyCaptured
    PROVE  DInv'
  <1>0. IInv /\ DInv /\ Still /\ IInv' /\ Types
    BY Known DEF Proper
  <1>1. Intents = {} /\ State = "applying"
    BY <1>0, AtIs DEF VerifyCaptured, Applying, ApplyStages, Stages, BindStages
  <1>2. Enter("scan", 0) \/ (db' = BeginRollback /\ UNCHANGED fs)
    BY DEF VerifyCaptured
  <1>3. CASE db' = BeginRollback /\ UNCHANGED fs
    <2> DEFINE p == [pending EXCEPT !.state = "rolling_back"]
    <2>2. db' = [db EXCEPT !.pending = p]
      BY <1>0, <1>3 DEF BeginRollback, pending, Types
    <2>3. p.state = "rolling_back"
      BY <1>0 DEF Types, PendingTypes
    <2> HIDE DEF p
    <2>5. DbIs(journal, p, rows, recoveries, links, index)
      BY <1>0, <2>2, Transactions
    <2>6. StateGoes
      BY <1>1, <2>3, <2>5 DEF StateGoes, DbIs, State
    <2> QED BY <1>0, <1>1, <1>3, <2>5, <2>6, PendingStep
  <1> QED BY <1>2, <1>3, Entering

LEMMA Finalizes ==
    ASSUME Proper, FinalizeSyncApply
    PROVE  DInv'
  <1>0. IInv /\ DInv /\ Still /\ IInv' /\ Types
    BY Known DEF Proper
  <1>1. Intents = {}
    BY <1>0, AtIs DEF FinalizeSyncApply
  <1>2. Enter("late4", 1) \/ (db' = [db EXCEPT !.index = "target", !.pending.state = "finalized"] /\ UNCHANGED fs)
    BY DEF FinalizeSyncApply, Commit
  <1>3. CASE db' = [db EXCEPT !.index = "target", !.pending.state = "finalized"] /\ UNCHANGED fs
    <2>1. DOMAIN db = DbFields /\ DOMAIN db' = DbFields
      BY <1>0, <1>3 DEF Types, DbFields
    <2>2. DbIs(journal, Final, rows, recoveries, links, "target")
      BY <1>3, <2>1 DEF DbIs, DbFields, Final, journal, pending, rows, recoveries, links, index
    <2>3. journal' = journal /\ rows' = rows /\ recoveries' = recoveries /\ links' = links /\ ~ Base'
      BY <2>2 DEF DbIs, Base
    <2>4. Promoted'
      BY <1>0, <2>3 DEF Promoted, Distinct, OutOfHiding, Registration, IInv, Tables, Indexed
    <2>5. Intents' = {} /\ Shapes'
      BY <1>0, <1>1, <2>3, TablesAlone, SafeStays DEF DInv, Contents1
    <2> QED BY <1>0, <1>3, <2>3, <2>4, <2>5, Settle, DirectoriesSame
  <1> QED BY <1>2, <1>3, Entering

LEMMA BaseDataIs ==
    ASSUME scenario \in Scenarios
    PROVE  \A p \in DOMAIN BaseShape : BaseShape[p].data \notin Range(EditData)
  <1>1. Snapshot(scenario.base)
    BY ScenarioAssumption DEF ScenarioAssumption
  <1>2. \A p \in DOMAIN ShapeOf(scenario.base) : \E i \in 1 .. Len(scenario.base) : scenario.base[i].path = p
    BY <1>1, SnapshotIs
  <1>3. \A i \in 1 .. Len(scenario.base) : /\ scenario.base[i].data \notin Range(EditData)
                                           /\ ShapeOf(scenario.base)[scenario.base[i].path].data = scenario.base[i].data
    BY <1>1, SnapshotIs
  <1> QED BY <1>2, <1>3 DEF BaseShape

(* A path not begun yet.                                                   *)
LEMMA NewPathFacts ==
    ASSUME IInv, NEW t, NEW c
    PROVE  LET r == [NewPath EXCEPT !.create = c] IN DirectoryFact(t, r) /\ RegisteredFor(t, r.tempId)
  <1> DEFINE r == [NewPath EXCEPT !.create = c]
  <1>1. r.tempId = None /\ r.targetId = None
    BY DEF NewPath
  <1> HIDE DEF r
  <1>2. None \notin Originals /\ \A q \in DOMAIN tree : tree[q].id # None
    BY Known
  <1>3. DirectoryFact(t, r)
    BY <1>1, <1>2 DEF DirectoryFact, KindIs
  <1>4. RegisteredFor(t, r.tempId)
    BY <1>1, <1>2 DEF RegisteredFor
  <1> QED BY <1>3, <1>4 DEF r

LEMMA Saves ==
    ASSUME Proper, SaveCheckoutPaths
    PROVE  DInv'
  <1>0. IInv /\ DInv /\ Still /\ IInv' /\ Types
    BY Known DEF Proper
  <1> DEFINE r == [p \in DOMAIN TargetShape |-> IF p \in DOMAIN rows THEN rows[p] ELSE NewPath]
  <1>1. At("rows") /\ UNCHANGED fs
    BY DEF SaveCheckoutPaths, Commit
  <1>2. db' = [db EXCEPT !.rows = r]
    BY DEF SaveCheckoutPaths, Commit, rows
  <1>3. \A p \in DOMAIN r : r[p] = NewPath \/ (p \in DOMAIN rows /\ r[p] = rows[p])
    OBVIOUS
  <1> HIDE DEF r
  <1>4. Intents = {}
    BY <1>0, <1>1, AtIs
  <1>5. DbIs(journal, pending, r, recoveries, links, index)
    BY <1>0, <1>2, Transactions
  <1>6. \A t : DirectoryFact(t, NewPath) /\ RegisteredFor(t, NewPath.tempId)
    <2>1. NewPath.create = None /\ "create" \in DOMAIN NewPath
      BY DEF NewPath
    <2>2. NewPath = [NewPath EXCEPT !.create = None]
      BY <2>1 DEF NewPath
    <2> QED BY <1>0, <2>2, NewPathFacts
  <1>7. \A t \in DOMAIN r : DirectoryFact(t, r[t]) /\ (Base => RegisteredFor(t, r[t].tempId))
    BY <1>0, <1>3, <1>6 DEF DInv, Objects1, DirectoryRows, Promoted, Registration
  <1> QED BY <1>0, <1>1, <1>4, <1>5, <1>7, RowsStep

LEMMA ShapesScanned ==
    ASSUME IInv, FutureFree, Scan(tree, {}, {}) = BaseShape, NEW p, p # <<>>, p \in Path
    PROVE  SafeShape(Shape(tree, p))
  <1>1. scenario \in Scenarios /\ \A q \in DOMAIN tree : q \in Path
    BY Known
  <1> SUFFICES ASSUME NEW x \in DOMAIN Shape(tree, p)
               PROVE  Safe(Shape(tree, p)[x].data)
    BY DEF SafeShape
  <1>2. PICK q \in DOMAIN tree : IsPrefix(p, q) /\ x = Rest(p, q)
    BY DEF Shape, Under
  <1>3. p \o x = q /\ Shape(tree, p)[x].data = tree[q].data
    <2>1. p \o x = q
      BY <1>1, <1>2, RestIs
    <2> QED BY <2>1 DEF Shape
  <1>4. q # <<>>
    BY <1>1, <1>2, PrefixIs DEF Path
  <1>5. q \in DOMAIN Scan(tree, {}, {}) /\ Scan(tree, {}, {})[q].data = tree[q].data
    BY <1>4 DEF Scan
  <1>6. tree[q].data \notin Range(EditData)
    BY <1>1, <1>5, BaseDataIs
  <1> QED BY <1>3, <1>6, SafeIs

LEMMA PlansRecovery ==
    ASSUME Proper, RegisterRecoveryPlan
    PROVE  DInv'
  <1>0. IInv /\ DInv /\ Still /\ IInv' /\ Types
    BY Known DEF Proper
  <1>1. At("register") /\ UNCHANGED fs
    BY DEF RegisterRecoveryPlan, ClearUnstartedCheckout, Commit
  <1>2. Intents = {} /\ Base /\ State = "pending" /\ scenario \in Scenarios
    BY <1>0, <1>1, AtIs DEF Stages
  <1>3. DOMAIN links = {}
    BY <1>0, <1>2 DEF IInv, Tables, Indexed
  <1>4. CASE Scan(tree, {}, {}) # BaseShape
    <2>1. db' = [db EXCEPT !.rows = <<>>, !.pending = NoPending]
      BY <1>4 DEF RegisterRecoveryPlan, ClearUnstartedCheckout
    <2>2. DbIs(journal, NoPending, <<>>, recoveries, links, index)
      BY <1>0, <2>1, Transactions
    <2>3. NoPending.state # "applying"
      BY DEF NoPending
    <2> QED BY <1>1, <1>2, <1>3, <2>2, <2>3, Clearing
  <1>5. CASE Scan(tree, {}, {}) = BaseShape
    <2>1. db' = [db EXCEPT !.recoveries = Capturing, !.pending = ApplyingNow]
      BY <1>5 DEF RegisterRecoveryPlan, Commit, Capturing, ApplyingNow
    <2>2. DbIs(journal, ApplyingNow, rows, Capturing, links, index)
      BY <1>0, <2>1, Transactions
    <2>3. /\ journal' = journal /\ rows' = rows /\ recoveries' = Capturing /\ links' = links /\ (Base' <=> Base)
          /\ State' = "applying"
      BY <2>2 DEF DbIs, Base, State, ApplyingNow
    <2>4. SameHeld /\ Intents' = {} /\ Stays /\ scenario' = scenario
      BY <1>0, <1>1, <1>2, <2>3, TablesAlone, StaysSame DEF Still
    <2>5. \A s, o : ~ HeldBy(s, o)
      BY <1>3 DEF HeldBy, Away
    <2>6. \A t \in DOMAIN rows : rows[t].tempId \notin Originals
      BY <1>0, <1>2, <2>5 DEF DInv, Promoted, Registration, RegisteredFor, Returned
    <2>7. Promoted'
      <3>1. \A s, o : ~ HeldBy(s, o)'
        BY <2>4, <2>5 DEF SameHeld
      <3>2. Distinct' /\ OutOfHiding'
        BY <3>1 DEF Distinct, OutOfHiding
      <3>3. Registration'
        BY <2>3, <2>4, <2>6, SameScenario DEF Registration, RegisteredFor
      <3> QED BY <3>2, <3>3 DEF Promoted
    <2>8. Shapes'
      <3>1. \A p \in DOMAIN Capturing : p \in TopPaths /\ Capturing[p].shape = Shape(tree, p)
        BY DEF Capturing, TopPaths
      <3>2. \A p \in TopPaths : p \in Path /\ p # <<>>
        BY <1>2, TopsAre, VisibleIs
      <3>3. \A p \in DOMAIN Capturing : SafeShape(Capturing[p].shape)
        BY <1>0, <1>5, <3>1, <3>2, ShapesScanned DEF DInv, Contents1
      <3>4. \A p \in DOMAIN recoveries' : \E s : s = recoveries'[p].shape /\ SafeShape(s)'
        <4>1. \A s : SafeShape(s) => SafeShape(s)'
          BY <1>0, SafeStays
        <4> QED BY <2>3, <3>3, <4>1
      <3> QED BY <3>4 DEF Shapes, SafeShape
    <2> QED BY <1>0, <1>1, <2>3, <2>4, <2>7, <2>8, Settle, DirectoriesSame
  <1> QED BY <1>4, <1>5

(***************************************************************************)
(* Steps that write one row of a path.                                     *)
(***************************************************************************)
LEMMA OneRow ==
    ASSUME Proper, UNCHANGED fs, Intents = {}, NEW p \in DOMAIN rows, NEW row, db' = SetRow(p, row),
           DirectoryFact(p, row), Base => RegisteredFor(p, row.tempId)
    PROVE  DInv'
  <1>0. IInv /\ DInv /\ Still /\ IInv' /\ Types
    BY Known DEF Proper
  <1> DEFINE r == [rows EXCEPT ![p] = row]
  <1>1. db' = [db EXCEPT !.rows = r]
    BY <1>0 DEF SetRow, rows, Types
  <1>2. DOMAIN r = DOMAIN rows /\ \A t \in DOMAIN r : IF t = p THEN r[t] = row ELSE r[t] = rows[t]
    OBVIOUS
  <1> HIDE DEF r
  <1>3. DbIs(journal, pending, r, recoveries, links, index)
    BY <1>0, <1>1, Transactions
  <1>4. \A t \in DOMAIN r : DirectoryFact(t, r[t]) /\ (Base => RegisteredFor(t, r[t].tempId))
    BY <1>0, <1>2 DEF DInv, Objects1, DirectoryRows, Promoted, Registration
  <1> QED BY <1>0, <1>3, <1>4, RowsStep

LEMMA AlikeRow ==
    ASSUME Proper, UNCHANGED fs, Intents = {}, NEW p \in DOMAIN rows, NEW row, db' = SetRow(p, row),
           row.tempId = rows[p].tempId, row.targetId = rows[p].targetId
    PROVE  DInv'
  <1>1. DirectoryFact(p, row)
    BY DEF Proper, DInv, Objects1, DirectoryRows, DirectoryFact
  <1>2. Base => RegisteredFor(p, row.tempId)
    BY DEF Proper, DInv, Promoted, Registration
  <1> QED BY <1>1, <1>2, OneRow

LEMMA Resets ==
    ASSUME Proper, Intents = {}, NEW s \in DOMAIN links, PromotedTo(s) \in DOMAIN rows, ResetPromoted(s)
    PROVE  DInv'
  <1> DEFINE t == PromotedTo(s)
             row == [NewPath EXCEPT !.create = rows[t].create]
  <1>1. db' = SetRow(t, row) /\ UNCHANGED fs
    BY DEF ResetPromoted, Commit
  <1>2. DirectoryFact(t, row) /\ RegisteredFor(t, row.tempId)
    BY NewPathFacts DEF Proper
  <1> HIDE DEF t, row
  <1> QED BY <1>1, <1>2, OneRow DEF t

LEMMA KindOf ==
    ASSUME IInv, NEW p \in DOMAIN tree
    PROVE  KindIs(tree[p].id, tree[p].kind)
  BY Known DEF KindIs

LEMMA Registers ==
    ASSUME Proper, Intents = {}, Base, State = "applying", NEW s \in DOMAIN links, NEW t \in DOMAIN rows,
           \E m \in Range(Promote) : m.source = s /\ m.target = t, TargetShape[t].kind = "File",
           Settled(s), CurrentOf(s).target = t, RegisterPromoted(t)
    PROVE  DInv'
  <1>0. IInv /\ DInv /\ Still /\ IInv' /\ Types
    BY Known DEF Proper
  <1> DEFINE r == rows[t]
             id == tree[t].id
             row == [r EXCEPT !.tempId = id, !.targetId = id, !.completed = TRUE]
  <1>1. Next1 \/ (db' = SetRow(t, row) /\ UNCHANGED fs) \/ Fail
    BY DEF RegisterPromoted, Require, Commit
  <1>2. row.tempId = id
    <2>1. PathRowOK(r)
      BY <1>0 DEF Types, RowsTypes
    <2> QED BY <2>1 DEF PathRowOK
  <1> HIDE DEF row, r
  <1>3. links[s].rollback = None /\ Tables
    BY <1>0 DEF IInv, Tables, Linked
  <1>4. HeldBy(s, id)
    <2>1. CurrentIs(s, CurrentOf(s))
      BY <1>3, CurrentRow
    <2>2. CurrentOf(s).id = id
      BY DEF Settled, Holds, HasId
    <2>3. CurrentOf(s) \in journal
      BY <1>3, CurrentRow
    <2> QED BY <1>3, <2>1, <2>2, <2>3 DEF HeldBy, Away
  <1>5. RegisteredFor(t, row.tempId)
    BY <1>2, <1>4 DEF RegisteredFor
  <1>6. DirectoryFact(t, row)
    BY DEF DirectoryFact
  <1> QED BY <1>1, <1>5, <1>6, OneRow, Entering, Failing DEF Next1

LEMMA CreatedIs ==
    ASSUME IInv, DInv, Intents = {}, NEW p \in DOMAIN rows, Created(p) # {}, HasId(tree, TempName(p), CreatedId(p))
    PROVE  CreatedId(p) \notin Originals /\ KindIs(CreatedId(p), TargetShape[p].kind)
  <1>1. PICK a \in Created(p) : CreatedId(p) = a.id
    BY DEF CreatedId
  <1>2. a \in journal /\ a.outcome = "" /\ a.path = TempName(p) /\ RowOK(a) /\ a.state = "completed"
    <2>1. a \in journal /\ a.outcome = "" /\ a.path = TempName(p)
      BY DEF Created
    <2>2. RowOK(a) /\ a.state # "intent"
      BY <2>1, Known
    <2> QED BY <2>1, <2>2 DEF RowOK
  <1>3. VisiblePath(p) /\ rows[p].temp \in Nat /\ scenario \in Scenarios
    <2>1. p \in DOMAIN TargetShape /\ PathRowOK(rows[p]) /\ scenario \in Scenarios
      BY Known
    <2> QED BY <2>1, EntriesAre DEF PathRowOK
  <1>4. IsTemp(a.path)
    BY <1>2, <1>3, TempNameIs
  <1>5. a.op = "create" /\ Creates(a)
    BY <1>2, <1>4 DEF DInv, Objects1, CreateRows, CreationFact, CreatedHere
  <1>6. PICK q \in DOMAIN TargetShape, n \in Nat : a.path = Internal(q, "temp", n) /\ a.kind = TargetShape[q].kind
    BY <1>5 DEF Creates
  <1>7. q = p
    <2>1. Internal(q, "temp", n) = Internal(p, "temp", rows[p].temp)
      BY <1>2, <1>6 DEF TempName
    <2>2. VisiblePath(q)
      BY <1>3, EntriesAre
    <2> QED BY <1>3, <2>1, <2>2, SameInternal DEF InternalForms
  <1>8. a.id # None
    BY <1>1, Known DEF HasId
  <1> QED BY <1>1, <1>5, <1>6, <1>7, <1>8 DEF Creates

LEMMA Identifies ==
    ASSUME Proper, Intents = {}, NEW p \in DOMAIN rows, Created(p) # {}, HasId(tree, TempName(p), CreatedId(p)),
           Tx(SetRow(p, [rows[p] EXCEPT !.tempId = CreatedId(p)]))
    PROVE  DInv'
  <1>0. IInv /\ DInv /\ Still /\ IInv' /\ Types
    BY Known DEF Proper
  <1> DEFINE row == [rows[p] EXCEPT !.tempId = CreatedId(p)]
  <1>1. row.tempId = CreatedId(p) /\ row.targetId = rows[p].targetId
    <2>1. PathRowOK(rows[p])
      BY <1>0 DEF Types, RowsTypes
    <2> QED BY <2>1 DEF PathRowOK
  <1>2. db' = SetRow(p, row) /\ UNCHANGED fs
    BY DEF Tx
  <1> HIDE DEF row
  <1>3. CreatedId(p) \notin Originals /\ KindIs(CreatedId(p), TargetShape[p].kind)
    BY <1>0, CreatedIs
  <1>4. DirectoryFact(p, row)
    BY <1>0, <1>1, <1>3 DEF DirectoryFact, DInv, Objects1, DirectoryRows
  <1>5. RegisteredFor(p, row.tempId)
    BY <1>1, <1>3 DEF RegisteredFor
  <1> QED BY <1>2, <1>4, <1>5, OneRow

LEMMA RegistersTemp ==
    ASSUME Proper, Intents = {}, NEW p \in DOMAIN rows, RegisterTemp(p)
    PROVE  DInv'
  <1>0. Types
    BY Known DEF Proper
  <1>1. PathRowOK(rows[p])
    BY <1>0 DEF Types, RowsTypes
  <1>2. PICK n : db' = SetRow(p, [rows[p] EXCEPT !.temp = n]) /\ UNCHANGED fs
    BY <1>1 DEF RegisterTemp, Tx, PathRowOK
  <1> DEFINE row == [rows[p] EXCEPT !.temp = n]
  <1>3. row.tempId = rows[p].tempId /\ row.targetId = rows[p].targetId
    BY <1>1 DEF PathRowOK
  <1> HIDE DEF row
  <1> QED BY <1>2, <1>3, AlikeRow DEF row

LEMMA Completes1 ==
    ASSUME Proper, Intents = {}, NEW p \in DOMAIN rows, UNCHANGED fs, db' = SetRow(p, [rows[p] EXCEPT !.completed = TRUE])
    PROVE  DInv'
  <1>0. Types
    BY Known DEF Proper
  <1>1. PathRowOK(rows[p])
    BY <1>0 DEF Types, RowsTypes
  <1> DEFINE row == [rows[p] EXCEPT !.completed = TRUE]
  <1>3. row.tempId = rows[p].tempId /\ row.targetId = rows[p].targetId
    BY <1>1 DEF PathRowOK
  <1> HIDE DEF row
  <1> QED BY <1>3, AlikeRow DEF row

LEMMA Records ==
    ASSUME Proper, Intents = {}, NEW p \in DOMAIN rows, Exists(p), tree[p].kind = "Directory", UNCHANGED fs,
           db' = SetRow(p, [rows[p] EXCEPT !.targetId = tree[p].id, !.completed = TRUE])
    PROVE  DInv'
  <1>0. IInv /\ DInv /\ Still /\ IInv' /\ Types
    BY Known DEF Proper
  <1>1. PathRowOK(rows[p])
    BY <1>0 DEF Types, RowsTypes
  <1> DEFINE row == [rows[p] EXCEPT !.targetId = tree[p].id, !.completed = TRUE]
  <1>3. row.tempId = rows[p].tempId /\ row.targetId = tree[p].id
    BY <1>1 DEF PathRowOK
  <1> HIDE DEF row
  <1>4. DirectoryFact(p, row)
    BY <1>0, <1>3, KindOf DEF DirectoryFact, DInv, Objects1, DirectoryRows, Exists
  <1>5. Base => RegisteredFor(p, row.tempId)
    BY <1>0, <1>3 DEF DInv, Promoted, Registration
  <1> QED BY <1>4, <1>5, OneRow DEF row

(***************************************************************************)
(* Steps that add an intent.                                               *)
(***************************************************************************)
LEMMA Noting ==
    ASSUME Proper, Intents = {}, UNCHANGED <<fs, run>>, NEW n, NEW r, NEW l,
           DbIs(journal \cup {n}, pending, r, recoveries, l, index), n.state = "intent", CreationFact(n),
           \A t \in DOMAIN r : DirectoryFact(t, r[t]), IntentFact(n)', Promoted'
    PROVE  DInv'
  <1>0. IInv /\ DInv /\ Still /\ IInv' /\ Types
    BY Known DEF Proper
  <1>1. journal' = journal \cup {n} /\ rows' = r /\ recoveries' = recoveries /\ (Base' <=> Base)
    BY DEF DbIs, Base
  <1>2. Intents' = {n}
    BY <1>1 DEF Intents
  <1>3. Actions'
    BY <1>2 DEF Actions
  <1>4. run.acted = FALSE
    BY <1>0, Idle
  <1>5. ActedRestore'
    BY <1>4 DEF ActedRestore
  <1>6. Shapes'
    BY <1>0, <1>1, SafeStays DEF DInv, Contents1
  <1>7. \A a \in journal' : a \in journal \/ CreationFact(a)
    BY <1>1
  <1>8. \A t \in DOMAIN rows' : \E x : x = rows'[t] /\ DirectoryFact(t, x)
    BY <1>1
  <1> QED BY <1>0, <1>1, <1>3, <1>5, <1>6, <1>7, <1>8, TablesStep

LEMMA Noted ==
    ASSUME Proper, Intents = {}, UNCHANGED <<fs, run>>, NEW n, NEW r,
           DbIs(journal \cup {n}, pending, r, recoveries, links, index), n.state = "intent", n.op # "restore", CreationFact(n),
           DOMAIN r = DOMAIN rows, \A t \in DOMAIN r : r[t].tempId = rows[t].tempId /\ r[t].targetId = rows[t].targetId,
           RemovalFact(n), StampFact(n), PlainFact(n)
    PROVE  DInv'
  <1>0. IInv /\ DInv /\ Still /\ IInv' /\ Types
    BY Known DEF Proper
  <1>1. /\ journal' = journal \cup {n} /\ rows' = r /\ recoveries' = recoveries /\ links' = links /\ index' = index
        /\ pending' = pending /\ (Base' <=> Base) /\ State' = State
    BY DEF DbIs, Base, State
  <1>2. Intents' = {n}
    BY <1>1 DEF Intents
  <1>3. StateGoes /\ Stays /\ scenario' = scenario
    BY <1>0, <1>1, StaysSame DEF StateGoes, Still
  <1>4. IntentFact(n)'
    <2>1. IntentFact(n)
      BY DEF IntentFact, RestoreFact
    <2> QED BY <1>0, <1>1, <1>3, <2>1, FactsStay
  <1>5. Base => SameHeld
    <2>1. \A a \in journal : IsPromotion(a) => \E b \in journal' : IsPromotion(b) /\ b.order = a.order /\ b.id = a.id
      BY <1>1
    <2> QED BY <1>0, <1>1, <1>2, <2>1, HeldSame
  <1>6. Base' => \A t \in DOMAIN rows' : \E o : o = rows'[t].tempId /\ RegisteredFor(t, o)
    BY <1>0, <1>1 DEF DInv, Promoted, Registration
  <1>7. Promoted'
    BY <1>0, <1>1, <1>3, <1>5, <1>6, PromotedStays DEF DInv
  <1>8. \A t \in DOMAIN r : DirectoryFact(t, r[t])
    BY <1>0 DEF DInv, Objects1, DirectoryRows, DirectoryFact
  <1> QED BY <1>4, <1>7, <1>8, Noting

(* The same for a row beside unchanged paths.                              *)
LEMMA Intending ==
    ASSUME Proper, Intents = {}, NEW n, Intend(n), n.state = "intent", n.op # "restore", CreationFact(n),
           RemovalFact(n), StampFact(n), PlainFact(n)
    PROVE  DInv'
  <1>0. Types
    BY Known DEF Proper
  <1>1. db' = [db EXCEPT !.journal = journal \cup {n}] /\ UNCHANGED <<fs, run>>
    BY DEF Intend, Tx, Put
  <1>2. DbIs(journal \cup {n}, pending, rows, recoveries, links, index)
    BY <1>0, <1>1, Transactions
  <1> QED BY <1>1, <1>2, Noted

LEMMA Renames ==
    ASSUME Proper, Intents = {}, NEW phase, NEW p, NEW q, NEW id, JournalRename(phase, p, q, id), p # <<>>,
           Base => \A a : a.phase = phase /\ a.path = p /\ a.target = q /\ a.kind = tree[p].kind /\ a.id = id =>
                       Installs(a) \/ Captures(a) \/ Uninstalling(a) \/ Uncovers(a)
    PROVE  DInv'
  <1> DEFINE n == RenameRow(phase, p, q, id)
  <1>1. Intend(n)
    BY DEF JournalRename, RenameRow
  <1>2. RowIsOf(n, "rename", phase, p, q, tree[p].kind, id, NoShape, NoStamp, None, 0, "")
    BY RowsAre
  <1> HIDE DEF n
  <1>3. n.state = "intent" /\ n.op = "rename" /\ n.shape = NoShape /\ n.origin = None
    BY <1>2 DEF RowIsOf
  <1>4. CreationFact(n)
    BY <1>3 DEF CreationFact, CreatedHere, Creates, Kept, IsPromotion
  <1>5. RemovalFact(n) /\ StampFact(n)
    BY <1>3 DEF RemovalFact, StampFact
  <1>6. PlainFact(n)
    BY <1>2 DEF PlainFact, RowIsOf
  <1> QED BY <1>1, <1>3, <1>4, <1>5, <1>6, Intending

LEMMA Stamping ==
    ASSUME Proper, Intents = {}, NEW phase, NEW p, NEW id, NEW stamp, JournalMtime(phase, p, id, stamp),
           (tree[p].kind = "Directory" /\ ~ IsTemp(p)) \/ (IsTemp(p) /\ stamp \notin Range(EditData))
    PROVE  DInv'
  <1> DEFINE n == MtimeRow(phase, p, id, stamp)
  <1>1. Intend(n)
    BY DEF JournalMtime, MtimeRow
  <1>2. RowIsOf(n, "mtime", phase, p, <<>>, tree[p].kind, id, NoShape, stamp, None, 0, "")
    BY RowsAre
  <1> HIDE DEF n
  <1>3. n.state = "intent" /\ n.op = "mtime" /\ n.shape = NoShape /\ n.origin = None /\ n.path = p /\ n.kind = tree[p].kind
        /\ n.stamp = stamp
    BY <1>2 DEF RowIsOf
  <1>4. CreationFact(n)
    BY <1>3 DEF CreationFact, CreatedHere, Creates, Kept, IsPromotion, IsTemp
  <1>5. RemovalFact(n) /\ StampFact(n) /\ PlainFact(n)
    BY <1>3 DEF RemovalFact, StampFact, PlainFact, Plain
  <1> QED BY <1>1, <1>3, <1>4, <1>5, Intending

LEMMA Removes ==
    ASSUME Proper, Intents = {}, NEW phase, NEW p \in DOMAIN tree, NEW id, JournalRemove(phase, p, id), p # <<>>,
           tree[p].kind = "File" /\ ~ IsTemp(p) => Safe(tree[p].data) /\ (Base => id # None /\ id \notin Originals)
    PROVE  DInv'
  <1>0. Worlds
    BY Known DEF Proper
  <1> DEFINE n == Removal(phase, p, id)
  <1>1. Intend(n)
    BY DEF JournalRemove
  <1>2. RowIsOf(n, "remove", phase, p, <<>>, tree[p].kind, id,
                IF tree[p].kind = "File" THEN Shape(tree, p) ELSE NoShape, NoStamp, None, 0, "")
    BY RowsAre
  <1> HIDE DEF n
  <1>3. n.state = "intent" /\ n.op = "remove" /\ n.origin = None /\ n.path = p /\ n.kind = tree[p].kind /\ n.id = id
        /\ (tree[p].kind = "File" => n.shape = Shape(tree, p))
    BY <1>2 DEF RowIsOf
  <1>4. CreationFact(n)
    BY <1>3 DEF CreationFact, CreatedHere, Creates, Kept, IsPromotion
  <1>5. RemovalFact(n)
    <2>1. Shape(tree, p) # NoShape /\ <<>> \in DOMAIN Shape(tree, p)
          /\ Shape(tree, p)[<<>>] = [kind |-> tree[p].kind, data |-> tree[p].data]
      BY <1>0, ObjectIs
    <2>2. Shape(tree, p)[<<>>].data = tree[p].data
      BY <2>1
    <2> QED BY <1>3, <2>1, <2>2 DEF RemovalFact, Foreign
  <1>6. StampFact(n) /\ PlainFact(n)
    BY <1>3 DEF StampFact, PlainFact, Plain
  <1> QED BY <1>1, <1>3, <1>4, <1>5, <1>6, Intending

LEMMA Creating ==
    ASSUME Proper, Intents = {}, NEW p \in DOMAIN rows, rows[p].temp # 0, JournalCreate(p, TempName(p), TargetShape[p].kind)
    PROVE  DInv'
  <1>0. Types /\ PathRowOK(rows[p]) /\ p \in DOMAIN TargetShape
    BY Known DEF Proper
  <1> DEFINE n == CreateRow(TempName(p), TargetShape[p].kind)
             r == [rows EXCEPT ![p].create = NextOrder]
  <1>1. db' = [db EXCEPT !.journal = journal \cup {n}, !.rows = r] /\ UNCHANGED <<fs, run>>
    BY <1>0 DEF JournalCreate, CreateRow, Tx, Put, rows, Types
  <1>2. RowIsOf(n, "create", "pre_base", TempName(p), <<>>, TargetShape[p].kind, None, NoShape, NoStamp, None, 0, "")
    BY RowsAre
  <1>3. /\ DOMAIN r = DOMAIN rows
        /\ \A t \in DOMAIN r : r[t].tempId = rows[t].tempId /\ r[t].targetId = rows[t].targetId
    BY <1>0 DEF Types, RowsTypes, PathRowOK
  <1> HIDE DEF n, r
  <1>4. DbIs(journal \cup {n}, pending, r, recoveries, links, index)
    BY <1>0, <1>1, Transactions
  <1>5. n.state = "intent" /\ n.op = "create" /\ n.path = TempName(p) /\ n.kind = TargetShape[p].kind /\ n.id = None
    BY <1>2 DEF RowIsOf
  <1>6. CreationFact(n)
    <2>1. rows[p].temp \in Nat
      BY <1>0 DEF PathRowOK
    <2> QED BY <1>0, <1>5, <2>1 DEF CreationFact, CreatedHere, Creates, TempName
  <1>7. RemovalFact(n) /\ StampFact(n) /\ PlainFact(n)
    BY <1>5 DEF RemovalFact, StampFact, PlainFact, Plain
  <1> QED BY <1>1, <1>3, <1>4, <1>5, <1>6, <1>7, Noted

(***************************************************************************)
(* Promotions and their way back.  What the links of other files hold does *)
(* not change.                                                             *)
(***************************************************************************)
LEMMA OthersHeld ==
    ASSUME IInv, IInv', Base, NEW n, journal' = journal \cup {n}, n.order = NextOrder,
           NEW z \in DOMAIN links, z \in DOMAIN links', links'[z] = links[z],
           n.op = "restore" => links[z].rollback # NextOrder
    PROVE  \A o : HeldBy(z, o)' <=> HeldBy(z, o)
  <1>0. JournalTypes /\ Tables
    BY Known DEF Types
  <1>1. n.order \in Nat /\ \A a \in journal : a.order < n.order /\ a.order \in Nat
    <2>1. \A a \in journal : a.order \in Nat
      BY Known DEF RowOK
    <2> QED BY <1>0, <2>1, NextOrderIs
  <1>2. \A a : RestoreIs(z, a)' <=> RestoreIs(z, a)
    BY <1>1 DEF RestoreIs
  <1>3. Away(z)' <=> Away(z)
    BY <1>2 DEF Away
  <1>4. ASSUME Away(z) PROVE \A a : CurrentIs(z, a)' <=> CurrentIs(z, a)
    <2>1. PICK c : CurrentIs(z, c)
      BY <1>0, <1>4 DEF Tables, Linked
    <2>2. links[z].current # n.order
      BY <1>1, <2>1 DEF CurrentIs
    <2> QED BY <2>2 DEF CurrentIs, IsPromotion
  <1>5. ASSUME NEW o PROVE HeldBy(z, o)' <=> HeldBy(z, o)
    BY <1>3, <1>4 DEF HeldBy, CurrentIs, IsPromotion
  <1> QED BY <1>5

LEMMA OneHeld ==
    ASSUME IInv, NEW s, NEW c, Away(s), CurrentIs(s, c)
    PROVE  \A o : HeldBy(s, o) <=> o = c.id
  <1>1. HeldBy(s, c.id)
    BY DEF HeldBy, CurrentIs
  <1> QED BY <1>1, HeldIs

LEMMA PromotionNoted ==
    ASSUME Proper, Intents = {}, UNCHANGED <<fs, run>>, NEW n, NEW l,
           DbIs(journal \cup {n}, pending, rows, recoveries, l, index), n.state = "intent", IsPromotion(n),
           ~ IsTemp(n.path), Promoted'
    PROVE  DInv'
  <1>1. n.op = "rename" /\ n.shape # NoShape
    BY DEF IsPromotion
  <1>2. IntentFact(n)'
    BY <1>1 DEF IntentFact, RemovalFact, StampFact, PlainFact, RestoreFact, Plain
  <1>3. CreationFact(n)
    BY <1>1 DEF CreationFact, CreatedHere, Creates
  <1>4. \A t \in DOMAIN rows : DirectoryFact(t, rows[t])
    BY DEF Proper, DInv, Objects1, DirectoryRows
  <1> QED BY <1>2, <1>3, <1>4, Noting

LEMMA LatePromotes ==
    ASSUME Proper, Intents = {}, Base, State = "applying", NEW s \in DOMAIN links, JournalLatePromotion(s)
    PROVE  DInv'
  <1>0. IInv /\ DInv /\ Still /\ IInv' /\ Types /\ Worlds /\ Tables
    BY Known DEF Proper
  <1> DEFINE c == CurrentOf(s)
             n == NextOfChain(c, c.target, c.id)
             l == [links EXCEPT ![s].current = NextOrder]
  <1>2. links[s].rollback = None
    BY <1>0 DEF Tables, Linked
  <1>3. CurrentIs(s, c) /\ c \in journal /\ IsPromotion(c) /\ RowOK(c) /\ c = Row(links[s].current)
    BY <1>0, <1>2, CurrentRow
  <1> HIDE DEF c
  <1>4. CASE ~ HasId(tree, c.target, c.id)
    <2>1. Fail
      BY <1>3, <1>4 DEF JournalLatePromotion
    <2> QED BY <2>1, Failing
  <1>5. CASE HasId(tree, c.target, c.id)
    <2>1. Tx([db EXCEPT !.journal = Put(n), !.links[s].current = NextOrder])
      BY <1>3, <1>5 DEF JournalLatePromotion, NextOfChain, ChainRow
    <2>2. DOMAIN db = DbFields
      BY <1>0 DEF Types, DbFields
    <2>3. db' = [db EXCEPT !.journal = journal \cup {n}, !.links = l] /\ UNCHANGED <<fs, run>>
      BY <2>1, <2>2 DEF Tx, Put, DbFields, links, fs
    <2>4. LinkOK(links[s])
      BY <1>0 DEF Types, LinksTypes
    <2>6. DOMAIN l = DOMAIN links /\ l[s].current = NextOrder /\ l[s].rollback = None
          /\ \A z \in DOMAIN l : z # s => l[z] = links[z]
      BY <1>2, <2>4 DEF LinkOK
    <2>7. Chained(n, c, c.target, c.id)
      BY <1>0, <1>3, <1>5, NextOfChainOK
    <2> HIDE DEF l, n
    <2>9. DbIs(journal \cup {n}, pending, rows, recoveries, l, index)
      BY <1>0, <2>3, Transactions
    <2>10. /\ n.op = "rename" /\ IsPromotion(n) /\ n.order = NextOrder /\ n.id = c.id /\ n.path = c.target /\ n.state = "intent"
           /\ n.shape # NoShape
      BY <2>7 DEF Chained, IsPromotion
    <2>11. /\ journal' = journal \cup {n} /\ rows' = rows /\ recoveries' = recoveries /\ links' = l /\ index' = index
           /\ State' = State /\ (Base' <=> Base)
      BY <2>9 DEF DbIs, State, Base
    <2>12. ASSUME NEW z, z # s PROVE \A o : HeldBy(z, o)' <=> HeldBy(z, o)
      <3>1. CASE z \in DOMAIN links
        BY <1>0, <2>6, <2>10, <2>11, <2>12, <3>1, OthersHeld
      <3>2. CASE z \notin DOMAIN links
        BY <2>6, <2>11, <3>2 DEF HeldBy, Away
      <3> QED BY <3>1, <3>2
    <2>13. Away(s) /\ Away(s)'
      BY <1>2, <2>6, <2>11 DEF Away
    <2>14. \A o : HeldBy(s, o) <=> o = c.id
      BY <1>0, <1>3, <2>13, OneHeld
    <2>15. \A o : HeldBy(s, o)' <=> o = c.id
      <3>1. \A a : CurrentIs(s, a)' <=> a = n
        <4>1. NextOrder \in Nat /\ \A a \in journal : a.order < NextOrder /\ a.order \in Nat
          <5>1. \A a \in journal : a.order \in Nat
            BY <1>0, Known DEF RowOK
          <5> QED BY <1>0, <5>1, NextOrderIs DEF Types
        <4> QED BY <2>6, <2>10, <2>11, <4>1 DEF CurrentIs, IsPromotion
      <3> QED BY <2>10, <2>11, <2>13, <3>1 DEF HeldBy
    <2>16. SameHeld
      BY <2>12, <2>14, <2>15 DEF SameHeld
    <2>17. StateGoes /\ Stays /\ scenario' = scenario
      BY <1>0, <2>3, <2>11, StaysSame DEF StateGoes, Still
    <2>18. Promoted'
      BY <1>0, <2>11, <2>16, <2>17, RegisteredRows, PromotedStays DEF DInv, Promoted
    <2>19. ~ IsTemp(n.path)
      <3>1. VisiblePath(c.target)
        BY <1>3 DEF RowOK
      <3> QED BY <2>10, <3>1, VisibleIs DEF IsTemp, VisibleForms
    <2> QED BY <2>3, <2>9, <2>10, <2>18, <2>19, PromotionNoted
  <1> QED BY <1>4, <1>5

LEMMA Promotes ==
    ASSUME Proper, Intents = {}, Base, State = "applying", NEW s \in Sources, s \notin DOMAIN links, Exists(HiddenAt(s)),
           tree[HiddenAt(s)].kind = "File", NEW q, VisiblePath(q), JournalPromotion(s, HiddenAt(s), q)
    PROVE  DInv'
  <1>0. IInv /\ DInv /\ Still /\ IInv' /\ Types /\ Worlds /\ Tables /\ scenario \in Scenarios
    BY Known DEF Proper
  <1>1. VisiblePath(s)
    BY <1>0, PromoteAre
  <1> DEFINE p == HiddenAt(s)
             n == PromotionRow(p, q)
             l == Extended(links, s, [current |-> NextOrder, rollback |-> None])
             o == tree[p].id
  <1>2. p \in Path /\ p # <<>> /\ p[1] = <<"recovery", s[1], 0>> /\ p \in DOMAIN tree
    BY <1>1, HiddenAtIs DEF Exists
  <1>3. db' = [db EXCEPT !.journal = journal \cup {n}, !.links = l] /\ UNCHANGED <<fs, run>>
    BY <1>0 DEF JournalPromotion, Tx, Put, PromotionRow, links, fs, Types
  <1>4. RowIsOf(n, "rename", "pre_base", p, q, "File", o, Shape(tree, p), NoStamp, None, 0, "")
    BY RowsAre
  <1>5. Shape(tree, p) # NoShape
    BY <1>0, <1>2, ObjectIs
  <1>6. /\ n.op = "rename" /\ IsPromotion(n) /\ n.order = NextOrder /\ n.id = o /\ n.path = p /\ n.state = "intent"
        /\ n.shape # NoShape
    <2> HIDE DEF n, p, o
    <2> QED BY <1>4, <1>5 DEF RowIsOf, IsPromotion
  <1>7. /\ DOMAIN l = DOMAIN links \cup {s} /\ l[s].current = NextOrder /\ l[s].rollback = None
        /\ \A z \in DOMAIN links : z # s => l[z] = links[z]
    BY DEF Extended
  <1>8. ~ IsTemp(p)
    <2>1. CASE Len(s) = 1
      <3>1. p = RecoveryName(s)
        BY <1>1, <2>1, HiddenAtIs
      <3>2. Last(p)[1] = "recovery"
        BY <1>1, <3>1, InternalIs DEF RecoveryName, InternalForms
      <3> QED BY <3>2 DEF IsTemp
    <2>2. CASE Len(s) # 1
      <3>1. Len(p) = Len(s) /\ Last(p) = p[Len(p)] /\ Len(p) \in Nat \ {0}
        BY <1>1, <1>2, HiddenAtIs, ParentIs
      <3>2. Len(s) \in 2 .. Len(s)
        BY <2>2, <3>1
      <3>3. Last(p) = s[Len(s)]
        BY <1>1, <3>1, <3>2, HiddenAtIs
      <3>4. Last(s) = s[Len(s)] /\ Last(s)[1] \in VisibleForms
        BY <1>1, VisibleIs, ParentIs
      <3> QED BY <3>3, <3>4 DEF IsTemp, VisibleForms
    <2> QED BY <2>1, <2>2
  <1> HIDE DEF p, n, l, o
  <1>9. DbIs(journal \cup {n}, pending, rows, recoveries, l, index)
    BY <1>0, <1>3, Transactions
  <1>10. /\ journal' = journal \cup {n} /\ rows' = rows /\ recoveries' = recoveries /\ links' = l /\ index' = index
         /\ State' = State /\ (Base' <=> Base) /\ tree' = tree /\ scenario' = scenario
    BY <1>0, <1>3, <1>9 DEF DbIs, State, Base, fs, Still
  <1>11. \A z, x : z # s => (HeldBy(z, x)' <=> HeldBy(z, x))
    <2> SUFFICES ASSUME NEW z, z # s PROVE \A x : HeldBy(z, x)' <=> HeldBy(z, x)
      OBVIOUS
    <2>1. CASE z \in DOMAIN links
      BY <1>0, <1>6, <1>7, <1>10, <2>1, OthersHeld
    <2>2. CASE z \notin DOMAIN links
      BY <1>7, <1>10, <2>2 DEF HeldBy, Away
    <2> QED BY <2>1, <2>2
  <1>12. \A x : HeldBy(s, x)' <=> x = o
    <2>1. \A a : CurrentIs(s, a)' <=> a = n
      <3>1. NextOrder \in Nat /\ \A a \in journal : a.order < NextOrder /\ a.order \in Nat
        <4>1. \A a \in journal : a.order \in Nat
          BY <1>0, Known DEF RowOK
        <4> QED BY <1>0, <4>1, NextOrderIs DEF Types
      <3> QED BY <1>6, <1>7, <1>10, <3>1 DEF CurrentIs, IsPromotion
    <2>2. Away(s)'
      BY <1>7, <1>10 DEF Away
    <2> QED BY <1>6, <1>10, <2>1, <2>2 DEF HeldBy
  <1>13. \A z : z # s => ~ HeldBy(z, o)
    <2> SUFFICES ASSUME NEW z, z # s, HeldBy(z, o) PROVE FALSE
      OBVIOUS
    <2>1. z \in DOMAIN links /\ VisiblePath(z)
      BY <1>0, HeldIs, Known
    <2>2. OutAt(z, p)
      BY <1>0, <1>2, <2>1 DEF DInv, Promoted, OutOfHiding, o
    <2>3. p = HiddenAt(z)
      BY <1>2, <2>2 DEF OutAt
    <2> QED BY <1>1, <2>1, <2>3, SameHidden DEF p
  <1>14. Distinct'
    BY <1>0, <1>10, <1>11, <1>12, <1>13 DEF Distinct, DInv, Promoted
  <1>15. OutOfHiding'
    <2> SUFFICES ASSUME NEW z, NEW x \in DOMAIN tree, HeldBy(z, tree[x].id)' PROVE OutAt(z, x)
      BY <1>10 DEF OutOfHiding, OutAt
    <2>1. CASE z = s
      <3>1. tree[x].id = o
        BY <1>10, <1>12, <2>1
      <3>2. x = p
        BY <1>0, <1>2, <3>1, Known DEF o
      <3> QED BY <2>1, <3>2 DEF OutAt, p
    <2>2. CASE z # s
      <3>1. \A i : HeldBy(z, i)' <=> HeldBy(z, i)
        BY <1>11, <2>2
      <3>3. PICK i : i = tree[x].id /\ i = tree'[x].id
        BY <1>10
      <3>4. HeldBy(z, i)'
        BY <3>3
      <3>2. HeldBy(z, tree[x].id) /\ z \in DOMAIN links
        BY <1>0, <3>1, <3>3, <3>4, HeldIs
      <3> QED BY <1>0, <3>2 DEF DInv, Promoted, OutOfHiding
    <2> QED BY <2>1, <2>2
  <1>16. Registration'
    <2> SUFFICES ASSUME NEW t \in DOMAIN rows PROVE \E i : i = rows'[t].tempId /\ RegisteredFor(t, i)'
      <3>1. \A i, t : i = rows'[t].tempId /\ RegisteredFor(t, i)' => RegisteredFor(t, rows[t].tempId)'
        BY DEF RegisteredFor, Returned
      <3> QED BY <1>10, <3>1 DEF Registration
    <2>1. PICK i : i = rows[t].tempId
      OBVIOUS
    <2>2. RegisteredFor(t, i)
      BY <1>0, <2>1 DEF DInv, Promoted, Registration
    <2>3. RegisteredFor(t, i)'
      <3> SUFFICES ASSUME i \in Originals PROVE RegisteredFor(t, i)'
        BY <1>10, SameScenario DEF RegisteredFor
      <3>1. PICK m \in Range(Promote) : m.target = t /\ m.source \in DOMAIN links /\ HeldBy(m.source, i)
        BY <2>2 DEF RegisteredFor, Returned
      <3>2. m.source # s /\ m.source \in DOMAIN links' /\ HeldBy(m.source, i)'
        BY <1>7, <1>10, <1>11, <3>1
      <3> QED BY <1>10, <3>1, <3>2, SameScenario DEF RegisteredFor
    <2> QED BY <1>10, <2>1, <2>3
  <1>17. Promoted'
    BY <1>14, <1>15, <1>16 DEF Promoted
  <1> QED BY <1>3, <1>6, <1>8, <1>9, <1>17, PromotionNoted

LEMMA RestoreNoted ==
    ASSUME Proper, Intents = {}, UNCHANGED <<fs, run>>, NEW n, NEW l, NEW s \in DOMAIN l,
           DbIs(journal \cup {n}, pending, rows, recoveries, l, index), n.state = "intent", n.op = "restore", ~ IsTemp(n.path),
           Base, State = "rolling_back", l[s].rollback = n.order, \A z \in DOMAIN l : z # s => l[z].rollback # n.order,
           n.target = HiddenAt(s), \A o : HeldBy(s, o)' <=> o = n.id, Promoted'
    PROVE  DInv'
  <1>0. HiddenAt(s)' = HiddenAt(s)
    BY DEF HiddenAt, RecoveryName
  <1>1. HeldBy(s, n.id)'
    OBVIOUS
  <1>2. Base' /\ State' = "rolling_back" /\ links' = l
    BY DEF DbIs, State, Base
  <1>3. RestoreFact(n)'
    BY <1>0, <1>1, <1>2 DEF RestoreFact
  <1>4. IntentFact(n)'
    BY <1>3 DEF IntentFact, RemovalFact, StampFact, PlainFact, Plain
  <1>5. CreationFact(n)
    BY DEF CreationFact, CreatedHere, Creates
  <1>6. \A t \in DOMAIN rows : DirectoryFact(t, rows[t])
    BY DEF Proper, DInv, Objects1, DirectoryRows
  <1> QED BY <1>4, <1>5, <1>6, Noting

LEMMA Restores ==
    ASSUME Proper, Intents = {}, Base, State = "rolling_back", NEW s \in DOMAIN links, links[s].rollback = None,
           NEW stamp, JournalRestorePromotion(s, HiddenAt(s), stamp)
    PROVE  DInv'
  <1>0. IInv /\ DInv /\ Still /\ IInv' /\ Types /\ Worlds /\ Tables
    BY Known DEF Proper
  <1> DEFINE c == CurrentOf(s)
             n == RestoreRow(c.target, HiddenAt(s), c.id, stamp)
             l == [links EXCEPT ![s].rollback = NextOrder]
  <1>3. CurrentIs(s, c) /\ c \in journal /\ IsPromotion(c) /\ RowOK(c) /\ c = Row(links[s].current)
    BY <1>0, CurrentRow
  <1> HIDE DEF c
  <1>4. CASE Fail
    BY <1>4, Failing
  <1>5. CASE ~ Fail
    <2>1. Tx([db EXCEPT !.journal = Put(n), !.links[s].rollback = NextOrder])
      BY <1>3, <1>5 DEF JournalRestorePromotion, RestoreRow
    <2>2. DOMAIN db = DbFields
      BY <1>0 DEF Types, DbFields
    <2>3. db' = [db EXCEPT !.journal = journal \cup {n}, !.links = l] /\ UNCHANGED <<fs, run>>
      BY <2>1, <2>2 DEF Tx, Put, DbFields, links, fs
    <2>4. LinkOK(links[s])
      BY <1>0 DEF Types, LinksTypes
    <2>5. RowIsOf(n, "restore", "rollback", c.target, HiddenAt(s), "File", c.id, NoShape, stamp, None, 0, "")
      BY RowsAre
    <2>6. DOMAIN l = DOMAIN links /\ l[s].current = links[s].current /\ l[s].rollback = NextOrder
          /\ \A z \in DOMAIN l : z # s => l[z] = links[z]
      BY <2>4 DEF LinkOK
    <2> HIDE DEF l, n
    <2>9. DbIs(journal \cup {n}, pending, rows, recoveries, l, index)
      BY <1>0, <2>3, Transactions
    <2>10. /\ n.op = "restore" /\ ~ IsPromotion(n) /\ n.order = NextOrder /\ n.id = c.id /\ n.path = c.target /\ n.state = "intent"
           /\ n.target = HiddenAt(s)
      BY <2>5 DEF RowIsOf, IsPromotion
    <2>11. /\ journal' = journal \cup {n} /\ rows' = rows /\ recoveries' = recoveries /\ links' = l /\ index' = index
           /\ State' = State /\ (Base' <=> Base)
      BY <2>9 DEF DbIs, State, Base
    <2>30. NextOrder \in Nat \ {0} /\ \A a \in journal : a.order < NextOrder /\ a.order \in Nat
      <3>1. \A a \in journal : a.order \in Nat
        BY <1>0, Known DEF RowOK
      <3> QED BY <1>0, <3>1, NextOrderIs DEF Types
    <2>31. \A z \in DOMAIN links : links[z].rollback # NextOrder
      <3> SUFFICES ASSUME NEW z \in DOMAIN links, links[z].rollback = NextOrder PROVE FALSE
        OBVIOUS
      <3>1. PICK a : RestoreIs(z, a)
        BY <1>0, <2>30 DEF Tables, Linked, None
      <3> QED BY <2>30, <3>1 DEF RestoreIs
    <2>12. ASSUME NEW z, z # s PROVE \A o : HeldBy(z, o)' <=> HeldBy(z, o)
      <3>1. CASE z \in DOMAIN links
        BY <1>0, <2>6, <2>10, <2>11, <2>12, <2>31, <3>1, OthersHeld
      <3>2. CASE z \notin DOMAIN links
        BY <2>6, <2>11, <3>2 DEF HeldBy, Away
      <3> QED BY <3>1, <3>2
    <2>13. Away(s)
      BY DEF Away
    <2>14. \A o : HeldBy(s, o) <=> o = c.id
      BY <1>0, <1>3, <2>13, OneHeld
    <2>15. \A o : HeldBy(s, o)' <=> o = c.id
      <3>1. \A a : CurrentIs(s, a)' <=> a = c
        <4>1. \A a \in journal : a.order = c.order => a = c
          BY <1>0, <1>3, Known
        <4> QED BY <1>3, <2>6, <2>10, <2>11, <4>1 DEF CurrentIs, IsPromotion
      <3>3. Away(s)'
        <4>1. \E a : RestoreIs(s, a)' /\ a.state = "intent"
          BY <2>6, <2>10, <2>11 DEF RestoreIs
        <4> QED BY <2>6, <2>11, <4>1 DEF Away
      <3> QED BY <2>11, <3>1, <3>3, <1>3 DEF HeldBy
    <2>16. SameHeld
      BY <2>12, <2>14, <2>15 DEF SameHeld
    <2>17. StateGoes /\ Stays /\ scenario' = scenario
      BY <1>0, <2>3, <2>11, StaysSame DEF StateGoes, Still
    <2>18. Promoted'
      BY <1>0, <2>11, <2>16, <2>17, RegisteredRows, PromotedStays DEF DInv, Promoted
    <2>19. ~ IsTemp(n.path)
      <3>1. VisiblePath(c.target)
        BY <1>3 DEF RowOK
      <3> QED BY <2>10, <3>1, VisibleIs DEF IsTemp, VisibleForms
    <2>20. \A o : HeldBy(s, o)' <=> o = n.id
      BY <2>10, <2>15
    <2>21. \A z \in DOMAIN l : z # s => l[z].rollback # n.order
      BY <2>6, <2>10, <2>31
    <2> QED BY <2>3, <2>6, <2>9, <2>10, <2>18, <2>19, <2>20, <2>21, RestoreNoted
  <1> QED BY <1>4, <1>5

LEMMA Nexts ==
    ASSUME Proper, Next1
    PROVE  DInv'
  BY Entering DEF Next1

LEMMA RestorePromotedDoes ==
    ASSUME Proper, RestorePromoted
    PROVE  DInv'
  <1>0. IInv
    BY DEF Proper
  <1> DEFINE s == Promote[run.at].source
  <1>1. At("restore") /\ run.at <= Len(Promote)
    BY DEF RestorePromoted
  <1>2. run.stage = "restore" /\ Intents = {} /\ Stages /\ Tables /\ Types
    BY <1>0, <1>1, AtIs
  <1>3. /\ s \notin DOMAIN links => Next1
        /\ s \in DOMAIN links /\ links[s].rollback # None => Next1
        /\ s \in DOMAIN links /\ links[s].rollback = None =>
               JournalRestorePromotion(s, HiddenAt(s), IF Parent(s) = <<>> THEN NoStamp ELSE BaseShape[Parent(s)].data)
    BY DEF RestorePromoted
  <1> HIDE DEF s
  <1>4. CASE s \in DOMAIN links /\ links[s].rollback = None
    <2>1. index # "target" /\ State \in {"pending", "rolling_back"}
      BY <1>2 DEF Stages
    <2>2. Base /\ State = "rolling_back"
      BY <1>2, <1>4, <2>1 DEF Tables, Indexed, Base, Types, PendingTypes
    <2> QED BY <1>2, <1>3, <1>4, <2>2, Restores
  <1>5. CASE s \notin DOMAIN links \/ links[s].rollback # None
    BY <1>3, <1>5, Nexts
  <1> QED BY <1>4, <1>5

(***************************************************************************)
(* What a captured directory held at first is safe.                        *)
(***************************************************************************)
LEMMA SafeRecoveries ==
    ASSUME Proper, UNCHANGED fs, Intents = {},
           NEW c, DbIs(journal, pending, rows, c, links, index), \A p \in DOMAIN c : SafeShape(c[p].shape)
    PROVE  DInv'
  <1>1. IInv /\ IInv' /\ DInv /\ Still
    BY DEF Proper
  <1>2. \A p \in DOMAIN c : SafeShape(c[p].shape)'
    BY <1>1, SafeStays
  <1> QED BY <1>1, <1>2, RecoveriesStep

LEMMA RestoreMetadataDoes ==
    ASSUME Proper, RestoreMetadata
    PROVE  DInv'
  <1>0. IInv /\ DInv /\ Still /\ IInv' /\ Types /\ Tables /\ scenario \in Scenarios
    BY Known DEF Proper
  <1> DEFINE from == {Top(s) : s \in {x \in DOMAIN links : Len(x) > 1}}
             c == [p \in DOMAIN recoveries |-> IF p \in from THEN [recoveries[p] EXCEPT !.shape = BaseBelow(p)] ELSE recoveries[p]]
  <1>1. At("restore") /\ UNCHANGED fs
    BY DEF RestoreMetadata, Commit
  <1>2. db' = [db EXCEPT !.recoveries = c]
    BY DEF RestoreMetadata, Commit, recoveries
  <1>3. Intents = {}
    BY <1>0, <1>1, AtIs
  <1>4. DOMAIN c = DOMAIN recoveries /\ \A p \in DOMAIN c : c[p].shape = BaseBelow(p) \/ c[p] = recoveries[p]
    <2>1. \A p \in DOMAIN recoveries : RecoveryOK(recoveries[p])
      BY <1>0 DEF Types, RecoveriesTypes
    <2>2. \A r, x : RecoveryOK(r) => [r EXCEPT !.shape = x].shape = x
      BY DEF RecoveryOK
    <2> QED BY <2>1, <2>2
  <1> HIDE DEF c
  <1>5. DbIs(journal, pending, rows, c, links, index)
    BY <1>0, <1>2, Transactions
  <1>6. ASSUME NEW p \in DOMAIN c PROVE SafeShape(c[p].shape)
    <2>1. CASE c[p].shape = BaseBelow(p)
      <3> SUFFICES ASSUME NEW x \in DOMAIN BaseBelow(p) PROVE Safe(BaseBelow(p)[x].data)
        BY <2>1 DEF SafeShape
      <3>1. PICK q \in DOMAIN BaseShape : IsPrefix(p, q) /\ x = Rest(p, q)
        BY DEF BaseBelow
      <3>2. BaseBelow(p)[x] = BaseShape[p \o x]
        BY DEF BaseBelow
      <3>3. p \in Path
        BY <1>0, <1>4, TopsAre, VisibleIs DEF Types, RecoveriesTypes
      <3>4. q \in Path
        <4>1. Snapshot(scenario.base)
          BY <1>0, ScenarioAssumption DEF ScenarioAssumption
        <4>2. \E i \in 1 .. Len(scenario.base) : scenario.base[i].path = q
          BY <4>1, SnapshotIs DEF BaseShape
        <4> QED BY <1>0, <4>2, BaseIs, VisibleIs
      <3>5. p \o x = q
        BY <3>1, <3>3, <3>4, RestIs
      <3>6. BaseShape[q].data \notin Range(EditData)
        BY <1>0, BaseDataIs
      <3> QED BY <1>0, <3>2, <3>5, <3>6, SafeIs DEF DInv, Contents1
    <2>2. CASE c[p] = recoveries[p]
      BY <1>0, <1>4, <2>2 DEF DInv, Contents1, Shapes
    <2> QED BY <1>4, <2>1, <2>2
  <1> QED BY <1>1, <1>3, <1>5, <1>6, SafeRecoveries

(***************************************************************************)
(* A recovery is consumed when nobody is away any more.                    *)
(***************************************************************************)
LEMMA ShapesIn ==
    ASSUME Proper, NEW c, \A y \in DOMAIN c : y \in DOMAIN recoveries /\ c[y] = recoveries[y], recoveries' = c
    PROVE  Shapes'
  <1>1. \A y \in DOMAIN c : SafeShape(c[y].shape)'
    BY SafeStays DEF Proper, DInv, Contents1, Shapes
  <1> QED BY <1>1 DEF Shapes, SafeShape

LEMMA Consumes ==
    ASSUME Proper, Intents = {}, UNCHANGED fs, NEW p, db' = Consumed(p), State # "applying",
           Base => \A s \in DOMAIN links : links[s].rollback # None
    PROVE  DInv'
  <1> DEFINE mine == {s \in DOMAIN links : Top(s) = p}
             owned == {a \in journal : \E s \in mine : RootOf(a) = RootOf(Row(links[s].current)) \/ a.order = links[s].rollback}
             c == Without(recoveries, p)
             j == journal \ owned
             l == [s \in DOMAIN links \ mine |-> links[s]]
  <1>0. IInv /\ DInv /\ Still /\ IInv' /\ Types /\ Tables
    BY Known DEF Proper
  <1>1. db' = [db EXCEPT !.recoveries = c, !.journal = j, !.links = l]
    BY DEF Consumed, recoveries, journal, links
  <1>2. DOMAIN c \subseteq DOMAIN recoveries /\ \A q \in DOMAIN c : c[q] = recoveries[q]
    BY DEF Without
  <1>3. DOMAIN l \subseteq DOMAIN links /\ \A s \in DOMAIN l : l[s] = links[s]
    OBVIOUS
  <1>4. j \subseteq journal
    OBVIOUS
  <1> HIDE DEF c, j, l, mine, owned
  <1>5. DbIs(j, pending, rows, c, l, index)
    BY <1>0, <1>1, Transactions
  <1>6. /\ journal' = j /\ rows' = rows /\ recoveries' = c /\ links' = l /\ index' = index /\ State' = State /\ (Base' <=> Base)
    BY <1>5 DEF DbIs, State, Base
  <1>7. Intents' = {} /\ \A a \in journal' : a.state # "intent" /\ a \in journal
    BY <1>4, <1>6 DEF Intents
  <1>8. Base => SameHeld
    <2> SUFFICES ASSUME Base PROVE SameHeld
      OBVIOUS
    <2>1. \A s, o : ~ HeldBy(s, o)
      BY <1>0, NobodyAway
    <2>2. \A s : ~ Away(s)'
      BY <1>3, <1>6, <1>7 DEF Away, RestoreIs
    <2> QED BY <2>1, <2>2 DEF SameHeld, HeldBy
  <1>9. StateGoes /\ Stays /\ scenario' = scenario
    BY <1>0, <1>6, StaysSame DEF StateGoes, Still
  <1>10. Promoted'
    BY <1>0, <1>6, <1>8, <1>9, RegisteredRows, PromotedStays DEF DInv, Promoted
  <1>11. Shapes'
    BY <1>2, <1>6, ShapesIn
  <1> QED BY <1>0, <1>6, <1>7, <1>10, <1>11, DirectoriesSame, Settle

LEMMA RestoreRecoveryDoes ==
    ASSUME Proper, RestoreRecovery
    PROVE  DInv'
  <1> DEFINE p == Tops[run.at].path
             r == recoveries[p]
             hidden == RecoveryName(p)
  <1>0. IInv /\ At("hidden")
    BY DEF RestoreRecovery, Proper
  <1>2. run.stage = "hidden" /\ Intents = {} /\ Types /\ Stages /\ Places /\ scenario \in Scenarios
    BY <1>0, AtIs
  <1>3. /\ p \notin DOMAIN recoveries => Next1
        /\ p \in DOMAIN recoveries => \/ Commit(Consumed(p), "hidden", run.at + 1)
                                      \/ Fail
                                      \/ JournalRename("rollback", hidden, p, r.id)
    BY DEF RestoreRecovery, Require, Holds
  <1>4. p \in DOMAIN recoveries => VisiblePath(p) /\ Len(p) = 1
    BY <1>2, TopsAre DEF Types, RecoveriesTypes
  <1>5. State # "applying" /\ \A s \in DOMAIN links : links[s].rollback # None
    BY <1>2 DEF Stages, Places, TakingBack, BackStages
  <1> HIDE DEF p, r
  <1>6. CASE Commit(Consumed(p), "hidden", run.at + 1)
    BY <1>2, <1>5, <1>6, Consumes DEF Commit
  <1>7. CASE p \in DOMAIN recoveries /\ JournalRename("rollback", hidden, p, r.id)
    <2>1. hidden # <<>>
      BY <1>4, <1>7, InternalIs DEF RecoveryName, InternalForms
    <2>2. \A a : a.path = hidden /\ a.target = p => Uncovers(a)
      BY <1>4, <1>5, <1>7 DEF Uncovers
    <2> HIDE DEF hidden
    <2> QED BY <1>2, <1>7, <2>1, <2>2, Renames
  <1> QED BY <1>3, <1>6, <1>7, Failing, Nexts

(***************************************************************************)
(* What is cleaned up after the Sync Base moved is safe.                   *)
(***************************************************************************)
LEMMA UnderShape ==
    ASSUME Worlds, NEW t \in DOMAIN tree, SafeShape(Shape(tree, t)), NEW q \in Under(tree, t), tree[q].kind = "File"
    PROVE  Safe(tree[q].data)
  <1>1. t \in Path /\ q \in Path /\ IsPrefix(t, q) /\ q \in DOMAIN tree
    BY ObjectIs DEF Under
  <1>2. t \o Rest(t, q) = q
    BY <1>1, RestIs
  <1>3. Rest(t, q) \in DOMAIN Shape(tree, t) /\ Shape(tree, t)[Rest(t, q)] = [kind |-> tree[q].kind, data |-> tree[q].data]
    BY <1>2 DEF Shape
  <1> QED BY <1>3 DEF SafeShape

LEMMA PlansRemoval ==
    ASSUME Proper, Intents = {}, ~ Base, NEW p, VisiblePath(p), Tx(RemovalPlan(p)), Exists(TombstoneName(p)),
           SafeShape(Shape(tree, TombstoneName(p)))
    PROVE  DInv'
  <1>0. IInv /\ DInv /\ Still /\ IInv' /\ Types /\ Tables /\ Worlds /\ scenario' = scenario
    BY Known DEF Proper, Still
  <1>1. db' = RemovalPlan(p) /\ run' = run /\ UNCHANGED fs /\ lastId' = lastId
    BY DEF Tx, fs
  <1>2. /\ pending' = pending /\ rows' = rows /\ recoveries' = recoveries /\ links' = links /\ index' = index
        /\ \A a \in Intents' : \E q \in Under(tree, TombstoneName(p)), i \in Nat \ {0} : a = PlannedRow(q, i)
    BY <1>0, <1>1, RemovalPlanned
  <1>3. State' = State /\ (Base' <=> Base) /\ State # "applying"
    BY <1>0, <1>2 DEF State, Base, Tables, Indexed
  <1>4. ASSUME NEW q \in Under(tree, TombstoneName(p)), NEW i \in Nat \ {0}, NEW n, n = PlannedRow(q, i)
        PROVE  IntentFact(n)' /\ CreationFact(n)
    <2>1. TombstoneName(p) \in Path /\ TombstoneName(p) # <<>>
      BY InternalIs DEF TombstoneName, InternalForms
    <2>2. q \in DOMAIN tree /\ q # <<>>
      <3>1. q \in DOMAIN tree /\ IsPrefix(TombstoneName(p), q)
        BY DEF Under
      <3>2. q \in Path
        BY <1>0, <3>1, ObjectIs
      <3> HIDE DEF TombstoneName
      <3>3. Len(TombstoneName(p)) # 0 /\ Len(TombstoneName(p)) \in Nat /\ Len(q) \in Nat /\ Len(TombstoneName(p)) <= Len(q)
        BY <2>1, <3>1, <3>2, PrefixIs DEF Path
      <3> QED BY <3>1, <3>3
    <2>3. /\ n.op = "remove" /\ n.state = "intent" /\ n.kind = tree[q].kind /\ n.origin = None /\ ~ IsPromotion(n)
          /\ n.shape = IF tree[q].kind = "File" THEN Shape(tree, q) ELSE NoShape
      BY <1>0, <1>4, <2>2, PlannedRowOK DEF Types
    <2>4. CreationFact(n)
      BY <2>3 DEF CreationFact, CreatedHere, Creates, Kept, None
    <2>5. tree[q].kind = "File" => Shape(tree, q) # NoShape /\ <<>> \in DOMAIN Shape(tree, q) /\ Safe(Shape(tree, q)[<<>>].data)
      <3>1. tree[q].kind = "File" => Safe(tree[q].data)
        BY <1>0, UnderShape DEF Exists
      <3>2. Shape(tree, q) # NoShape /\ <<>> \in DOMAIN Shape(tree, q)
            /\ Shape(tree, q)[<<>>] = [kind |-> tree[q].kind, data |-> tree[q].data]
        BY <1>0, <2>2, ObjectIs
      <3>3. Shape(tree, q)[<<>>].data = tree[q].data
        BY <3>2
      <3> QED BY <3>1, <3>2, <3>3
    <2>6. \A d : Safe(d) => Safe(d)'
      BY <1>0, SafeStays
    <2>7. n.op = "remove" /\ n.kind = "File" => n.shape # NoShape /\ <<>> \in DOMAIN n.shape /\ Safe(n.shape[<<>>].data)'
      BY <2>3, <2>5, <2>6
    <2>8. RemovalFact(n)'
      BY <1>3, <2>7 DEF RemovalFact
    <2>9. IntentFact(n)'
      BY <1>3, <2>3, <2>8 DEF IntentFact, StampFact, PlainFact, RestoreFact
    <2> QED BY <2>4, <2>9
  <1>5. Actions'
    <2> SUFFICES ASSUME NEW a \in Intents' PROVE IntentFact(a)'
      BY DEF Actions
    <2> QED BY <1>2, <1>4
  <1>6. \A a \in journal' : a \in journal \/ CreationFact(a)
    <2> SUFFICES ASSUME NEW a \in journal', a \notin journal PROVE CreationFact(a)
      OBVIOUS
    <2>1. a.state = "intent"
      <3>1. DOMAIN db = DbFields
        BY <1>0 DEF Types, DbFields
      <3>2. \E r : a = [r EXCEPT !.order = a.order] /\ \E q : r = Removal("post_base", q, tree[q].id)
        BY <1>1, <3>1 DEF RemovalPlan, journal, DbFields
      <3>3. PICK r, q : a = [r EXCEPT !.order = a.order] /\ r = Removal("post_base", q, tree[q].id)
        BY <3>2
      <3>4. DOMAIN r = RowFields /\ r.state = "intent"
        <4>1. DOMAIN Removal("post_base", q, tree[q].id) = RowFields /\ Removal("post_base", q, tree[q].id).state = "intent"
          <5>1. RowIsOf(Removal("post_base", q, tree[q].id), "remove", "post_base", q, <<>>, tree[q].kind, tree[q].id,
                        IF tree[q].kind = "File" THEN Shape(tree, q) ELSE NoShape, NoStamp, None, 0, "")
            BY RowsAre
          <5> QED BY <5>1 DEF RowIsOf
        <4> QED BY <3>3, <4>1
      <3> QED BY <3>3, <3>4 DEF RowFields
    <2>2. a \in Intents'
      BY <2>1 DEF Intents
    <2> QED BY <1>2, <1>4, <2>2
  <1>7. Promoted'
    BY <1>3 DEF Promoted, Distinct, OutOfHiding, Registration
  <1>8. ActedRestore'
    BY <1>0, <1>1, Idle DEF ActedRestore
  <1>9. Shapes'
    BY <1>2, ShapesIn
  <1> QED BY <1>0, <1>1, <1>2, <1>3, <1>5, <1>6, <1>7, <1>8, <1>9, DirectoriesSame, TablesStep

LEMMA CleanupRecoveryDoes ==
    ASSUME Proper, CleanupRecovery
    PROVE  DInv'
  <1> DEFINE p == Tops[run.at].path
             r == recoveries[p]
  <1>0. IInv /\ DInv /\ At("cleanup")
    BY DEF CleanupRecovery, Proper
  <1>1. /\ Intents = {} /\ Types /\ Tables /\ Worlds /\ scenario \in Scenarios /\ ~ Base /\ State # "applying"
    BY <1>0, AtIs DEF Stages, Tables, Indexed
  <1>2. /\ p \notin DOMAIN recoveries => Next1
        /\ p \in DOMAIN recoveries =>
               \/ Commit(Consumed(p), "cleanup", run.at + 1)
               \/ Fail
               \/ Tx([db EXCEPT !.recoveries[p].tombstone = TRUE])
               \/ JournalRename("post_base", RecoveryName(p), TombstoneName(p), r.id)
               \/ Holds(tree, TombstoneName(p), r.id, r.shape) /\ Tx(RemovalPlan(p))
               \/ Holds(tree, TombstoneName(p), r.id, r.shape) /\ JournalRemove("post_base", TombstoneName(p), r.id)
    BY DEF CleanupRecovery, Require
  <1>3. p \in DOMAIN recoveries => VisiblePath(p) /\ RecoveryOK(r) /\ SafeShape(r.shape)
    BY <1>0, <1>1, TopsAre DEF Types, RecoveriesTypes, DInv, Contents1, Shapes
  <1> HIDE DEF p, r
  <1>4. CASE Commit(Consumed(p), "cleanup", run.at + 1)
    BY <1>1, <1>4, Consumes DEF Commit
  <1>5. CASE p \in DOMAIN recoveries /\ Tx([db EXCEPT !.recoveries[p].tombstone = TRUE])
    <2> DEFINE c == [recoveries EXCEPT ![p].tombstone = TRUE]
    <2>1. db' = [db EXCEPT !.recoveries = c] /\ UNCHANGED fs
      BY <1>1, <1>5 DEF Tx, recoveries, Types
    <2>2. \A q \in DOMAIN c : q \in DOMAIN recoveries /\ c[q] = IF q = p THEN [r EXCEPT !.tombstone = TRUE] ELSE recoveries[q]
      BY <1>5 DEF r
    <2> HIDE DEF c
    <2>3. \A q \in DOMAIN c : SafeShape(c[q].shape)
      BY <1>0, <1>3, <1>5, <2>2 DEF DInv, Contents1, Shapes, RecoveryOK
    <2>4. DbIs(journal, pending, rows, c, links, index)
      BY <1>1, <2>1, Transactions
    <2> QED BY <1>1, <2>1, <2>3, <2>4, SafeRecoveries
  <1>6. CASE p \in DOMAIN recoveries /\ JournalRename("post_base", RecoveryName(p), TombstoneName(p), r.id)
    <2>1. RecoveryName(p) # <<>>
      BY <1>3, <1>6, InternalIs DEF RecoveryName, InternalForms
    <2> QED BY <1>1, <1>6, <2>1, Renames
  <1>7. CASE p \in DOMAIN recoveries /\ Holds(tree, TombstoneName(p), r.id, r.shape) /\ Tx(RemovalPlan(p))
    <2>1. Exists(TombstoneName(p)) /\ SafeShape(Shape(tree, TombstoneName(p)))
      BY <1>3, <1>7 DEF Holds, HasId, Exists
    <2> QED BY <1>1, <1>3, <1>7, <2>1, PlansRemoval
  <1>8. CASE p \in DOMAIN recoveries /\ Holds(tree, TombstoneName(p), r.id, r.shape) /\ JournalRemove("post_base", TombstoneName(p), r.id)
    <2>1. TombstoneName(p) \in DOMAIN tree /\ SafeShape(Shape(tree, TombstoneName(p)))
      BY <1>3, <1>8 DEF Holds, HasId
    <2>2. TombstoneName(p) # <<>> /\ TombstoneName(p) \in Path
      BY <1>3, <1>8, InternalIs DEF TombstoneName, InternalForms
    <2> HIDE DEF TombstoneName
    <2>3. TombstoneName(p) \in Under(tree, TombstoneName(p))
      BY <2>1, <2>2, PrefixOrder DEF Under
    <2>4. tree[TombstoneName(p)].kind = "File" => Safe(tree[TombstoneName(p)].data)
      BY <1>1, <2>1, <2>3, UnderShape
    <2> QED BY <1>1, <1>8, <2>1, <2>2, <2>4, Removes
  <1> QED BY <1>2, <1>4, <1>5, <1>6, <1>7, <1>8, Failing, Nexts

LEMMA InstalledForeign ==
    ASSUME IInv, DInv, Intents = {}, \A s \in DOMAIN links : links[s].rollback # None, NEW p \in DOMAIN rows,
           NEW at, at \in {p, RollbackName(p)}, Unchanged(p, at), tree[at].kind = "File"
    PROVE  Safe(tree[at].data) /\ InstalledId(p) # None /\ (Base => InstalledId(p) \notin Originals)
  <1>0. Types /\ Worlds /\ scenario \in Scenarios
    BY Known
  <1>1. at \in DOMAIN tree /\ tree[at].id = InstalledId(p)
    BY DEF Unchanged, HasId
  <1>2. VisiblePath(p) /\ TargetShape[p].kind \in Kinds /\ TargetShape[p].data \notin Range(EditData)
    BY <1>0, EntriesAre DEF Types, RowsTypes
  <1>3. TargetShape[p].kind = "File"
    <2> SUFFICES ASSUME TargetShape[p].kind = "Directory" PROVE FALSE
      BY <1>2 DEF Kinds
    <2>1. KindIs(rows[p].tempId, "Directory") /\ KindIs(rows[p].targetId, "Directory")
      BY DEF DInv, Objects1, DirectoryRows, DirectoryFact
    <2>2. InstalledId(p) \in {rows[p].tempId, rows[p].targetId}
      BY DEF InstalledId
    <2> QED BY <1>1, <2>1, <2>2 DEF KindIs
  <1>4. InstalledId(p) = rows[p].tempId
    BY <1>3 DEF InstalledId
  <1>5. InstalledId(p) # None
    BY <1>0, <1>1, ObjectIs
  <1>6. Safe(tree[at].data)
    <2>1. Shape(tree, at) = FileShape(TargetShape[p].data)
      BY <1>3 DEF Unchanged
    <2>2. Shape(tree, at)[<<>>] = [kind |-> tree[at].kind, data |-> tree[at].data]
      BY <1>0, <1>1, ObjectIs
    <2>3. FileShape(TargetShape[p].data)[<<>>] = [kind |-> "File", data |-> TargetShape[p].data]
      BY DEF FileShape
    <2>4. tree[at].data = TargetShape[p].data
      BY <2>1, <2>2, <2>3
    <2> QED BY <1>2, <2>4, SafeIs DEF DInv, Contents1
  <1>7. ASSUME Base, rows[p].tempId \in Originals PROVE FALSE
    <2>1. \A s, o : ~ HeldBy(s, o)
      BY NobodyAway
    <2>2. RegisteredFor(p, rows[p].tempId)
      BY <1>7 DEF DInv, Promoted, Registration
    <2>3. Returned(p, rows[p].tempId)
      BY <1>7, <2>1, <2>2 DEF RegisteredFor
    <2>4. NotAt(p, at)
      BY <1>1, <1>4, <2>3 DEF Returned
    <2>5. CASE at = p
      <3>1. p[1][1] # "recovery"
        <4>1. p[1] \in VisibleLeaf
          BY <1>2, VisibleIs
        <4> QED BY <4>1 DEF VisibleLeaf, VisibleForms
      <3> QED BY <2>4, <2>5, <3>1 DEF NotAt, Unseen
    <2>6. CASE at = RollbackName(p)
      <3>1. RollbackName(p)[1][1] # "recovery"
        BY <1>2, RollbackIs
      <3> QED BY <2>4, <2>6, <3>1 DEF NotAt, Unseen
    <2> QED BY <2>5, <2>6
  <1> QED BY <1>4, <1>5, <1>6, <1>7

LEMMA UninstallPathDoes ==
    ASSUME Proper, UninstallPath
    PROVE  DInv'
  <1> DEFINE p == Uninstalls[run.at].path
  <1>0. IInv /\ IInv' /\ DInv /\ Still /\ At("uninstall")
    BY DEF UninstallPath, Proper
  <1>1. /\ run.stage = "uninstall" /\ Intents = {} /\ Types /\ Stages /\ Places /\ Worlds /\ scenario \in Scenarios
    BY <1>0, AtIs
  <1>2. State # "applying" /\ \A s \in DOMAIN links : links[s].rollback # None
    BY <1>1 DEF Stages, Places, TakingBack, BackStages
  <1>3. /\ p \notin DOMAIN rows => Next1
        /\ p \in DOMAIN rows =>
               \/ Next1
               \/ Fail
               \/ Commit([db EXCEPT !.rows = Without(@, p)], "uninstall", run.at + 1)
               \/ Unchanged(p, RollbackName(p)) /\ JournalRemove("rollback", RollbackName(p), InstalledId(p))
               \/ Tx(SetRow(p, [rows[p] EXCEPT !.tombstone = TRUE]))
               \/ Unchanged(p, p) /\ JournalRename("rollback", p, RollbackName(p), InstalledId(p))
    BY DEF UninstallPath, Require, ForgetPath
  <1>4. p \in DOMAIN rows => VisiblePath(p) /\ PathRowOK(rows[p]) /\ p # <<>> /\ RollbackName(p) # <<>>
    <2> SUFFICES ASSUME p \in DOMAIN rows PROVE VisiblePath(p) /\ PathRowOK(rows[p]) /\ p # <<>> /\ RollbackName(p) # <<>>
      OBVIOUS
    <2>1. VisiblePath(p) /\ PathRowOK(rows[p])
      BY <1>1, EntriesAre DEF Types, RowsTypes
    <2> HIDE DEF p
    <2> QED BY <2>1, VisibleIs, RollbackIs
  <1> HIDE DEF p
  <1>5. CASE p \in DOMAIN rows /\ Commit([db EXCEPT !.rows = Without(@, p)], "uninstall", run.at + 1)
    <2> DEFINE r == Without(rows, p)
    <2>1. db' = [db EXCEPT !.rows = r] /\ UNCHANGED fs
      BY <1>5 DEF Commit, rows
    <2>2. \A q \in DOMAIN r : q \in DOMAIN rows /\ r[q] = rows[q]
      BY DEF Without
    <2> HIDE DEF r
    <2>3. DbIs(journal, pending, r, recoveries, links, index)
      BY <1>1, <2>1, Transactions
    <2>4. \A t \in DOMAIN r : DirectoryFact(t, r[t]) /\ (Base => RegisteredFor(t, r[t].tempId))
      BY <1>0, <2>2 DEF DInv, Objects1, DirectoryRows, Promoted, Registration
    <2> QED BY <1>0, <1>1, <2>1, <2>3, <2>4, RowsStep
  <1>6. CASE p \in DOMAIN rows /\ Tx(SetRow(p, [rows[p] EXCEPT !.tombstone = TRUE]))
    <2>1. PICK row : row = [rows[p] EXCEPT !.tombstone = TRUE]
      OBVIOUS
    <2>2. row.tempId = rows[p].tempId /\ row.targetId = rows[p].targetId
      BY <1>4, <1>6, <2>1 DEF PathRowOK
    <2>3. db' = SetRow(p, row) /\ UNCHANGED fs
      BY <1>6, <2>1 DEF Tx
    <2> QED BY <1>1, <1>6, <2>2, <2>3, AlikeRow
  <1>7. CASE p \in DOMAIN rows /\ Unchanged(p, p) /\ JournalRename("rollback", p, RollbackName(p), InstalledId(p))
    <2>1. Base /\ tree[p].kind = "File" => InstalledId(p) # None /\ InstalledId(p) \notin Originals
      BY <1>0, <1>1, <1>2, <1>7, InstalledForeign
    <2>2. Base => \A a : a.phase = "rollback" /\ a.path = p /\ a.target = RollbackName(p) /\ a.kind = tree[p].kind /\ a.id = InstalledId(p)
                      => Uninstalling(a)
      BY <1>2, <1>4, <1>7, <2>1 DEF Uninstalling, Foreign
    <2> QED BY <1>1, <1>4, <1>7, <2>2, Renames
  <1>8. CASE p \in DOMAIN rows /\ Unchanged(p, RollbackName(p)) /\ JournalRemove("rollback", RollbackName(p), InstalledId(p))
    <2>1. RollbackName(p) \in DOMAIN tree
      BY <1>8 DEF Unchanged, HasId
    <2>2. tree[RollbackName(p)].kind = "File" =>
              Safe(tree[RollbackName(p)].data) /\ (Base => InstalledId(p) # None /\ InstalledId(p) \notin Originals)
      BY <1>0, <1>1, <1>2, <1>8, InstalledForeign
    <2> QED BY <1>1, <1>4, <1>8, <2>1, <2>2, Removes
  <1> QED BY <1>3, <1>5, <1>6, <1>7, <1>8, Failing, Nexts

(***************************************************************************)
(* Times of directories, and the temporaries that are left.                *)
(***************************************************************************)
LEMMA RestoreRootMtimeDoes ==
    ASSUME Proper, RestoreRootMtime
    PROVE  DInv'
  <1>0. IInv /\ At("root")
    BY DEF RestoreRootMtime, Proper
  <1>1. Intents = {} /\ Worlds
    BY <1>0, AtIs
  <1>2. Enter("clear", 1) \/ Fail \/ JournalMtime("rollback", <<>>, tree[<<>>].id, pending.stamp)
    BY DEF RestoreRootMtime, Require
  <1>3. tree[<<>>].kind = "Directory" /\ ~ IsTemp(<<>>)
    BY <1>1 DEF Worlds, WellFormed, IsDir, IsTemp
  <1>4. CASE JournalMtime("rollback", <<>>, tree[<<>>].id, pending.stamp)
    BY <1>1, <1>3, <1>4, Stamping
  <1> QED BY <1>2, <1>4, Entering, Failing

LEMMA SetDirectoryMtimeDoes ==
    ASSUME Proper, SetDirectoryMtime
    PROVE  DInv'
  <1> DEFINE p == Entries[run.at].path
  <1>0. IInv /\ DInv /\ At("mtimes") /\ run.at > 0
    BY DEF SetDirectoryMtime, Proper
  <1>1. Intents = {} /\ Worlds /\ Stages /\ Places /\ run.stage = "mtimes" /\ run.at \in Nat /\ scenario \in Scenarios /\ Types
        /\ run.at + 1 \in Nat
    BY <1>0, AtIs
  <1>2. \/ Enter("mtimes", LastItem("Directory", run.at - 1))
        \/ Fail
        \/ HasId(tree, p, rows[p].targetId) /\ JournalMtime("pre_base", p, tree[p].id, Entries[run.at].data)
    BY DEF SetDirectoryMtime, Require
  <1>3. VisiblePath(p) /\ TargetShape[p].kind = "Directory" /\ p \in DOMAIN rows
    <2>1. run.at \in 1 .. Len(Entries) /\ Entries[run.at].kind = "Directory" /\ DOMAIN rows = DOMAIN TargetShape
      BY <1>0, <1>1, EntriesAre DEF Places, ApplyStages
    <2> QED BY <1>1, <2>1, EntriesAre
  <1> HIDE DEF p
  <1>4. CASE HasId(tree, p, rows[p].targetId) /\ JournalMtime("pre_base", p, tree[p].id, Entries[run.at].data)
    <2>1. tree[p].kind = "Directory"
      BY <1>0, <1>3, <1>4 DEF HasId, DInv, Objects1, DirectoryRows, DirectoryFact, KindIs
    <2>2. ~ IsTemp(p)
      BY <1>3, VisibleIs DEF IsTemp, VisibleForms
    <2> QED BY <1>1, <1>4, <2>1, <2>2, Stamping
  <1> QED BY <1>2, <1>4, Entering, Failing

LEMMA CleanupTempsDoes ==
    ASSUME Proper, CleanupTemps
    PROVE  DInv'
  <1> DEFINE named == {p \in DOMAIN rows : rows[p].temp # 0}
             left == {p \in named : Exists(TempName(p))}
             p == CHOOSE q \in left : TRUE
             t == TempName(p)
  <1>0. IInv /\ IInv' /\ DInv /\ Still /\ At("temps")
    BY DEF CleanupTemps, Proper
  <1>1. Intents = {} /\ Types /\ scenario \in Scenarios
    BY <1>0, AtIs
  <1>2. \/ Fail
        \/ left # {} /\ HasId(tree, t, TempId(p)) /\ JournalRemove("rollback", t, TempId(p))
        \/ Enter("uninstall", 1) \/ Enter("unbind", 0) \/ Enter("cleanup", 1) \/ Enter("restore", 1)
        \/ Commit(BeginRollback, "restore", 1)
    BY DEF CleanupTemps, Require, State
  <1>3. left # {} => p \in DOMAIN rows
    OBVIOUS
  <1> HIDE DEF left, named, p
  <1>4. CASE left # {} /\ HasId(tree, t, TempId(p)) /\ JournalRemove("rollback", t, TempId(p))
    <2>1. VisiblePath(p) /\ rows[p].temp \in Nat
      BY <1>1, <1>3, <1>4, EntriesAre DEF Types, RowsTypes, PathRowOK
    <2>2. t # <<>> /\ IsTemp(t) /\ t \in DOMAIN tree
      BY <1>4, <2>1, TempNameIs DEF HasId
    <2> HIDE DEF t
    <2> QED BY <1>1, <1>4, <2>2, Removes
  <1>5. CASE Commit(BeginRollback, "restore", 1)
    <2> DEFINE x == [pending EXCEPT !.state = "rolling_back"]
    <2>1. db' = [db EXCEPT !.pending = x] /\ UNCHANGED fs
      BY <1>1, <1>5 DEF BeginRollback, pending, Types, Commit
    <2>2. x.state = "rolling_back"
      BY <1>1 DEF Types, PendingTypes
    <2> HIDE DEF x
    <2>3. DbIs(journal, x, rows, recoveries, links, index)
      BY <1>1, <2>1, Transactions
    <2>4. StateGoes
      BY <2>2, <2>3 DEF StateGoes, DbIs, State
    <2> QED BY <1>0, <1>1, <2>1, <2>3, <2>4, PendingStep
  <1> QED BY <1>2, <1>4, <1>5, Entering, Failing

(***************************************************************************)
(* Capture and promotion.                                                  *)
(***************************************************************************)
LEMMA ResetsPromoted ==
    ASSUME Proper, Intents = {}, Applying, NEW s \in DOMAIN links, ResetPromoted(s)
    PROVE  DInv'
  <1>1. IInv /\ Types /\ Places /\ scenario \in Scenarios
    BY Known DEF Proper, IInv, Control
  <1>2. PICK i \in 1 .. Len(Promote) : Promote[i].source = s
    BY <1>1, PromoteAre DEF Types, LinksTypes
  <1>3. PromotedTo(s) \in DOMAIN TargetShape
    BY <1>1, <1>2, PromoteAre
  <1>4. DOMAIN rows = DOMAIN TargetShape
    BY <1>1 DEF Places, Applying
  <1> QED BY <1>3, <1>4, Resets

LEMMA Captures1 ==
    ASSUME Proper, At("prepare"), NEW p \in DOMAIN recoveries, ~ recoveries[p].completed, Capture(p, recoveries[p])
    PROVE  DInv'
  <1>0. IInv /\ IInv' /\ DInv /\ Still /\ Tables
    BY Known DEF Proper
  <1>a. run.stage = "prepare" /\ Intents = {} /\ Stages /\ Types /\ scenario \in Scenarios
    BY <1>0, AtIs
  <1>b. Applying
    BY <1>a DEF Applying, ApplyStages, Stages, BindStages
  <1>c. State = "applying" /\ run.acted = FALSE
    BY <1>0, <1>a, <1>b, Idle
  <1>1. Intents = {} /\ Types /\ scenario \in Scenarios /\ run.acted = FALSE /\ State = "applying"
    BY <1>a, <1>c
  <1>2. \/ Fail
        \/ run' = [run EXCEPT !.step = "verified"] /\ UNCHANGED <<fs, db>>
        \/ JournalRename("pre_base", p, RecoveryName(p), recoveries[p].id)
        \/ Tx([db EXCEPT !.recoveries[p].id = tree[p].id])
    BY DEF Capture, Require
  <1>3. VisiblePath(p) /\ Len(p) = 1 /\ p # <<>>
    BY <1>1, TopsAre, VisibleIs DEF Types, RecoveriesTypes
  <1>4. DOMAIN links = {}
    BY <1>0, <1>1 DEF Tables, Linked
  <1>5. CASE run' = [run EXCEPT !.step = "verified"] /\ UNCHANGED <<fs, db>>
    <2>1. run'.acted = run.acted
      BY <1>0, <1>5 DEF IInv, Control, RunTypes
    <2> QED BY <1>0, <1>5, <2>1, QuietStep
  <1>6. CASE JournalRename("pre_base", p, RecoveryName(p), recoveries[p].id)
    <2>1. \A a : a.phase = "pre_base" /\ a.path = p /\ a.target = RecoveryName(p) => Captures(a)
      BY <1>3, <1>4 DEF Captures
    <2> QED BY <1>1, <1>3, <1>6, <2>1, Renames
  <1>7. CASE Tx([db EXCEPT !.recoveries[p].id = tree[p].id])
    <2> DEFINE c == [recoveries EXCEPT ![p].id = tree[p].id]
    <2>1. db' = [db EXCEPT !.recoveries = c] /\ UNCHANGED fs
      BY <1>1, <1>7 DEF Tx, recoveries, Types
    <2>2. \A q \in DOMAIN c : q \in DOMAIN recoveries /\ (c[q] = recoveries[q] \/ c[q] = [recoveries[q] EXCEPT !.id = tree[p].id])
      OBVIOUS
    <2> HIDE DEF c
    <2>3. \A q \in DOMAIN recoveries : RecoveryOK(recoveries[q])
      BY <1>1 DEF Types, RecoveriesTypes
    <2>4. \A q \in DOMAIN c : SafeShape(c[q].shape)
      BY <1>0, <2>2, <2>3 DEF DInv, Contents1, Shapes, RecoveryOK
    <2>5. DbIs(journal, pending, rows, c, links, index)
      BY <1>1, <2>1, Transactions
    <2> QED BY <1>1, <2>1, <2>4, <2>5, SafeRecoveries
  <1> QED BY <1>2, <1>5, <1>6, <1>7, Failing

LEMMA PrepareRecoveryDoes ==
    ASSUME Proper, PrepareRecovery
    PROVE  DInv'
  <1> DEFINE p == Tops[run.at].path
             r == recoveries[p]
             mine == {s \in DOMAIN links : Top(s) = p}
             unsettled == {s \in mine : ~ Settled(s)}
             stale == {s \in mine : NeedsReset(s)}
  <1>0. IInv /\ DInv /\ Tables
    BY Known DEF Proper
  <1>1. At("prepare") /\ run.at <= Len(Tops)
    BY DEF PrepareRecovery
  <1>2. /\ run.stage = "prepare" /\ Intents = {} /\ Types /\ Stages /\ Places
        /\ scenario \in Scenarios /\ run.at \in Nat /\ (Applying => Base /\ State = "applying")
    BY <1>0, <1>1, AtIs
  <1>3. Applying /\ State = "applying" /\ Base
    BY <1>2 DEF Applying, ApplyStages, Stages, BindStages
  <1>4. p \in DOMAIN recoveries
    <2>1. run.at \in 1 .. Len(Tops)
      BY <1>1, <1>2, TopsAre DEF Places
    <2> QED BY <1>0, <1>2, <1>3, <2>1, TopsAre DEF Tables, Indexed
  <1>5. \/ PrepareCompleted(p)
        \/ Commit([db EXCEPT !.recoveries[p].completed = TRUE], "prepare", run.at + 1)
        \/ ~ r.completed /\ Capture(p, r)
        \/ Fail
    BY DEF PrepareRecovery
  <1>6. PrepareCompleted(p) => \/ unsettled # {} /\ JournalLatePromotion(CHOOSE s \in unsettled : TRUE)
                               \/ stale # {} /\ ResetPromoted(CHOOSE s \in stale : TRUE)
                               \/ Fail
                               \/ Next1
    BY DEF PrepareCompleted, Require
  <1>7. CASE unsettled # {} /\ JournalLatePromotion(CHOOSE s \in unsettled : TRUE)
    <2> DEFINE s == CHOOSE x \in unsettled : TRUE
    <2>1. s \in DOMAIN links /\ JournalLatePromotion(s)
      BY <1>7
    <2> HIDE DEF s
    <2> QED BY <1>2, <1>3, <2>1, LatePromotes
  <1>8. CASE stale # {} /\ ResetPromoted(CHOOSE s \in stale : TRUE)
    <2> DEFINE s == CHOOSE x \in stale : TRUE
    <2>1. s \in DOMAIN links /\ ResetPromoted(s)
      BY <1>8
    <2> HIDE DEF s
    <2> QED BY <1>2, <1>3, <2>1, ResetsPromoted
  <1> HIDE DEF p, mine, unsettled, stale
  <1>9. CASE Commit([db EXCEPT !.recoveries[p].completed = TRUE], "prepare", run.at + 1)
    <2> DEFINE c == [recoveries EXCEPT ![p].completed = TRUE]
    <2>1. db' = [db EXCEPT !.recoveries = c] /\ UNCHANGED fs
      BY <1>2, <1>9 DEF Commit, recoveries, Types
    <2>2. \A q \in DOMAIN c : q \in DOMAIN recoveries /\ (c[q] = recoveries[q] \/ c[q] = [recoveries[q] EXCEPT !.completed = TRUE])
      OBVIOUS
    <2> HIDE DEF c
    <2>3. \A q \in DOMAIN recoveries : RecoveryOK(recoveries[q])
      BY <1>2 DEF Types, RecoveriesTypes
    <2>4. \A q \in DOMAIN c : SafeShape(c[q].shape)
      BY <1>0, <2>2, <2>3 DEF DInv, Contents1, Shapes, RecoveryOK
    <2>5. DbIs(journal, pending, rows, c, links, index)
      BY <1>2, <2>1, Transactions
    <2> QED BY <1>2, <2>1, <2>4, <2>5, SafeRecoveries
  <1>10. CASE ~ r.completed /\ Capture(p, r)
    BY <1>1, <1>4, <1>10, Captures1
  <1> QED BY <1>5, <1>6, <1>7, <1>8, <1>9, <1>10, Failing, Nexts

LEMMA ReconcileDoes ==
    ASSUME Proper, Reconcile
    PROVE  DInv'
  <1> DEFINE s == Promote[run.at].source
  <1>0. IInv
    BY DEF Proper
  <1>1. /\ run.stage \in {"late1", "late2", "late3", "late4"} /\ Intents = {} /\ run.at <= Len(Promote)
        /\ ResetPromoted(s) \/ JournalLatePromotion(s) \/ Next1
    BY DEF Reconcile, AfterLate
  <1>2. /\ Stages /\ Places /\ scenario \in Scenarios /\ run.at \in Nat
    BY <1>0, <1>1, AtIs DEF At
  <1>3. Applying /\ Base /\ State = "applying"
    BY <1>0, <1>1, <1>2, Idle DEF Applying, ApplyStages, Stages, BindStages
  <1>4. s \in DOMAIN links
    <2>1. run.at \in 1 .. Len(Promote)
      BY <1>1, <1>2, PromoteAre DEF Places
    <2> QED BY <1>1, <1>2, <1>3, <2>1 DEF Places
  <1> HIDE DEF s
  <1> QED BY <1>1, <1>3, <1>4, ResetsPromoted, LatePromotes, Nexts

LEMMA PromoteCapturedDoes ==
    ASSUME Proper, PromoteCaptured
    PROVE  DInv'
  <1> DEFINE s == Promote[run.at].source
             t == Promote[run.at].target
             here == HiddenAt(s)
             fixed == Shape(tree, here) = FileShape(BaseShape[s].data) /\ TargetShape[t] = BaseShape[s]
  <1>0. IInv
    BY DEF Proper
  <1>1. At("promote") /\ run.at <= Len(Promote)
    BY DEF PromoteCaptured
  <1>2. /\ run.stage = "promote" /\ Intents = {} /\ Types /\ Stages /\ Places
        /\ scenario \in Scenarios /\ run.at \in Nat
    BY <1>0, <1>1, AtIs
  <1>3. Applying /\ Base /\ State = "applying"
    BY <1>0, <1>2, Idle DEF Applying, ApplyStages, Stages, BindStages
  <1>4. s \in Sources /\ t \in DOMAIN TargetShape /\ TargetShape[t].kind = "File" /\ \E m \in Range(Promote) : m.source = s /\ m.target = t
    <2>1. run.at \in 1 .. Len(Promote)
      BY <1>1, <1>2, PromoteAre DEF Places
    <2>2. Promote[run.at] \in Range(Promote)
      <3>1. Moves(scenario)
        BY <1>2, ScenarioAssumption DEF ScenarioAssumption
      <3> QED BY <2>1, <3>1 DEF Moves, Range
    <2>3. PromotedTo(s) = t
      BY <1>2, <2>1, PromoteAre
    <2> QED BY <1>2, <2>1, <2>2, PromoteAre
  <1>5. t \in DOMAIN rows /\ VisiblePath(t)
    BY <1>2, <1>4, EntriesAre DEF Places, ApplyStages
  <1>6. \/ /\ Exists(here) /\ s \notin DOMAIN links /\ tree[here].kind = "File"
           /\ fixed \/ FreeOrdinals(t) # {}
           /\ JournalPromotion(s, here, IF fixed THEN t ELSE NextFree(t))
        \/ s \in DOMAIN links /\ ResetPromoted(s)
        \/ s \in DOMAIN links /\ JournalLatePromotion(s)
        \/ s \in DOMAIN links /\ Settled(s) /\ CurrentOf(s).target = t /\ RegisterPromoted(t)
        \/ s \in DOMAIN links /\ Next1
        \/ Fail
    BY DEF PromoteCaptured, Require
  <1> HIDE DEF fixed, s, t
  <1>7. CASE /\ Exists(here) /\ s \notin DOMAIN links /\ tree[here].kind = "File"
             /\ fixed \/ FreeOrdinals(t) # {}
             /\ JournalPromotion(s, here, IF fixed THEN t ELSE NextFree(t))
    <2>1. PICK q : q = IF fixed THEN t ELSE NextFree(t)
      OBVIOUS
    <2>2. VisiblePath(q)
      BY <1>5, <1>7, <2>1, NextFreeIs
    <2>3. JournalPromotion(s, here, q)
      BY <1>7, <2>1
    <2> QED BY <1>2, <1>3, <1>4, <1>7, <2>2, <2>3, Promotes
  <1>8. CASE s \in DOMAIN links /\ ResetPromoted(s)
    BY <1>2, <1>3, <1>8, ResetsPromoted
  <1>9. CASE s \in DOMAIN links /\ JournalLatePromotion(s)
    BY <1>2, <1>3, <1>9, LatePromotes
  <1>10. CASE s \in DOMAIN links /\ Settled(s) /\ CurrentOf(s).target = t /\ RegisterPromoted(t)
    BY <1>2, <1>3, <1>4, <1>5, <1>10, Registers
  <1> QED BY <1>6, <1>7, <1>8, <1>9, <1>10, Failing, Nexts

(***************************************************************************)
(* A new snapshot of the captured directories adopts what is below them.   *)
(***************************************************************************)
LEMMA SnapshotDirectoriesDoes ==
    ASSUME Proper, SnapshotDirectories, scenario' = scenario
    PROVE  DInv'
  <1>0. IInv /\ IInv' /\ DInv /\ Still /\ Types /\ Worlds /\ scenario \in Scenarios
    BY Known DEF Proper
  <1>1. At("promote")
    BY DEF SnapshotDirectories
  <1>2. Intents = {}
    BY <1>0, <1>1, AtIs
  <1>3. db' = [db EXCEPT !.recoveries = Renewed] /\ UNCHANGED fs
    <2>1. DOMAIN db = DbFields
      BY <1>0 DEF Types, DbFields
    <2>2. \A p \in DOMAIN recoveries : p \in {q \in DOMAIN recoveries : recoveries[q].shape[<<>>].kind = "Directory"}
              <=> recoveries[p].shape[<<>>].kind = "Directory"
      OBVIOUS
    <2>3. Renewed = [p \in DOMAIN db.recoveries |->
              IF p \in {q \in DOMAIN recoveries : recoveries[q].shape[<<>>].kind = "Directory"}
              THEN [db.recoveries[p] EXCEPT !.shape = Shape(tree, RecoveryName(p))] ELSE db.recoveries[p]]
      BY <2>2 DEF Renewed, recoveries
    <2> QED BY <2>3 DEF SnapshotDirectories, Commit
  <1>4. PICK c : c = Renewed
    OBVIOUS
  <1>5. DbIs(journal, pending, rows, c, links, index)
    BY <1>0, <1>3, <1>4, Transactions
  <1>6. DOMAIN c = DOMAIN recoveries
        /\ \A p \in DOMAIN c : c[p] = recoveries[p] \/ (recoveries[p].shape[<<>>].kind = "Directory" /\ c[p].shape = Shape(tree, RecoveryName(p)))
    <2>1. \A p \in DOMAIN recoveries : RecoveryOK(recoveries[p])
      BY <1>0 DEF Types, RecoveriesTypes
    <2>2. \A r, x : RecoveryOK(r) => [r EXCEPT !.shape = x].shape = x
      BY DEF RecoveryOK
    <2> QED BY <1>4, <2>1, <2>2 DEF Renewed
  <1>7. ASSUME NEW p \in DOMAIN c PROVE SafeShape(c[p].shape)'
    <2>1. CASE c[p] = recoveries[p]
      <3>1. SafeShape(c[p].shape)
        BY <1>0, <1>6, <2>1 DEF DInv, Contents1, Shapes
      <3> QED BY <1>0, <3>1, SafeStays
    <2>2. CASE recoveries[p].shape[<<>>].kind = "Directory" /\ c[p].shape = Shape(tree, RecoveryName(p))
      <3> DEFINE h == RecoveryName(p)
      <3>1. h \in Path
        <4>1. VisiblePath(p)
          BY <1>0, <1>6, TopsAre DEF Types, RecoveriesTypes
        <4> QED BY <4>1, InternalIs DEF RecoveryName, InternalForms
      <3>2. owed \cap Below(h) \subseteq adopted'
        BY <1>6, <2>2 DEF SnapshotDirectories
      <3> HIDE DEF h
      <3>3. ASSUME NEW x \in DOMAIN Shape(tree, h), Shape(tree, h)[x].kind = "File"
            PROVE  \E d : d = Shape(tree, h)[x].data /\ Safe(d)'
        <4>1. PICK q \in Under(tree, h) : x = Rest(h, q)
          BY DEF Shape
        <4>2. q \in DOMAIN tree /\ q \in Path /\ IsPrefix(h, q)
          BY <1>0, <4>1, ObjectIs DEF Under
        <4>3. h \o x = q
          BY <3>1, <4>1, <4>2, RestIs
        <4>4. Shape(tree, h)[x] = [kind |-> tree[q].kind, data |-> tree[q].data]
          BY <4>3 DEF Shape
        <4>5. tree[q].kind = "File" /\ Shape(tree, h)[x].data = tree[q].data
          BY <3>3, <4>4
        <4>6. tree[q].data \in Below(h)
          BY <4>1, <4>5 DEF Below
        <4>7. tree[q].data \notin Future
          BY <1>0, <4>2, <4>5 DEF DInv, Contents1, FutureFree
        <4>8. PICK d : d = tree[q].data
          OBVIOUS
        <4>9. Safe(d)'
          <5>1. Future' = Future /\ owed' = owed
            BY <1>0, SafeStays DEF Still
          <5> QED BY <3>2, <4>6, <4>7, <4>8, <5>1 DEF Safe
        <4> QED BY <4>5, <4>8, <4>9
      <3>4. PICK z : z = Shape(tree, h)
        OBVIOUS
      <3>5. \A x \in DOMAIN z : z[x].kind = "File" => \E d : d = z[x].data /\ Safe(d)'
        BY <3>3, <3>4
      <3>6. SafeShape(z)'
        BY <3>5 DEF SafeShape
      <3>7. c[p].shape = z
        BY <2>2, <3>4 DEF h
      <3> QED BY <3>6, <3>7 DEF SafeShape
    <2> QED BY <1>6, <2>1, <2>2
  <1> QED BY <1>0, <1>2, <1>3, <1>5, <1>7, RecoveriesStep

(***************************************************************************)
(* The worktree changes, the tables stay.                                  *)
(***************************************************************************)
LEMMA TreeStep ==
    ASSUME Proper, UNCHANGED db, Inherits, TempFree', DataFrom, KeepsFiles, Promoted', ActedRestore'
    PROVE  DInv'
  <1>1. journal' = journal /\ rows' = rows /\ recoveries' = recoveries /\ links' = links /\ pending' = pending /\ index' = index
        /\ Intents' = Intents /\ State' = State /\ (Base' <=> Base) /\ scenario' = scenario
    BY DEF journal, rows, recoveries, links, pending, index, Intents, State, Base, Proper, Still
  <1>2. SameHeld /\ StateGoes
    BY <1>1, TablesAlone DEF StateGoes
  <1>3. Actions'
    BY <1>1, <1>2, FactsStay DEF Actions, DInv, Proper
  <1>4. CreateRows' /\ DirectoryRows'
    BY <1>1, RowsStay DEF Proper, DInv, Objects1
  <1>5. Shapes'
    BY <1>1, SafeStays DEF Proper, DInv, Contents1
  <1>6. FutureFree' /\ AllKept'
    BY <1>1, ContentsKept DEF Proper, DInv, Contents1
  <1> QED BY <1>3, <1>4, <1>5, <1>6 DEF DInv, Objects1, Contents1

LEMMA StayStep ==
    ASSUME Proper, UNCHANGED db, Stays, DataFrom, KeepsFiles, ActedRestore'
    PROVE  DInv'
  <1>1. journal' = journal /\ links' = links /\ rows' = rows /\ scenario' = scenario /\ State' = State /\ (Base' <=> Base)
    BY DEF journal, rows, links, pending, index, State, Base, Proper, Still
  <1>2. SameHeld /\ StateGoes
    BY <1>1, TablesAlone DEF StateGoes
  <1>3. TempFree'
    BY <1>1, TempFreeStays DEF Proper, DInv, Objects1
  <1>4. Promoted'
    BY <1>1, <1>2, PromotedStays, RegisteredRows DEF Proper, DInv, Promoted
  <1> QED BY <1>3, <1>4, StaysInherits, TreeStep

(* A new mtime, of a directory or of a temporary file.                     *)
LEMMA Stamps ==
    ASSUME IInv, NEW t, NEW stamp, tree' = Stamped(tree, t, stamp),
           t \in DOMAIN tree /\ tree[t].kind = "File" => IsTemp(t) /\ stamp \notin Range(EditData)
    PROVE  Stays /\ DataFrom /\ KeepsFiles
  <1>1. Objects(tree)
    BY Known DEF Worlds, WellFormed
  <1>2. AfterStamp(tree', tree, t, stamp)
    BY <1>1, StampedIs
  <1> QED BY <1>2 DEF AfterStamp, Keeps, Stays, DataFrom, KeepsFiles

(* A new object at a name that was free.                                   *)
LEMMA Makes ==
    ASSUME IInv, NEW p \in Path, p \notin DOMAIN tree, p # <<>>, IsDir(tree, Parent(p)), NEW k \in Kinds, NEW x,
           k = "File" => x \notin Range(EditData), tree' = Made(tree, p, lastId + 1, k, x)
    PROVE  Stays /\ DataFrom /\ KeepsFiles
  <1>1. Objects(tree) /\ lastId \in Nat
    BY Known DEF Worlds, WellFormed
  <1>2. Parent(p) # p
    BY PrefixOfParent
  <1>3. AfterMake(tree', tree, p, lastId + 1, k, x)
    BY <1>1, <1>2, MadeIs
  <1>4. /\ DOMAIN tree' = DOMAIN tree \cup {p} /\ tree'[p].id = lastId + 1 /\ tree'[p].kind = k /\ tree'[p].data = x
        /\ \A y \in DOMAIN tree : /\ tree'[y].id = tree[y].id /\ tree'[y].kind = tree[y].kind
                                  /\ tree[y].kind = "File" => tree'[y].data = tree[y].data
    BY <1>3 DEF AfterMake, Keeps, IsDir
  <1>5. tree'[p].id > lastId
    BY <1>1, <1>4
  <1> QED BY <1>4, <1>5 DEF Stays, DataFrom, KeepsFiles

(***************************************************************************)
(* Directories and files are installed.                                    *)
(***************************************************************************)
LEMMA InstallsTemp ==
    ASSUME Proper, Intents = {}, NEW p \in DOMAIN rows, VisiblePath(p), InstallTemp(p)
    PROVE  DInv'
  <1>1. rows[p].temp \in Nat
    BY Known DEF Proper, PathRowOK
  <1>2. TempName(p) # <<>> /\ IsTemp(TempName(p)) /\ Last(p)[1] \in VisibleForms
    BY <1>1, TempNameIs, VisibleIs
  <1>3. \A a : a.phase = "pre_base" /\ a.path = TempName(p) /\ a.target = p => Installs(a)
    BY <1>2 DEF Installs
  <1>4. JournalRename("pre_base", TempName(p), p, rows[p].tempId)
    BY DEF InstallTemp
  <1> QED BY <1>2, <1>3, <1>4, Renames

LEMMA CreatesTemp ==
    ASSUME Proper, Intents = {}, NEW p \in DOMAIN rows, rows[p].temp # 0, CreateTemp(p, TargetShape[p].kind)
    PROVE  DInv'
  <1>1. \/ JournalCreate(p, TempName(p), TargetShape[p].kind)
        \/ Fail
        \/ /\ Created(p) # {} /\ HasId(tree, TempName(p), CreatedId(p))
           /\ Tx(SetRow(p, [rows[p] EXCEPT !.tempId = CreatedId(p)]))
    BY DEF CreateTemp, Require
  <1> QED BY <1>1, Creating, Failing, Identifies

LEMMA InstallDirectoryDoes ==
    ASSUME Proper, InstallDirectory
    PROVE  DInv'
  <1> DEFINE p == Entries[run.at].path
             r == rows[p]
             next == NextItem("Directory", run.at + 1)
             row == [r EXCEPT !.targetId = tree[p].id, !.completed = TRUE]
  <1>0. IInv
    BY DEF Proper
  <1>1. At("directories") /\ run.at <= Len(Entries)
    BY DEF InstallDirectory
  <1>2. Installing /\ run.stage = "directories" /\ Intents = {}
    BY <1>1 DEF At, Installing
  <1>3. p \in DOMAIN rows /\ VisiblePath(p) /\ TargetShape[p].kind = "Directory"
    <2>1. /\ p \in DOMAIN rows /\ VisiblePath(p) /\ Entries[run.at].kind = "Directory" /\ scenario \in Scenarios
          /\ run.at \in Nat \ {0}
      BY <1>0, <1>1, <1>2, InstallingIs
    <2>2. run.at \in 1 .. Len(Entries)
      BY <1>1, <2>1, EntriesAre
    <2> QED BY <2>1, <2>2, EntriesAre
  <1>4. \/ RegisterTemp(p)
        \/ Enter("directories", next)
        \/ Exists(p) /\ tree[p].kind = "Directory" /\ Commit(SetRow(p, row), "directories", next)
        \/ r.temp # 0 /\ CreateTemp(p, "Directory")
        \/ InstallTemp(p)
        \/ Fail
    BY DEF InstallDirectory, Require
  <1>5. CASE Exists(p) /\ tree[p].kind = "Directory" /\ Commit(SetRow(p, row), "directories", next)
    <2>1. UNCHANGED fs /\ db' = SetRow(p, row)
      BY <1>5 DEF Commit
    <2> HIDE DEF p, next
    <2> QED BY <1>2, <1>3, <1>5, <2>1, Records
  <1> HIDE DEF p, next, row
  <1> QED BY <1>2, <1>3, <1>4, <1>5, RegistersTemp, Entering, CreatesTemp, InstallsTemp, Failing DEF r

LEMMA WritesFile ==
    ASSUME Proper, Installing, NEW p \in DOMAIN rows, VisiblePath(p), WriteFile(p), Entries[run.at].data \notin Range(EditData)
    PROVE  DInv'
  <1> DEFINE t == TempName(p)
             want == Entries[run.at].data
  <1>0. IInv /\ Intents = {}
    BY DEF Proper, Installing
  <1>1. IsTemp(t)
    BY <1>0, Known, TempNameIs DEF PathRowOK
  <1>2. \/ InstallTemp(p)
        \/ JournalMtime("pre_base", t, rows[p].tempId, want)
        \/ Call(Stamped(tree, t, Raw)) /\ UNCHANGED run
    BY DEF WriteFile
  <1> HIDE DEF t, want
  <1>3. CASE InstallTemp(p)
    BY <1>0, <1>3, InstallsTemp
  <1>4. CASE JournalMtime("pre_base", t, rows[p].tempId, want)
    BY <1>0, <1>1, <1>4, Stamping DEF want
  <1>5. CASE Call(Stamped(tree, t, Raw)) /\ UNCHANGED run
    <2>1. tree' = Stamped(tree, t, Raw) /\ db' = db
      BY <1>5 DEF Call
    <2>2. Raw \notin Range(EditData)
      BY EditAssumption DEF EditAssumption
    <2>3. Stays /\ DataFrom /\ KeepsFiles
      BY <1>0, <1>1, <2>1, <2>2, Stamps
    <2>4. Intents' = {}
      BY <1>0, <2>1 DEF Intents, journal
    <2> QED BY <2>1, <2>3, <2>4, NoIntents, StayStep DEF Proper
  <1> QED BY <1>2, <1>3, <1>4, <1>5

LEMMA RecreatesTemp ==
    ASSUME Proper, Installing, NEW p \in DOMAIN rows, VisiblePath(p), ParentsHeld(p), ~ Exists(TempName(p)), RecreateTemp(p)
    PROVE  DInv'
  <1>0. IInv /\ Intents = {} /\ Worlds /\ rows[p].temp \in Nat
    BY Known DEF Proper, Installing, PathRowOK
  <1>1. TempName(p) \in Path /\ TempName(p) # <<>> /\ Parent(TempName(p)) = Parent(p) /\ p \in Path /\ p # <<>>
    BY <1>0, TempNameIs, VisibleIs
  <1>2. IsDir(tree, Parent(TempName(p)))
    BY <1>0, <1>1, ParentIsThere
  <1>3. "File" \in Kinds /\ TempName(p) \notin DOMAIN tree /\ Blank \notin Range(EditData)
    BY EditAssumption DEF Kinds, Exists, EditAssumption
  <1>4. tree' = Made(tree, TempName(p), lastId + 1, "File", Blank) /\ db' = db
    BY DEF RecreateTemp
  <1>5. Stays /\ DataFrom /\ KeepsFiles
    BY <1>0, <1>1, <1>2, <1>3, <1>4, Makes
  <1>6. Intents' = {}
    BY <1>0, <1>4 DEF Intents, journal
  <1> QED BY <1>4, <1>5, <1>6, NoIntents, StayStep DEF Proper

LEMMA InstallFileDoes ==
    ASSUME Proper, InstallFile
    PROVE  DInv'
  <1> DEFINE p == Entries[run.at].path
             r == rows[p]
             next == NextItem("File", run.at + 1)
             row == [r EXCEPT !.completed = TRUE]
  <1>0. IInv
    BY DEF Proper
  <1>1. At("files") /\ run.at <= Len(Entries)
    BY DEF InstallFile
  <1>2. Installing /\ run.stage = "files" /\ Intents = {}
    BY <1>1 DEF At, Installing
  <1>3. p \in DOMAIN rows /\ VisiblePath(p) /\ TargetShape[p].kind = "File" /\ Entries[run.at].data \notin Range(EditData)
    <2>1. /\ p \in DOMAIN rows /\ VisiblePath(p) /\ Entries[run.at].kind = "File" /\ scenario \in Scenarios
          /\ run.at \in Nat \ {0}
      BY <1>0, <1>1, <1>2, InstallingIs
    <2>2. run.at \in 1 .. Len(Entries)
      BY <1>1, <2>1, EntriesAre
    <2> QED BY <2>1, <2>2, EntriesAre
  <1>4. \/ RegisterTemp(p)
        \/ Enter("files", next)
        \/ Commit(SetRow(p, row), "files", next)
        \/ r.temp # 0 /\ CreateTemp(p, "File")
        \/ ParentsHeld(p) /\ ~ Exists(TempName(p)) /\ RecreateTemp(p)
        \/ WriteFile(p)
        \/ Fail
    BY DEF InstallFile, Require
  <1>5. CASE Commit(SetRow(p, row), "files", next)
    <2>1. UNCHANGED fs /\ db' = SetRow(p, row)
      BY <1>5 DEF Commit
    <2> HIDE DEF p, next
    <2> QED BY <1>2, <1>3, <2>1, Completes1
  <1> HIDE DEF p, next, row
  <1> QED BY <1>2, <1>3, <1>4, <1>5, RegistersTemp, Entering, CreatesTemp, RecreatesTemp, WritesFile, Failing DEF r

(***************************************************************************)
(* Execution: steps of the journal.                                        *)
(***************************************************************************)
LEMMA JournalStep ==
    ASSUME Proper, UNCHANGED fs, rows' = rows, recoveries' = recoveries, links' = links, index' = index, StateGoes,
           \A a \in journal' : a \in journal \/ CreationFact(a),
           \A a \in journal : IsPromotion(a) => \E b \in journal' : IsPromotion(b) /\ b.order = a.order /\ b.id = a.id,
           \A a \in Intents \cup Intents' : a.op = "restore" => (a \in Intents <=> a \in Intents') /\ State' = State,
           \A a \in Intents' : a \in Intents \/ (a.op # "restore" /\ IntentFact(a)),
           ActedRestore'
    PROVE  DInv'
  <1>1. scenario' = scenario /\ tree' = tree /\ (Base' <=> Base) /\ IInv /\ IInv' /\ DInv /\ Still
    BY DEF Proper, Still, fs, Base
  <1>2. Base => SameHeld
    BY <1>1, HeldSame
  <1>3. Actions'
    <2> SUFFICES ASSUME NEW a \in Intents' PROVE IntentFact(a)'
      BY DEF Actions
    <2>1. IntentFact(a)
      BY <1>1 DEF DInv, Actions
    <2>2. a.op = "restore" => Base
      BY <2>1 DEF IntentFact, RestoreFact
    <2> QED BY <1>1, <1>2, <2>1, <2>2, FactsStay
  <1>4. Promoted'
    BY <1>1, <1>2, StaysSame, PromotedStays, RegisteredRows DEF DInv, Promoted
  <1>5. Shapes'
    BY <1>1, SafeStays DEF DInv, Contents1
  <1> QED BY <1>1, <1>3, <1>4, <1>5, TablesStep, DirectoriesSame

(* The row of an action that is done.                                      *)
LEMMA CompletedFact ==
    ASSUME NEW a, CreationFact(a), Kept(a), RowOK(a), a.state = "intent"
    PROVE  CreationFact(CompletedRow(a))
  <1> DEFINE c == CompletedRow(a)
  <1>1. c.op = a.op /\ c.path = a.path /\ c.kind = a.kind /\ c.id = a.id /\ c.outcome = a.outcome
    BY CompletedRowOK DEF Alike
  <1> HIDE DEF c
  <1>2. CreatedHere(c)
    BY <1>1 DEF CreationFact, CreatedHere
  <1>3. Creates(c)
    BY <1>1 DEF CreationFact, Creates
  <1> QED BY <1>2, <1>3 DEF CreationFact, c

LEMMA CompleteIs ==
    ASSUME Proper, NEW a, First(a), Complete(a)
    PROVE  /\ a \in Intents /\ a \in journal /\ RowOK(a) /\ a.state = "intent" /\ CreationFact(a) /\ IntentFact(a)
           /\ Intents' = Intents \ {a} /\ pending' = pending /\ rows' = rows /\ recoveries' = recoveries
           /\ links' = links /\ index' = index /\ lastId' = lastId /\ run'.acted = FALSE
           /\ journal' = IF Kept(a) THEN Replace(a, CompletedRow(a)) ELSE journal \ {a}
           /\ \A x \in journal' : x \in journal \/ (x = CompletedRow(a) /\ Kept(a) /\ CreationFact(x))
           /\ \A x \in journal : IsPromotion(x) => \E b \in journal' : IsPromotion(b) /\ b.order = x.order /\ b.id = x.id
  <1>1. Tables /\ lastId \in Nat /\ scenario' = scenario /\ a \in Intents /\ RunTypes
    BY Known DEF Proper, Still, First, IInv, Control
  <1>2. a \in journal /\ RowOK(a) /\ a.state = "intent"
    BY FirstIs DEF Proper
  <1>3. /\ Intents' = Intents \ {a} /\ pending' = pending /\ rows' = rows /\ recoveries' = recoveries
        /\ links' = links /\ index' = index /\ lastId' = lastId
    BY <1>1, Completing DEF Complete
  <1>4. CreationFact(a) /\ IntentFact(a)
    BY <1>1, <1>2 DEF Proper, DInv, Objects1, CreateRows, Actions
  <1>5. run'.acted = FALSE
    BY <1>1 DEF Complete, NoRun, RunTypes
  <1>6. journal' = IF Kept(a) THEN Replace(a, CompletedRow(a)) ELSE journal \ {a}
    BY DEF Complete, CompletedRow, journal
  <1>7. \A x \in journal' : x \in journal \/ (x = CompletedRow(a) /\ Kept(a) /\ CreationFact(x))
    BY <1>2, <1>4, <1>6, CompletedFact DEF Replace
  <1>8. ASSUME NEW x \in journal, IsPromotion(x)
        PROVE  \E b \in journal' : IsPromotion(b) /\ b.order = x.order /\ b.id = x.id
    <2>1. CASE x # a
      BY <1>6, <1>8, <2>1 DEF Replace
    <2>2. CASE x = a
      <3>1. Kept(a) /\ CompletedRow(a) \in journal'
        BY <1>6, <1>8, <2>2 DEF Kept, Replace
      <3>2. IsPromotion(CompletedRow(a)) /\ CompletedRow(a).order = a.order /\ CompletedRow(a).id = a.id
        BY <1>2, <1>8, <2>2, CompletedRowOK DEF Alike
      <3> QED BY <2>2, <3>1, <3>2
    <2> QED BY <2>1, <2>2
  <1> QED BY <1>1, <1>2, <1>3, <1>4, <1>5, <1>6, <1>7, <1>8

LEMMA DoneDoes ==
    ASSUME Proper, NEW a, First(a), a.op # "restore", Done(a)
    PROVE  DInv'
  <1>1. Complete(a) /\ tree' = tree
    BY DEF Done
  <1>2. /\ a \in Intents /\ Intents' = Intents \ {a} /\ pending' = pending /\ rows' = rows /\ recoveries' = recoveries
        /\ links' = links /\ index' = index /\ lastId' = lastId /\ run'.acted = FALSE
        /\ \A x \in journal' : x \in journal \/ CreationFact(x)
        /\ \A x \in journal : IsPromotion(x) => \E b \in journal' : IsPromotion(b) /\ b.order = x.order /\ b.id = x.id
    BY <1>1, CompleteIs
  <1>3. ActedRestore' /\ StateGoes /\ UNCHANGED fs /\ State' = State
    BY <1>1, <1>2 DEF ActedRestore, StateGoes, State, fs
  <1>4. /\ \A x \in Intents \cup Intents' : x.op = "restore" => (x \in Intents <=> x \in Intents')
        /\ \A x \in Intents' : x \in Intents
    BY <1>2
  <1> QED BY <1>2, <1>3, <1>4, JournalStep

(***************************************************************************)
(* Creations.                                                              *)
(***************************************************************************)
LEMMA IdentifyDoes ==
    ASSUME Proper, NEW a, First(a), a.op = "create", run.acted,
           Tx([db EXCEPT !.journal = Replace(a, [a EXCEPT !.id = tree[a.path].id])])
    PROVE  DInv'
  <1>0. IInv /\ Tables /\ Worlds /\ lastId \in Nat /\ a \in Intents /\ scenario' = scenario /\ a.path \in Path /\ IsTemp(a.path)
        /\ RowOK(a) /\ CreationFact(a) /\ ~ IsPromotion(a) /\ a.state = "intent"
    BY Known, FirstIs DEF Proper, Still, First, RowOK, DInv, Objects1, CreateRows, IsPromotion
  <1>1. a.path \in DOMAIN tree /\ tree[a.path].kind = a.kind
    BY <1>0, FirstIs DEF IInv, Control, Acting, First, Exists, IsPromotion
  <1>2. tree[a.path].id \in 0 .. lastId
    BY <1>0, <1>1, ObjectIs
  <1>3. UNCHANGED fs /\ run' = run /\ lastId' = lastId /\ tree' = tree
    BY DEF Tx, fs
  <1> DEFINE id == tree[a.path].id
             n == IdentifiedRow(a, id)
  <1>4. /\ Intents' = {n} /\ n.path = a.path /\ n.kind = a.kind /\ n.op = "create" /\ n.id = id
        /\ pending' = pending /\ rows' = rows /\ recoveries' = recoveries /\ links' = links /\ index' = index
        /\ journal' = Replace(a, n)
    BY <1>0, <1>2, <1>3, Identified DEF Tx
  <1> HIDE DEF n
  <1>5. CreationFact(n)
    <2>1. InTemp(a.path)
      <3>1. Last(a.path) = a.path[Len(a.path)] /\ Len(a.path) \in Nat \ {0} /\ Last(a.path)[1] = "temp"
        BY <1>0, ParentIs DEF IsTemp
      <3>2. Len(a.path) \in DOMAIN a.path
        BY <1>0, <3>1 DEF Path
      <3> QED BY <3>1, <3>2 DEF InTemp
    <2>2. id \notin Originals
      BY <1>1, <2>1 DEF Proper, DInv, Objects1, TempFree
    <2>3. KindIs(id, a.kind)
      BY <1>0, <1>1, KindOf
    <2> HIDE DEF id
    <2> QED BY <1>0, <1>4, <2>2, <2>3 DEF CreationFact, CreatedHere, Creates
  <1>6. n.op # "restore" /\ IntentFact(n)
    BY <1>4 DEF IntentFact, RemovalFact, StampFact, PlainFact, RestoreFact, Plain
  <1>7. Intents = {a}
    BY <1>0, Alone
  <1>8. ActedRestore' /\ StateGoes
    BY <1>4 DEF ActedRestore, StateGoes, State
  <1>9. \A x \in journal' : x \in journal \/ CreationFact(x)
    BY <1>4, <1>5 DEF Replace
  <1>10. \A x \in journal : IsPromotion(x) => \E b \in journal' : IsPromotion(b) /\ b.order = x.order /\ b.id = x.id
    BY <1>0, <1>4 DEF Replace
  <1>11. \A x \in Intents \cup Intents' : x.op = "restore" => (x \in Intents <=> x \in Intents') /\ State' = State
    BY <1>0, <1>4, <1>7
  <1> QED BY <1>3, <1>4, <1>6, <1>8, <1>9, <1>10, <1>11, JournalStep

(* A row that moves an object at a temporary name to a recovered name.     *)
LEMMA AsideFacts ==
    ASSUME NEW n, Plain(n), IsTemp(n.path), n.path \in Path, n.outcome = "preserve_unknown",
           \E i \in Nat : n.target = Recovered(n.path, i)
    PROVE  CreationFact(n) /\ n.op # "restore" /\ IntentFact(n)
  <1>1. Last(n.target)[1] = "recovered"
    <2>1. PICK i \in Nat : n.target = Recovered(n.path, i)
      OBVIOUS
    <2>2. "recovered" \in VisibleForms /\ n.path # <<>>
      BY DEF VisibleForms, IsTemp
    <2> QED BY <2>1, <2>2, RenamedIs DEF Recovered
  <1>2. Installs(n)
    BY <1>1 DEF Installs, VisibleForms
  <1>3. n.op = "rename"
    BY DEF Plain
  <1>4. CreationFact(n)
    BY <1>3 DEF CreationFact, CreatedHere, Creates
  <1> QED BY <1>2, <1>3, <1>4 DEF IntentFact, RemovalFact, StampFact, PlainFact, RestoreFact

LEMMA RollBackUnknownDoes ==
    ASSUME Proper, NEW a, First(a), a.op = "create", ~ run.acted, RollBackUnknown(a)
    PROVE  DInv'
  <1>0. IInv /\ Tables /\ Worlds /\ a \in Intents /\ a \in journal /\ scenario' = scenario /\ a.path \in Path /\ IsTemp(a.path)
        /\ RowOK(a) /\ ~ IsPromotion(a) /\ a.state = "intent"
    BY Known, FirstIs DEF Proper, Still, First, RowOK, IsPromotion
  <1> DEFINE n == AsideRow(a)
             c == RolledBackRow(a)
  <1>1. /\ State' # "applying" /\ State' \in {State, "rolling_back"}
        /\ Intents' = {n} /\ rows' = rows /\ recoveries' = recoveries /\ links' = links /\ index' = index
        /\ tree' = tree /\ lastId' = lastId /\ run' = run /\ journal' = Replace(a, c) \cup {n}
    BY <1>0, RolledBackUnknown
  <1>2. RowIsOf(n, "rename", "rollback", a.path, Recovered(a.path, 1), a.kind, None, NoShape, NoStamp, a.order, 1, "preserve_unknown")
    BY RowsAre
  <1>3. Plain(n) /\ n.path = a.path /\ n.outcome = "preserve_unknown" /\ n.target = Recovered(a.path, 1)
    BY <1>2 DEF RowIsOf, Plain
  <1>4. c.op = "create" /\ c.outcome = "rolled_back" /\ c.path = a.path /\ c.kind = a.kind /\ c.id = a.id
    BY <1>0 DEF RolledBackRow, RowOK, RowFields
  <1> HIDE DEF n, c
  <1>5. CreationFact(n) /\ n.op # "restore" /\ IntentFact(n)
    BY <1>0, <1>3, AsideFacts
  <1>6. CreationFact(c)
    <2>1. CreationFact(a)
      BY <1>0 DEF Proper, DInv, Objects1, CreateRows
    <2> QED BY <1>4, <2>1 DEF CreationFact, CreatedHere, Creates
  <1>7. Intents = {a}
    BY <1>0, Alone
  <1>8. ActedRestore' /\ StateGoes /\ UNCHANGED fs
    BY <1>1 DEF ActedRestore, StateGoes, fs
  <1>9. \A x \in journal' : x \in journal \/ CreationFact(x)
    BY <1>1, <1>5, <1>6 DEF Replace
  <1>10. \A x \in journal : IsPromotion(x) => \E b \in journal' : IsPromotion(b) /\ b.order = x.order /\ b.id = x.id
    BY <1>0, <1>1 DEF Replace
  <1>11. \A x \in Intents \cup Intents' : x.op = "restore" => (x \in Intents <=> x \in Intents') /\ State' = State
    BY <1>0, <1>1, <1>5, <1>7
  <1> QED BY <1>1, <1>5, <1>8, <1>9, <1>10, <1>11, JournalStep

LEMMA AdvanceDoes ==
    ASSUME Proper, NEW a, First(a), Preserving(a), ~ run.acted, AdvancePreserved(a)
    PROVE  DInv'
  <1>0. IInv /\ Tables /\ Worlds /\ a \in Intents /\ a \in journal /\ scenario' = scenario /\ a.path \in Path /\ IsTemp(a.path)
        /\ RowOK(a) /\ ~ IsPromotion(a) /\ a.state = "intent" /\ Plain(a) /\ a.attempt \in Nat /\ JournalTypes
    BY Known, FirstIs DEF Proper, Still, First, RowOK, Tables, Types
  <1> DEFINE n == NextAside(a)
             c == CollidedRow(a)
  <1>1. /\ State' = State
        /\ Intents' = {n} /\ rows' = rows /\ recoveries' = recoveries /\ links' = links /\ index' = index
        /\ tree' = tree /\ lastId' = lastId /\ run' = run /\ journal' = Replace(a, c) \cup {n}
    BY <1>0, AdvancedPreserved
  <1>2. Plain(n) /\ n.path = a.path /\ n.outcome = "preserve_unknown"
    BY <1>0, NextAsideOK DEF Preserving
  <1>3. \E i \in Nat : n.target = Recovered(a.path, i)
    <2>1. DOMAIN a = RowFields
      BY <1>0 DEF RowOK
    <2>2. n.target = Recovered(a.path, a.attempt + 1) /\ a.attempt + 1 \in Nat
      BY <1>0, <2>1 DEF NextAside, RowFields
    <2> QED BY <2>2
  <1>4. c.op = "rename" /\ c.outcome = "collision"
    BY <1>0 DEF CollidedRow, RowOK, RowFields, Plain
  <1> HIDE DEF n, c
  <1>5. CreationFact(n) /\ n.op # "restore" /\ IntentFact(n)
    BY <1>0, <1>2, <1>3, AsideFacts
  <1>6. CreationFact(c)
    BY <1>4 DEF CreationFact, CreatedHere, Creates
  <1>7. Intents = {a}
    BY <1>0, Alone DEF Plain
  <1>8. ActedRestore' /\ StateGoes /\ UNCHANGED fs
    BY <1>1 DEF ActedRestore, StateGoes, fs
  <1>9. \A x \in journal' : x \in journal \/ CreationFact(x)
    BY <1>1, <1>5, <1>6 DEF Replace
  <1>10. \A x \in journal : IsPromotion(x) => \E b \in journal' : IsPromotion(b) /\ b.order = x.order /\ b.id = x.id
    BY <1>0, <1>1 DEF Replace
  <1>11. \A x \in Intents \cup Intents' : x.op = "restore" => (x \in Intents <=> x \in Intents') /\ State' = State
    BY <1>0, <1>1, <1>5, <1>7 DEF Plain
  <1> QED BY <1>1, <1>5, <1>8, <1>9, <1>10, <1>11, JournalStep

LEMMA CollisionDoes ==
    ASSUME Proper, NEW a, First(a), IsPromotion(a), Exists(a.target), tree[a.target].kind = "File", ~ run.acted,
           PreserveCollision(a)
    PROVE  DInv'
  <1>0. IInv /\ Tables /\ Worlds /\ a \in Intents /\ scenario' = scenario /\ RowOK(a) /\ VisiblePath(a.target)
    BY Known, FirstIs DEF Proper, Still, First, RowOK
  <1> DEFINE n == NextOfChain(a, a.target, tree[a.target].id)
  <1>1. /\ State = "applying" /\ journal' = journal \cup {n} /\ Intents' = Intents \cup {n} /\ pending' = pending
        /\ rows' = rows /\ recoveries' = recoveries /\ links' = links /\ index' = index
        /\ tree' = tree /\ lastId' = lastId /\ run' = run
    BY <1>0, CollisionPreserved
  <1>2. IsPromotion(n) /\ n.path = a.target
    <2>1. \A x \in Intents : IsPromotion(x) /\ RootOrder(x) = RootOrder(a)
      BY <1>0 DEF Tables, IntentsTogether, Together, IsPromotion
    <2>2. HasId(tree, a.target, tree[a.target].id) /\ a \in journal
      BY <1>0 DEF HasId, Exists, Intents
    <2> HIDE DEF n
    <2>3. Chained(n, a, a.target, tree[a.target].id)
      BY <1>0, <1>1, <2>1, <2>2, NextOfChainOK DEF n
    <2> QED BY <2>3 DEF Chained
  <1> HIDE DEF n
  <1>3. n.op = "rename" /\ ~ Plain(n) /\ ~ IsTemp(n.path)
    <2>1. a.target \in Path /\ ~ Hidden(a.target)
      BY <1>0, VisibleIs
    <2> QED BY <1>2, <2>1, TempIsHidden DEF IsPromotion, Plain
  <1>4. CreationFact(n) /\ IntentFact(n)
    BY <1>3 DEF CreationFact, CreatedHere, Creates, IntentFact, RemovalFact, StampFact, PlainFact, RestoreFact
  <1>5. ActedRestore' /\ StateGoes /\ UNCHANGED fs /\ State' = State
    BY <1>1 DEF ActedRestore, StateGoes, fs, State
  <1>6. \A x \in journal : IsPromotion(x) => \E b \in journal' : IsPromotion(b) /\ b.order = x.order /\ b.id = x.id
    BY <1>1
  <1>7. \A x \in Intents \cup Intents' : x.op = "restore" => (x \in Intents <=> x \in Intents')
    BY <1>1, <1>3
  <1> QED BY <1>1, <1>3, <1>4, <1>5, <1>6, <1>7, JournalStep

LEMMA Moves1 ==
    ASSUME IInv, NEW p, NEW q, Movable(tree, p, q), tree' = Moved(tree, p, q), ~ IsTemp(q)
    PROVE  /\ Inherits /\ DataFrom /\ KeepsFiles
           /\ \A y \in DOMAIN tree' : \E r \in DOMAIN tree : y = Landing(p, q, r) /\ tree'[y].id = tree[r].id /\ tree'[y].kind = tree[r].kind
           /\ p \in Path /\ q \in Path /\ p # <<>> /\ q # <<>>
  <1>1. WellFormed(tree, lastId) /\ p \in DOMAIN tree /\ p \in Path /\ q \in Path /\ p # <<>> /\ q # <<>> /\ DOMAIN tree \subseteq Path
    BY Known DEF Worlds, WellFormed, Movable
  <1>2. AfterMove(tree', tree, p, q)
    BY <1>1, MovedIs
  <1>3. \A y \in DOMAIN tree' : \E r \in DOMAIN tree : /\ y = Landing(p, q, r) /\ tree'[y].id = tree[r].id /\ tree'[y].kind = tree[r].kind
                                                       /\ tree[r].kind = "File" => tree'[y].data = tree[r].data
    BY <1>2 DEF AfterMove
  <1>a. \A y \in DOMAIN tree' : \E r \in DOMAIN tree : y = Landing(p, q, r) /\ tree'[y].id = tree[r].id /\ tree'[y].kind = tree[r].kind
    BY <1>3
  <1>4. Inherits /\ DataFrom
    <2> SUFFICES ASSUME NEW y \in DOMAIN tree'
                 PROVE  /\ \E r \in DOMAIN tree : tree'[y].id = tree[r].id /\ tree'[y].kind = tree[r].kind
                        /\ tree'[y].kind = "File" => \E r \in DOMAIN tree : tree[r].kind = "File" /\ tree'[y].data = tree[r].data
      BY DEF Inherits, DataFrom
    <2>1. PICK r \in DOMAIN tree : /\ tree'[y].id = tree[r].id /\ tree'[y].kind = tree[r].kind
                                   /\ tree[r].kind = "File" => tree'[y].data = tree[r].data
      BY <1>3
    <2> QED BY <2>1
  <1>5. ASSUME NEW r \in DOMAIN tree, ~ IsTemp(r) PROVE ~ IsTemp(Landing(p, q, r))
    <2>1. CASE ~ IsPrefix(p, r)
      BY <1>5, <2>1 DEF Landing
    <2>2. CASE IsPrefix(p, r)
      <3> DEFINE s == Rest(p, r)
      <3>1. s \in Path /\ r = p \o s /\ r \in Path
        BY <1>1, <2>2, RestIs
      <3>2. Landing(p, q, r) = q \o s
        BY <2>2 DEF Landing
      <3> HIDE DEF s
      <3>3. /\ s = <<>> => q \o s = q
            /\ s # <<>> => Last(q \o s) = Last(s) /\ Last(p \o s) = Last(s) /\ p \o s # <<>>
        BY <1>1, <3>1, ConcatIs
      <3> QED BY <1>5, <3>1, <3>2, <3>3 DEF IsTemp
    <2> QED BY <2>1, <2>2
  <1>6. KeepsFiles
    BY <1>2, <1>5 DEF AfterMove, KeepsFiles
  <1> QED BY <1>1, <1>a, <1>4, <1>6

(* A move whose destinations are where its objects may be.                 *)
LEMMA Relocates ==
    ASSUME Proper, NEW a, First(a), a.op # "create", Movable(tree, a.path, a.target),
           Did(Moved(tree, a.path, a.target)), ~ IsTemp(a.target),
           \A r \in DOMAIN tree : IsPrefix(a.path, r) => \E y :
               /\ y = Landing(a.path, a.target, r)
               /\ InTemp(y) => tree[r].id \notin Originals
               /\ State = "applying" => \A s : HeldBy(s, tree[r].id) => OutAt(s, y)
               /\ Base /\ tree[r].id \in Originals => \A t \in DOMAIN rows : Returned(t, tree[r].id) => NotAt(t, y),
           a.op = "restore" => IsFile(tree, a.path) /\ tree[a.path].id = a.id
    PROVE  DInv'
  <1> DEFINE p == a.path
             q == a.target
  <1>0. IInv /\ DInv /\ Worlds /\ scenario' = scenario /\ a \in Intents /\ Tables
    BY Known DEF Proper, Still, First
  <1>1. tree' = Moved(tree, p, q) /\ db' = db
    BY DEF Did, Call
  <1>2. /\ journal' = journal /\ links' = links /\ rows' = rows /\ State' = State /\ (Base' <=> Base) /\ Originals' = Originals
        /\ Promote' = Promote
    BY <1>0, <1>1, SameScenario DEF journal, rows, links, pending, index, State, Base
  <1>3. /\ Inherits /\ DataFrom /\ KeepsFiles
        /\ \A y \in DOMAIN tree' : \E r \in DOMAIN tree : y = Landing(p, q, r) /\ tree'[y].id = tree[r].id /\ tree'[y].kind = tree[r].kind
        /\ p \in Path /\ q \in Path
    BY <1>0, <1>1, Moves1
  <1>4. SameHeld /\ Intents' = Intents
    BY <1>2, TablesAlone
  <1>5. ASSUME NEW y \in DOMAIN tree'
        PROVE  \E r \in DOMAIN tree :
                   /\ tree'[y].id = tree[r].id /\ tree'[y].kind = tree[r].kind
                   /\ \/ y = r
                      \/ /\ InTemp(y) => tree[r].id \notin Originals
                         /\ State = "applying" => \A s : HeldBy(s, tree[r].id) => OutAt(s, y)
                         /\ Base /\ tree[r].id \in Originals => \A t \in DOMAIN rows : Returned(t, tree[r].id) => NotAt(t, y)
    <2>1. PICK r \in DOMAIN tree : y = Landing(p, q, r) /\ tree'[y].id = tree[r].id /\ tree'[y].kind = tree[r].kind
      BY <1>3
    <2>2. CASE ~ IsPrefix(p, r)
      BY <2>1, <2>2 DEF Landing
    <2>3. CASE IsPrefix(p, r)
      BY <2>1, <2>3
    <2> QED BY <2>2, <2>3
  <1>6. TempFree'
    <2>1. \A y \in DOMAIN tree' : InTemp(y) => tree'[y].id \notin Originals
      BY <1>0, <1>5 DEF DInv, Objects1, TempFree
    <2> QED BY <1>2, <2>1 DEF TempFree
  <1>7. Distinct'
    BY <1>0, <1>2, <1>4 DEF DInv, Promoted, Distinct, SameHeld
  <1>8. OutOfHiding'
    <2>1. ASSUME State = "applying", NEW y \in DOMAIN tree', NEW s \in DOMAIN links, HeldBy(s, tree'[y].id) PROVE OutAt(s, y)
      BY <1>0, <1>5, <2>1 DEF DInv, Promoted, OutOfHiding
    <2>2. \A s, o, y : State' = "applying" /\ s \in DOMAIN links' /\ y \in DOMAIN tree' /\ o = tree'[y].id /\ HeldBy(s, o)' => OutAt(s, y)
      BY <1>2, <1>4, <2>1 DEF SameHeld
    <2>3. \A s, y : OutAt(s, y)' <=> OutAt(s, y)
      BY DEF OutAt
    <2>4. \A s, o, y : State' = "applying" /\ s \in DOMAIN links' /\ y \in DOMAIN tree' /\ o = tree'[y].id /\ HeldBy(s, o)' => OutAt(s, y)'
      BY <2>2, <2>3
    <2> QED BY <2>4 DEF OutOfHiding
  <1>9. Registration'
    <2> SUFFICES ASSUME Base, NEW t \in DOMAIN rows, NEW o, o = rows[t].tempId, o \in Originals PROVE RegisteredFor(t, o)'
      <3>1. \A t \in DOMAIN rows' : \E o : o = rows'[t].tempId /\ o = rows[t].tempId /\ (Base' => RegisteredFor(t, o)')
        BY <1>2 DEF RegisteredFor
      <3> QED BY <3>1 DEF Registration, RegisteredFor, Returned
    <2>1. RegisteredFor(t, o)
      BY <1>0 DEF DInv, Promoted, Registration
    <2>2. PICK m \in Range(Promote) : m.target = t /\ ((m.source \in DOMAIN links /\ HeldBy(m.source, o)) \/ Returned(t, o))
      BY <2>1 DEF RegisteredFor
    <2>3. HeldBy(m.source, o) => HeldBy(m.source, o)'
      BY <1>4 DEF SameHeld
    <2>4. Returned(t, o) => Returned(t, o)'
      <3> SUFFICES ASSUME Returned(t, o) PROVE Returned(t, o)'
        OBVIOUS
      <3>1. \A y \in DOMAIN tree' : tree'[y].id = o => tree'[y].kind = "File" /\ NotAt(t, y)
        BY <1>5 DEF Returned
      <3>2. \A y : NotAt(t, y)' <=> NotAt(t, y)
        BY DEF NotAt
      <3>3. \A s \in DOMAIN links' : ~ HeldBy(s, o)'
        BY <1>2, <1>4 DEF Returned, SameHeld
      <3>4. State' = "rolling_back"
        BY <1>2 DEF Returned
      <3> QED BY <3>1, <3>2, <3>3, <3>4 DEF Returned
    <2> QED BY <1>2, <2>2, <2>3, <2>4 DEF RegisteredFor
  <1>10. ActedRestore'
    <2>1. \A c \in Intents : c.op = "restore" => c = a
      <3>1. \A c \in Intents : c.op = "restore" => c.op # "remove" /\ ~ IsPromotion(c)
        BY DEF IsPromotion
      <3> QED BY <1>0, <3>1, Alone
    <2>2. a.op = "restore" => IsFile(tree', q) /\ tree'[q].id = a.id
      <3> SUFFICES ASSUME a.op = "restore" PROVE IsFile(tree', q) /\ tree'[q].id = a.id
        OBVIOUS
      <3>1. p \in DOMAIN tree /\ IsPrefix(p, p)
        BY <1>3, PrefixOrder DEF Movable
      <3>2. Landing(p, q, p) = q
        BY <1>0, <1>3, <3>1, FileAlone
      <3>3. AfterMove(tree', tree, p, q)
        BY <1>0, <1>1, MovedIs DEF Worlds
      <3>4. q \in DOMAIN tree' /\ tree'[q].id = tree[p].id /\ tree'[q].kind = tree[p].kind
        BY <3>1, <3>2, <3>3 DEF AfterMove
      <3> QED BY <3>4 DEF IsFile
    <2> QED BY <1>4, <2>1, <2>2 DEF ActedRestore
  <1>11. Promoted'
    BY <1>7, <1>8, <1>9 DEF Promoted
  <1> QED BY <1>1, <1>3, <1>6, <1>10, <1>11, TreeStep

LEMMA RenameMoves ==
    ASSUME Proper, NEW a, First(a), Plain(a), Expected(a, a.path), ~ Exists(a.target), Did(Moved(tree, a.path, a.target))
    PROVE  DInv'
  <1> DEFINE p == a.path
             q == a.target
  <1>0. /\ IInv /\ DInv /\ Tables /\ Worlds /\ scenario \in Scenarios /\ RowOK(a) /\ a \in Intents /\ PlainFact(a)
        /\ p \in DOMAIN tree /\ p \in Path /\ p # <<>> /\ q \in Path /\ q # <<>> /\ Parent(q) = Parent(p) /\ ~ IsTemp(q)
        /\ a.op = "rename"
    <2>1. IInv /\ DInv /\ Tables /\ Worlds /\ scenario \in Scenarios /\ RowOK(a) /\ a \in Intents
      BY Known, FirstIs DEF Proper, First
    <2>2. PlainFact(a)
      BY <2>1 DEF DInv, Actions, IntentFact
    <2> QED BY <2>1, <2>2 DEF RowOK, Expected, Exists, Plain
  <1>1. Movable(tree, p, q)
    BY <1>0, RenameMovable DEF Exists
  <1>2. Preserving(a) => IsTemp(p)
    BY <1>0 DEF RowOK
  <1> HIDE DEF p, q
  <1>3. ASSUME NEW r \in DOMAIN tree, IsPrefix(p, r), NEW y, y = Landing(p, q, r)
        PROVE  /\ InTemp(y) => tree[r].id \notin Originals
               /\ State = "applying" => \A s : HeldBy(s, tree[r].id) => OutAt(s, y)
               /\ Base /\ tree[r].id \in Originals => \A t \in DOMAIN rows : Returned(t, tree[r].id) => NotAt(t, y)
    <2>0. r \in Path /\ TempFree /\ OutOfHiding /\ Indexed /\ Phases
      BY <1>0, Known DEF DInv, Objects1, Promoted, Tables
    <2>1. /\ InTemp(y) => InTemp(r)
          /\ IsTemp(p) => InTemp(r)
          /\ \A s : IsTemp(p) /\ Last(q)[1] \in VisibleForms /\ VisiblePath(s) /\ OutAt(s, r) => OutAt(s, y)
      <3>1. r \in Path
        BY <1>0, Known
      <3> QED BY <1>0, <1>3, <3>1, RenameLands
    <2>2. InTemp(y) => tree[r].id \notin Originals
      BY <1>0, <2>1 DEF DInv, Objects1, TempFree
    <2>3. ASSUME State = "applying", NEW s, HeldBy(s, tree[r].id)
          PROVE  OutAt(s, y)
      <3>1. Base /\ s \in DOMAIN links /\ VisiblePath(s)
        BY <1>0, <2>3, HeldIs, Known DEF Tables, Indexed
      <3>2. OutAt(s, r)
        BY <1>0, <2>3, <3>1 DEF DInv, Promoted, OutOfHiding
      <3>3. Installs(a)
        BY <1>0, <2>3, <3>1 DEF PlainFact, Captures, Uninstalling, Uncovers
      <3> QED BY <2>1, <3>1, <3>2, <3>3 DEF Installs, p, q
    <2>4. ASSUME Base, tree[r].id \in Originals, NEW t \in DOMAIN rows, Returned(t, tree[r].id)
          PROVE  NotAt(t, y)
      <3>1. State = "rolling_back" /\ tree[r].kind = "File" /\ NotAt(t, r)
        BY <2>4 DEF Returned
      <3>2. VisiblePath(t)
        BY <1>0, EntriesAre, Known
      <3>3. ~ IsTemp(p)
        BY <1>0, <2>1, <2>4 DEF DInv, Objects1, TempFree
      <3>4. ~ Captures(a)
        BY <1>0, <2>4, <3>1 DEF Tables, Phases, Captures
      <3>5. CASE Uninstalling(a)
        <4>1. VisiblePath(p) /\ q = RollbackName(p)
          BY <3>5 DEF Uninstalling, p, q
        <4>2. r # p
          <5> SUFFICES ASSUME r = p PROVE FALSE
            OBVIOUS
          <5>1. tree[p].kind = a.kind /\ a.id \in {None, tree[p].id}
            BY <1>2, <3>3 DEF Expected, Preserving, p
          <5> QED BY <2>4, <3>1, <3>5, <5>1 DEF Uninstalling, Foreign
        <4>3. IsPrefix(p, r) /\ y = Landing(p, RollbackName(p), r)
          BY <1>3, <4>1
        <4>4. r \in Path /\ VisiblePath(p) /\ r # p /\ VisiblePath(t)
          BY <2>0, <3>2, <4>1, <4>2
        <4>5. NotAt(t, Landing(p, RollbackName(p), r))
          BY <4>3, <4>4, UninstallLands
        <4> QED BY <4>3, <4>5
      <3>6. CASE Uncovers(a)
        <4>1. VisiblePath(q) /\ Len(q) = 1 /\ p = RecoveryName(q)
          BY <3>6 DEF Uncovers, p, q
        <4>2. IsPrefix(RecoveryName(q), r) /\ y = Landing(RecoveryName(q), q, r)
          BY <1>3, <4>1
        <4>3. r \in Path /\ VisiblePath(q) /\ Len(q) = 1 /\ NotAt(t, r)
          BY <2>0, <3>1, <4>1
        <4>4. NotAt(t, Landing(RecoveryName(q), q, r))
          BY <4>2, <4>3, UncoverLands
        <4> QED BY <4>2, <4>4
      <3> QED BY <1>0, <2>4, <3>3, <3>4, <3>5, <3>6 DEF PlainFact, Installs, p
    <2> QED BY <2>2, <2>3, <2>4
  <1> QED BY <1>0, <1>1, <1>3, Relocates DEF p, q

LEMMA PromotionMoves ==
    ASSUME Proper, NEW a, First(a), IsPromotion(a), Expected(a, a.path), ~ Exists(a.target), IsDir(tree, Parent(a.target)),
           Did(Moved(tree, a.path, a.target))
    PROVE  DInv'
  <1> DEFINE p == a.path
             q == a.target
  <1>0. /\ IInv /\ DInv /\ Tables /\ Worlds /\ RowOK(a) /\ a \in Intents
        /\ p \in DOMAIN tree /\ p \in Path /\ IsFile(tree, p) /\ VisiblePath(q) /\ q \in Path /\ a.op = "rename"
    <2>1. IInv /\ DInv /\ Tables /\ Worlds /\ RowOK(a) /\ a \in Intents /\ a.kind = "File" /\ VisiblePath(a.target)
          /\ ~ Preserving(a)
      BY Known, FirstIs DEF Proper, First, RowOK
    <2> QED BY <2>1, VisibleIs DEF RowOK, Expected, Exists, IsFile, Preserving, IsPromotion
  <1>1. Movable(tree, p, q)
    BY <1>0, FileMovable DEF Exists
  <1>2. State = "applying" /\ Base
    BY <1>0 DEF Tables, Phases, RowOK
  <1>3. ~ IsTemp(q) /\ ~ InTemp(q) /\ q[1][1] # "recovery" /\ q # <<>>
    <2>1. q[1] \in VisibleLeaf /\ q # <<>> /\ Last(q)[1] \in VisibleForms
      BY <1>0, VisibleIs
    <2>2. ~ IsTemp(q) /\ q[1][1] # "recovery"
      BY <2>1 DEF IsTemp, VisibleLeaf, VisibleForms
    <2>3. \A i \in DOMAIN q : q[i] \in VisibleLeaf
      BY <1>0 DEF VisiblePath, Path
    <2>4. ~ InTemp(q)
      BY <2>3 DEF InTemp, VisibleLeaf, VisibleForms
    <2> QED BY <2>1, <2>2, <2>4
  <1> HIDE DEF p, q
  <1>4. ASSUME NEW r \in DOMAIN tree, IsPrefix(p, r), NEW y, y = Landing(p, q, r)
        PROVE  /\ InTemp(y) => tree[r].id \notin Originals
               /\ State = "applying" => \A s : HeldBy(s, tree[r].id) => OutAt(s, y)
               /\ Base /\ tree[r].id \in Originals => \A t \in DOMAIN rows : Returned(t, tree[r].id) => NotAt(t, y)
    <2>1. y = q
      BY <1>0, <1>4, FileAlone
    <2>2. \A t, o : ~ Returned(t, o)
      BY <1>2 DEF Returned
    <2> QED BY <1>3, <2>1, <2>2 DEF OutAt
  <1> QED BY <1>0, <1>1, <1>3, <1>4, Relocates DEF p, q

LEMMA RestoreIsOf ==
    ASSUME Proper, NEW a, First(a), a.op = "restore"
    PROVE  /\ IInv /\ DInv /\ Tables /\ Worlds /\ RowOK(a) /\ a \in Intents /\ a \in journal /\ a.kind = "File" /\ a.id # None
           /\ a.target \in Path /\ Base /\ State = "rolling_back" /\ Intents = {a} /\ ~ IsTemp(a.path) /\ ~ IsPromotion(a)
           /\ ~ IsTemp(a.target) /\ ~ InTemp(a.target) /\ a.target # <<>>
           /\ \E s \in DOMAIN links : links[s].rollback = a.order
           /\ \A s \in DOMAIN links : links[s].rollback = a.order => a.target = HiddenAt(s) /\ HeldBy(s, a.id)
           /\ \A p : Expected(a, p) => IsFile(tree, p) /\ tree[p].id = a.id
  <1>1. IInv /\ DInv /\ Tables /\ Worlds /\ RowOK(a) /\ a \in Intents /\ a \in journal /\ CreationFact(a) /\ IntentFact(a)
        /\ a.kind = "File" /\ a.id # None /\ a.target \in Path /\ ~ IsPromotion(a) /\ ~ Preserving(a) /\ a.outcome = ""
    <2>1. IInv /\ DInv /\ Tables /\ Worlds /\ RowOK(a) /\ a \in Intents /\ a \in journal
      BY Known, FirstIs DEF Proper, First
    <2>2. ~ Preserving(a) /\ a.outcome = ""
      BY <2>1, FirstIs DEF Plain
    <2>3. CreationFact(a) /\ IntentFact(a)
      BY <2>1 DEF DInv, Actions, Objects1, CreateRows
    <2> QED BY <2>1, <2>2, <2>3 DEF RowOK, IsPromotion
  <1>2. /\ Base /\ State = "rolling_back"
        /\ \E s \in DOMAIN links : links[s].rollback = a.order
        /\ \A s \in DOMAIN links : links[s].rollback = a.order => a.target = HiddenAt(s) /\ HeldBy(s, a.id)
    BY <1>1 DEF IntentFact, RestoreFact
  <1>3. ~ IsTemp(a.path)
    BY <1>1 DEF CreationFact, CreatedHere, Kept
  <1>4. Intents = {a}
    BY <1>1, Alone
  <1>5. ~ IsTemp(a.target) /\ ~ InTemp(a.target) /\ a.target # <<>>
    BY <1>1, <1>2, Known, HiddenPlace
  <1>6. \A p : Expected(a, p) => IsFile(tree, p) /\ tree[p].id = a.id
    BY <1>1 DEF Expected, Exists, IsFile, Preserving
  <1> QED BY <1>1, <1>2, <1>3, <1>4, <1>5, <1>6

LEMMA RestoreMoves ==
    ASSUME Proper, NEW a, First(a), a.op = "restore", Expected(a, a.path), ~ Exists(a.target), IsDir(tree, Parent(a.target)),
           Did(Moved(tree, a.path, a.target))
    PROVE  DInv'
  <1> DEFINE p == a.path
             q == a.target
  <1>0. /\ IInv /\ Worlds /\ a.op # "create" /\ q \in Path /\ Base /\ State = "rolling_back" /\ ~ IsTemp(q) /\ ~ InTemp(q)
        /\ \E s \in DOMAIN links : HeldBy(s, a.id)
        /\ IsFile(tree, p) /\ tree[p].id = a.id /\ p \in Path
    <2>1. RowOK(a)
      BY RestoreIsOf
    <2> QED BY <2>1, RestoreIsOf DEF RowOK
  <1>1. Movable(tree, p, q)
    BY <1>0, FileMovable DEF Exists
  <1> HIDE DEF p, q
  <1>2. ASSUME NEW r \in DOMAIN tree, IsPrefix(p, r), NEW y, y = Landing(p, q, r)
        PROVE  /\ InTemp(y) => tree[r].id \notin Originals
               /\ State = "applying" => \A s : HeldBy(s, tree[r].id) => OutAt(s, y)
               /\ Base /\ tree[r].id \in Originals => \A t \in DOMAIN rows : Returned(t, tree[r].id) => NotAt(t, y)
    <2>1. y = q /\ r = p
      BY <1>0, <1>2, FileAlone
    <2> QED BY <1>0, <2>1 DEF Returned
  <1> QED BY <1>0, <1>1, <1>2, Relocates DEF p, q

(* When the restore is complete its source is not away any more.           *)
LEMMA Released ==
    ASSUME Proper, NEW a, First(a), a.op = "restore", Complete(a)
    PROVE  /\ \A z, o : HeldBy(z, o)' <=> HeldBy(z, o) /\ links[z].rollback # a.order
           /\ scenario' = scenario /\ links' = links
  <1>0. /\ a \in Intents /\ a \in journal /\ Intents' = Intents \ {a} /\ links' = links /\ State' = State /\ index' = index
        /\ journal' = Replace(a, CompletedRow(a)) /\ RowOK(a) /\ a.state = "intent" /\ scenario' = scenario
        /\ \A x, c \in journal : x.order = c.order => x = c
    <2>1. /\ a \in Intents /\ a \in journal /\ Intents' = Intents \ {a} /\ links' = links /\ pending' = pending /\ index' = index
          /\ journal' = IF Kept(a) THEN Replace(a, CompletedRow(a)) ELSE journal \ {a}
          /\ RowOK(a) /\ a.state = "intent"
      BY CompleteIs
    <2>2. Kept(a)
      BY DEF Kept
    <2> QED BY <2>1, <2>2, Known DEF Proper, Still, State
  <1> DEFINE d == CompletedRow(a)
  <1>1. d.order = a.order /\ d.op = "restore" /\ d.state = "completed"
    BY <1>0, CompletedRowOK DEF Alike
  <1> HIDE DEF d
  <1>2. \A s, c : CurrentIs(s, c)' <=> CurrentIs(s, c)
    <2>1. ~ IsPromotion(a) /\ ~ IsPromotion(d)
      BY <1>1 DEF IsPromotion
    <2> QED BY <1>0, <2>1 DEF CurrentIs, Replace, d
  <1>3. \A s : (\E b : RestoreIs(s, b)' /\ b.state = "intent") <=> (\E b : RestoreIs(s, b) /\ b.state = "intent") /\ links[s].rollback # a.order
    <2>1. \A s, b : RestoreIs(s, b)' /\ b.state = "intent" => RestoreIs(s, b) /\ b # a
      <3>1. \A b \in journal' : b.state = "intent" => b \in journal /\ b # a
        BY <1>0, <1>1 DEF Replace, d
      <3> QED BY <1>0, <3>1 DEF RestoreIs
    <2>2. \A s, b : RestoreIs(s, b) /\ b.state = "intent" /\ b # a => RestoreIs(s, b)'
      BY <1>0 DEF RestoreIs, Replace
    <2>3. \A s, b : RestoreIs(s, b) => b.order = links[s].rollback /\ b \in journal
      BY DEF RestoreIs
    <2> QED BY <1>0, <2>1, <2>2, <2>3
  <1>4. \A s \in DOMAIN links : links[s].rollback = None => links[s].rollback # a.order
    BY <1>0 DEF RowOK, None
  <1>5. \A s : Away(s)' <=> Away(s) /\ links[s].rollback # a.order
    BY <1>0, <1>3, <1>4 DEF Away
  <1>6. \A z, o : (\E c \in journal' : CurrentIs(z, c)' /\ c.id = o) <=> (\E c \in journal : CurrentIs(z, c) /\ c.id = o)
    BY <1>2 DEF CurrentIs
  <1>7. \A z, o : HeldBy(z, o)' <=> HeldBy(z, o) /\ links[z].rollback # a.order
    BY <1>5, <1>6 DEF HeldBy
  <1> QED BY <1>0, <1>7

LEMMA RestoredTree ==
    ASSUME Proper, NEW a, First(a), a.op = "restore", IsFile(tree, a.target),
           tree' = IF a.stamp = NoStamp THEN tree ELSE Stamped(tree, Parent(a.target), a.stamp)
    PROVE  Stays /\ DataFrom /\ KeepsFiles
  <1>1. IInv /\ Worlds /\ a.target \in Path /\ a.target # <<>>
    BY RestoreIsOf
  <1>2. CASE a.stamp = NoStamp
    BY <1>2 DEF Stays, DataFrom, KeepsFiles
  <1>3. CASE a.stamp # NoStamp
    <2>1. Parent(a.target) \in Path /\ Parent(a.target) # a.target /\ IsPrefix(Parent(a.target), a.target)
      BY <1>1, ParentIs, PrefixOfParent
    <2>2. IsDir(tree, Parent(a.target))
      <3>1. WellFormed(tree, lastId) /\ a.target \in DOMAIN tree
        BY <1>1 DEF Worlds, IsFile
      <3> QED BY <2>1, <3>1 DEF WellFormed
    <2>3. tree[Parent(a.target)].kind # "File"
      BY <2>2 DEF IsDir
    <2>4. tree' = Stamped(tree, Parent(a.target), a.stamp)
      BY <1>3
    <2> QED BY <1>1, <2>3, <2>4, Stamps
  <1> QED BY <1>2, <1>3

LEMMA RestoreCompletes ==
    ASSUME Proper, NEW a, First(a), a.op = "restore", Complete(a), run.acted \/ Expected(a, a.target),
           tree' = IF a.stamp = NoStamp THEN tree ELSE Stamped(tree, Parent(a.target), a.stamp)
    PROVE  DInv'
  <1>0. /\ IInv /\ IInv' /\ DInv /\ Still /\ scenario' = scenario /\ Tables /\ Worlds /\ RowOK(a) /\ a \in Intents /\ Base
        /\ State = "rolling_back" /\ Intents = {a}
        /\ \A s \in DOMAIN links : links[s].rollback = a.order => a.target = HiddenAt(s) /\ HeldBy(s, a.id)
    BY RestoreIsOf DEF Proper, Still
  <1>1. IsFile(tree, a.target) /\ tree[a.target].id = a.id
    <2>1. \A p : Expected(a, p) => IsFile(tree, p) /\ tree[p].id = a.id
      BY RestoreIsOf
    <2>2. run.acted => IsFile(tree, a.target) /\ tree[a.target].id = a.id
      BY <1>0 DEF DInv, ActedRestore
    <2> QED BY <2>1, <2>2
  <1>2. Stays /\ DataFrom /\ KeepsFiles
    BY <1>1, RestoredTree
  <1>3. /\ Intents' = {} /\ pending' = pending /\ rows' = rows /\ recoveries' = recoveries
        /\ links' = links /\ index' = index /\ lastId' = lastId /\ (Base' <=> Base) /\ State' = State
        /\ \A x \in journal' : x \in journal \/ CreationFact(x)
    <2>1. /\ Intents' = Intents \ {a} /\ pending' = pending /\ rows' = rows /\ recoveries' = recoveries
          /\ links' = links /\ index' = index /\ lastId' = lastId
          /\ \A x \in journal' : x \in journal \/ (x = CompletedRow(a) /\ Kept(a) /\ CreationFact(x))
      BY CompleteIs
    <2> QED BY <1>0, <2>1 DEF Base, State
  <1>4. \A z, o : HeldBy(z, o)' <=> HeldBy(z, o) /\ links[z].rollback # a.order
    BY Released
  <1>5. Actions' /\ ActedRestore'
    BY <1>0, <1>3, NoIntents
  <1>6. Objects1'
    <2>1. Inherits
      BY <1>2, StaysInherits
    <2>2. TempFree' /\ DirectoryRows'
      BY <1>0, <1>2, <1>3, <2>1, TempFreeStays, RowsStay DEF DInv, Objects1
    <2>3. \A x \in journal' : CreationFact(x)'
      <3> SUFFICES ASSUME NEW x \in journal' PROVE CreationFact(x)'
        OBVIOUS
      <3>1. CASE x \in journal
        BY <1>0, <2>1, <3>1, RowsStay DEF DInv, Objects1, CreateRows
      <3>2. CASE x \notin journal
        <4>1. x = CompletedRow(a) /\ CreationFact(x)
          BY <3>2, CompleteIs
        <4>2. x.op # "create"
          <5>1. a.state = "intent"
            BY <1>0, FirstIs
          <5> QED BY <1>0, <4>1, <5>1, CompletedRowOK DEF Alike
        <4>3. CreatedHere(x)' <=> CreatedHere(x)
          BY DEF CreatedHere, IsTemp, Kept, IsPromotion
        <4>4. Creates(x)'
          BY <4>2 DEF Creates
        <4> QED BY <4>1, <4>3, <4>4 DEF CreationFact
      <3> QED BY <3>1, <3>2
    <2>4. CreateRows'
      BY <2>3 DEF CreateRows
    <2> QED BY <2>2, <2>4 DEF Objects1
  <1>7. Contents1'
    <2>1. FutureFree' /\ AllKept'
      BY <1>0, <1>2, <1>3, ContentsKept DEF DInv, Contents1
    <2>2. Shapes'
      BY <1>0, <1>3, SafeStays DEF DInv, Contents1
    <2> QED BY <2>1, <2>2 DEF Contents1
  <1>8. Distinct' /\ OutOfHiding'
    <2>1. OutOfHiding'
      BY <1>0, <1>3 DEF OutOfHiding
    <2>2. Distinct'
      BY <1>0, <1>3, <1>4 DEF DInv, Promoted, Distinct
    <2> QED BY <2>1, <2>2
  <1>9. ASSUME NEW y \in DOMAIN tree', NEW o \in Nat, o <= lastId, tree'[y].id = o
        PROVE  y \in DOMAIN tree /\ tree[y].id = o /\ tree[y].kind = tree'[y].kind
    BY <1>0, <1>2, <1>9, Known DEF Stays
  <1>10. Registration'
    <2>1. \A t \in DOMAIN rows' : \E o : o = rows'[t].tempId /\ RegisteredFor(t, o)'
      <3> SUFFICES ASSUME NEW t \in DOMAIN rows, NEW o, o = rows[t].tempId, o \in Originals PROVE RegisteredFor(t, o)'
        <4>1. \A t \in DOMAIN rows' : \E o : o = rows'[t].tempId /\ o = rows[t].tempId /\ RegisteredFor(t, o)'
          BY <1>0, <1>3, SameScenario DEF RegisteredFor
        <4> QED BY <4>1
      <3>0. o \in Nat /\ o <= lastId /\ VisiblePath(t) /\ Promote' = Promote
        BY <1>0, Known, EntriesAre, SameScenario
      <3>1. RegisteredFor(t, o)
        BY <1>0 DEF DInv, Promoted, Registration
      <3>2. PICK m \in Range(Promote) : m.target = t /\ ((m.source \in DOMAIN links /\ HeldBy(m.source, o)) \/ Returned(t, o))
        BY <3>1 DEF RegisteredFor
      <3>3. CASE m.source \in DOMAIN links /\ HeldBy(m.source, o) /\ links[m.source].rollback # a.order
        BY <1>3, <1>4, <3>0, <3>2, <3>3 DEF RegisteredFor
      <3>4. ASSUME m.source \in DOMAIN links, HeldBy(m.source, o), links[m.source].rollback = a.order
            PROVE  Returned(t, o)'
        <4>1. a.target = HiddenAt(m.source) /\ o = a.id /\ VisiblePath(m.source)
          BY <1>0, <3>4, HeldIs, Known
        <4>2. NotAt(t, a.target)
          <5>1. Unseen(a.target) = m.source
            BY <4>1, HiddenPlace
          <5>2. m.source # t
            BY <1>0, <3>2, PromoteAre, Known DEF Range
          <5>3. m.source # RollbackName(t)
            <6>1. Last(m.source)[1] \in VisibleForms
              BY <4>1, VisibleIs
            <6>2. Last(RollbackName(t))[1] = "rollback"
              BY <3>0, InternalIs DEF RollbackName, InternalForms
            <6> QED BY <6>1, <6>2 DEF VisibleForms
          <5> QED BY <5>1, <5>2, <5>3 DEF NotAt
        <4>3. \A y \in DOMAIN tree' : tree'[y].id = o => tree'[y].kind = "File" /\ NotAt(t, y)
          <5> SUFFICES ASSUME NEW y \in DOMAIN tree', tree'[y].id = o PROVE tree'[y].kind = "File" /\ NotAt(t, y)
            OBVIOUS
          <5>1. y \in DOMAIN tree /\ tree[y].id = o /\ tree[y].kind = tree'[y].kind
            BY <1>9, <3>0
          <5>2. y = a.target
            <6>1. a.target \in DOMAIN tree /\ tree[a.target].id = o
              BY <1>1, <4>1 DEF IsFile
            <6> QED BY <1>0, <5>1, <6>1, Known
          <5> QED BY <1>1, <4>2, <5>1, <5>2 DEF IsFile
        <4>4. \A z \in DOMAIN links' : ~ HeldBy(z, o)'
          <5>1. \A z : HeldBy(z, o) => z = m.source
            BY <1>0, <3>4 DEF DInv, Promoted, Distinct
          <5> QED BY <1>4, <3>4, <5>1
        <4>5. \A y : NotAt(t, y)' <=> NotAt(t, y)
          BY DEF NotAt
        <4> QED BY <1>0, <1>3, <4>3, <4>4, <4>5 DEF Returned
      <3>5. ASSUME Returned(t, o)
            PROVE  Returned(t, o)'
        <4>1. \A y \in DOMAIN tree' : tree'[y].id = o => tree'[y].kind = "File" /\ NotAt(t, y)
          BY <1>9, <3>0, <3>5 DEF Returned
        <4>2. \A z \in DOMAIN links' : ~ HeldBy(z, o)'
          BY <1>3, <1>4, <3>5 DEF Returned
        <4>3. \A y : NotAt(t, y)' <=> NotAt(t, y)
          BY DEF NotAt
        <4> QED BY <1>0, <1>3, <4>1, <4>2, <4>3 DEF Returned
      <3> QED BY <3>0, <3>2, <3>3, <3>4, <3>5 DEF RegisteredFor
    <2> QED BY <2>1 DEF Registration, RegisteredFor, Returned
  <1>11. Promoted'
    BY <1>8, <1>10 DEF Promoted
  <1> QED BY <1>5, <1>6, <1>7, <1>11 DEF DInv

(***************************************************************************)
(* Execution: the other actions, and all of them.                          *)
(***************************************************************************)
LEMMA Calling ==
    ASSUME Proper, NEW a, First(a), a.op # "restore", db' = db, Stays, DataFrom, KeepsFiles
    PROVE  DInv'
  <1>1. IInv /\ Tables /\ a \in Intents
    BY Known DEF Proper, First
  <1>2. \A c \in Intents : c.op # "restore"
    <2> SUFFICES ASSUME NEW c \in Intents, c.op = "restore" PROVE FALSE
      OBVIOUS
    <2>1. Intents = {c}
      BY <1>1, Alone DEF IsPromotion
    <2> QED BY <1>1, <2>1
  <1>3. Intents' = Intents
    BY DEF Intents, journal
  <1>4. ActedRestore'
    BY <1>2, <1>3 DEF ActedRestore
  <1> QED BY <1>4, StayStep

LEMMA CreateDoes ==
    ASSUME Proper, NEW a, First(a), a.op = "create", CreateStep(a)
    PROVE  DInv'
  <1>0. IInv /\ RowOK(a) /\ a.path \in Path /\ a.path # <<>> /\ a.kind \in Kinds
    <2>1. RowOK(a)
      BY FirstIs DEF Proper
    <2> QED BY <2>1 DEF Proper, RowOK, IsTemp
  <1>1. CASE run.acted /\ a.id = None /\ Tx([db EXCEPT !.journal = Replace(a, [a EXCEPT !.id = tree[a.path].id])])
    BY <1>1, IdentifyDoes
  <1>2. CASE Done(a)
    BY <1>2, DoneDoes
  <1>3. CASE ~ Exists(a.path) /\ IsDir(tree, Parent(a.path)) /\ Create(a)
    <2>1. tree' = Made(tree, a.path, lastId + 1, a.kind, IF a.kind = "File" THEN Blank ELSE Now) /\ db' = db
      BY <1>3 DEF Create
    <2>2. a.kind = "File" => (IF a.kind = "File" THEN Blank ELSE Now) \notin Range(EditData)
      BY EditAssumption DEF EditAssumption
    <2> DEFINE x == IF a.kind = "File" THEN Blank ELSE Now
    <2>3. a.kind = "File" => x \notin Range(EditData)
      BY <2>2
    <2>4. tree' = Made(tree, a.path, lastId + 1, a.kind, x) /\ a.path \notin DOMAIN tree
      BY <1>3, <2>1 DEF Exists
    <2> HIDE DEF x
    <2>5. Stays /\ DataFrom /\ KeepsFiles
      BY <1>0, <1>3, <2>3, <2>4, Makes
    <2> QED BY <2>1, <2>5, Calling
  <1>4. CASE Fail
    BY <1>4, Failing
  <1>5. CASE ~ run.acted /\ RollBackUnknown(a)
    BY <1>5, RollBackUnknownDoes
  <1> QED BY <1>1, <1>2, <1>3, <1>4, <1>5 DEF CreateStep, Require

LEMMA RemoveDoes ==
    ASSUME Proper, NEW a, First(a), a.op = "remove", RemoveStep(a)
    PROVE  DInv'
  <1>1. CASE Done(a)
    BY <1>1, DoneDoes
  <1>2. CASE Fail
    BY <1>2, Failing
  <1>3. CASE Removable(a) /\ Did(Removed(tree, a.path))
    <2> DEFINE p == a.path
    <2>0. /\ IInv /\ Worlds /\ WellFormed(tree, lastId) /\ RowOK(a) /\ RemovalFact(a) /\ p # <<>> /\ p \in DOMAIN tree /\ p \in Path
          /\ tree[p].kind = a.kind /\ a.id \in {None, tree[p].id}
          /\ a.kind = "File" => a.shape \in {NoShape, Shape(tree, p)}
      <3>1. IInv /\ Worlds /\ RowOK(a) /\ a \in Intents
        BY FirstIs, Known DEF Proper, First
      <3>2. RemovalFact(a)
        BY <3>1 DEF Proper, DInv, Actions, IntentFact
      <3>3. ~ Preserving(a)
        BY <3>1 DEF RowOK, Plain
      <3> QED BY <1>3, <3>1, <3>2, <3>3 DEF RowOK, Removable, Expected, Exists, Preserving, Worlds
    <2>1. tree' = Removed(tree, p) /\ db' = db
      BY <1>3 DEF Did, Call
    <2>2. AfterRemove(tree', tree, p)
      BY <2>0, <2>1, RemovedIs DEF WellFormed
    <2>3. IsDir(tree, Parent(p)) /\ Parent(p) # p
      <3>1. Parent(p) \in Path /\ IsPrefix(Parent(p), p) /\ Parent(p) # p
        BY <2>0, ParentIs, PrefixOfParent
      <3> QED BY <2>0, <3>1 DEF WellFormed
    <2>4. tree[Parent(p)].kind # "File"
      BY <2>3 DEF IsDir
    <2>5. tree[p].kind = "File" /\ ~ IsTemp(p) => Replaceable(p)
      <3> SUFFICES ASSUME tree[p].kind = "File", ~ IsTemp(p) PROVE Replaceable(p)
        OBVIOUS
      <3>1. a.shape # NoShape /\ Safe(a.shape[<<>>].data) /\ (Base => Foreign(a))
        BY <2>0 DEF RemovalFact
      <3>2. a.shape = Shape(tree, p)
        BY <2>0, <3>1
      <3>3. Shape(tree, p)[<<>>].data = tree[p].data
        <4>1. Shape(tree, p)[<<>>] = [kind |-> tree[p].kind, data |-> tree[p].data]
          BY <2>0, ObjectIs
        <4> QED BY <4>1
      <3>4. Base => tree[p].id \notin Originals
        BY <2>0, <3>1 DEF Foreign
      <3>5. Safe(tree[p].data)
        BY <3>1, <3>2, <3>3
      <3> QED BY <3>4, <3>5 DEF Replaceable
    <2> HIDE DEF p
    <2>6. Stays
      BY <2>2 DEF Stays, AfterRemove
    <2>7. DataFrom
      BY <2>2, <2>4 DEF DataFrom, AfterRemove
    <2>8. KeepsFiles
      <3> SUFFICES ASSUME NEW r \in DOMAIN tree, tree[r].kind = "File", ~ IsTemp(r), r # p
                   PROVE  \E q \in DOMAIN tree' : /\ tree'[q].kind = "File" /\ ~ IsTemp(q)
                                                  /\ tree'[q].data = tree[r].data /\ tree'[q].id = tree[r].id
        BY <2>5 DEF KeepsFiles
      <3>1. r \in DOMAIN tree' /\ r # Parent(p)
        BY <2>2, <2>4 DEF AfterRemove
      <3> QED BY <2>2, <3>1 DEF AfterRemove
    <2> QED BY <2>1, <2>6, <2>7, <2>8, Calling
  <1> QED BY <1>1, <1>2, <1>3 DEF RemoveStep

LEMMA MtimeDoes ==
    ASSUME Proper, NEW a, First(a), a.op = "mtime", MtimeStep(a)
    PROVE  DInv'
  <1>1. CASE Done(a)
    BY <1>1, DoneDoes
  <1>2. CASE Fail
    BY <1>2, Failing
  <1>3. CASE Expected(a, a.path) /\ Did(Stamped(tree, a.path, a.stamp))
    <2>1. IInv /\ RowOK(a) /\ a \in Intents
      BY FirstIs, Known DEF Proper, First
    <2>2. StampFact(a)
      BY <2>1 DEF Proper, DInv, Actions, IntentFact
    <2>3. ~ Preserving(a)
      BY <2>1 DEF RowOK, Plain
    <2>4. a.path \in DOMAIN tree /\ tree[a.path].kind = "File" => IsTemp(a.path) /\ a.stamp \notin Range(EditData)
      BY <1>3, <2>2, <2>3 DEF StampFact, Expected, Preserving
    <2>5. tree' = Stamped(tree, a.path, a.stamp) /\ db' = db
      BY <1>3 DEF Did, Call
    <2>6. Stays /\ DataFrom /\ KeepsFiles
      BY <2>1, <2>4, <2>5, Stamps
    <2> QED BY <2>5, <2>6, Calling
  <1> QED BY <1>1, <1>2, <1>3 DEF MtimeStep

LEMMA RestoreDoes ==
    ASSUME Proper, NEW a, First(a), a.op = "restore", RestoreStep(a)
    PROVE  DInv'
  <1>1. CASE run.acted \/ (~ Exists(a.path) /\ Expected(a, a.target))
    <2>1. Complete(a) /\ tree' = IF a.stamp = NoStamp THEN tree ELSE Stamped(tree, Parent(a.target), a.stamp)
      BY <1>1 DEF RestoreStep
    <2> QED BY <1>1, <2>1, RestoreCompletes
  <1>2. CASE Fail
    BY <1>2, Failing
  <1>3. CASE /\ Expected(a, a.path) /\ ~ Exists(a.target) /\ IsDir(tree, Parent(a.target))
             /\ Did(Moved(tree, a.path, a.target))
    BY <1>3, RestoreMoves
  <1> QED BY <1>1, <1>2, <1>3 DEF RestoreStep, Require

LEMMA PromotionDoes ==
    ASSUME Proper, NEW a, First(a), IsPromotion(a), PromotionStep(a)
    PROVE  DInv'
  <1>0. a.op # "restore"
    BY DEF IsPromotion
  <1>1. CASE Done(a)
    BY <1>0, <1>1, DoneDoes
  <1>2. CASE Fail
    BY <1>2, Failing
  <1>3. CASE ~ run.acted /\ Exists(a.target) /\ PreserveCollision(a)
    <2>1. CASE tree[a.target].kind = "File"
      BY <1>3, <2>1, CollisionDoes
    <2>2. CASE tree[a.target].kind # "File"
      BY <1>3, <2>2, Failing DEF PreserveCollision
    <2> QED BY <2>1, <2>2
  <1>4. CASE /\ Expected(a, a.path) /\ ~ Exists(a.target) /\ IsDir(tree, Parent(a.target))
             /\ Did(Moved(tree, a.path, a.target))
    BY <1>4, PromotionMoves
  <1> QED BY <1>1, <1>2, <1>3, <1>4 DEF PromotionStep, Require

LEMMA RenameDoes ==
    ASSUME Proper, NEW a, First(a), a.op = "rename", ~ IsPromotion(a), RenameStep(a)
    PROVE  DInv'
  <1>0. Plain(a) /\ a.op # "restore"
    BY DEF Plain, IsPromotion
  <1>1. CASE Done(a)
    BY <1>0, <1>1, DoneDoes
  <1>2. CASE Fail
    BY <1>2, Failing
  <1>3. CASE Expected(a, a.path) /\ ~ Exists(a.target) /\ Did(Moved(tree, a.path, a.target))
    BY <1>0, <1>3, RenameMoves
  <1>4. CASE ~ run.acted /\ a.outcome = "preserve_unknown" /\ AdvancePreserved(a)
    BY <1>4, AdvanceDoes DEF Preserving
  <1> QED BY <1>1, <1>2, <1>3, <1>4 DEF RenameStep

LEMMA ExecuteDoes ==
    ASSUME Proper, Execute
    PROVE  DInv'
  <1> DEFINE a == Current
  <1>1. Tables /\ Intents # {} /\ IInv
    BY Known DEF Proper, Execute
  <1>2. First(a) /\ a \in journal /\ RowOK(a)
    <2>1. First(a)
      BY <1>1, CurrentIntent DEF First
    <2> QED BY <1>1, <2>1, FirstIs
  <1>3. CASE a.op \in {"create", "remove", "mtime", "restore"}
    BY <1>2, <1>3, CreateDoes, RemoveDoes, MtimeDoes, RestoreDoes DEF Execute
  <1>4. CASE a.op = "rename"
    BY <1>2, <1>4, PromotionDoes, RenameDoes DEF Execute
  <1> QED BY <1>2, <1>3, <1>4 DEF RowOK

(***************************************************************************)
(* The user changes one file, at p: it may be there before, with a content *)
(* he gives up, and there afterwards, with what he writes.                 *)
(***************************************************************************)
Same1(q) == /\ q \in DOMAIN tree /\ q \in DOMAIN tree' /\ tree'[q].id = tree[q].id /\ tree'[q].kind = tree[q].kind
            /\ tree[q].kind = "File" => tree'[q].data = tree[q].data
Fresh(q) == /\ tree'[q].kind = "File" /\ tree'[q].data = Written /\ ~ IsTemp(q)
            /\ tree'[q].id > lastId \/ (q \in DOMAIN tree /\ tree'[q].id = tree[q].id /\ tree'[q].kind = tree[q].kind)
EditsAt(p, lost, new) ==
    /\ \A q \in DOMAIN tree' : Same1(q) \/ (q = p /\ new = {Written} /\ Fresh(q))
    /\ \A r \in DOMAIN tree : r # p => Same1(r)
    /\ new = {} \/ (new = {Written} /\ p \in DOMAIN tree' /\ Fresh(p))
    /\ p \in DOMAIN tree => tree[p].data \in lost
    /\ p \in DOMAIN tree /\ Hidden(p) => p \in DOMAIN tree' /\ tree'[p].id = tree[p].id /\ tree'[p].kind = tree[p].kind

LEMMA WritesNew ==
    ASSUME IInv, FutureFree, NEW lost, NEW new, Edit(lost, new)
    PROVE  /\ Written \in Future /\ Written \in Range(EditData) /\ Written \notin Future' /\ Future' \subseteq Future
           /\ Written \notin BaseData
  <1>1. edits \in Nat /\ scenario.edits \in Nat /\ edits + 1 <= scenario.edits /\ edits' = edits + 1 /\ scenario' = scenario /\ scenario \in Scenarios
    <2>1. scenario.edits \in Nat /\ edits \in 0 .. scenario.edits /\ scenario \in Scenarios
      BY ScenarioAssumption DEF IInv, Worlds
    <2> QED BY <2>1 DEF Edit
  <1>2. scenario.edits <= Len(EditData) /\ Len(EditData) \in Nat /\ DOMAIN EditData = 1 .. Len(EditData)
        /\ \A i, j \in DOMAIN EditData : EditData[i] = EditData[j] => i = j
    <2>1. EditData \in Seq(Range(EditData)) /\ \A i, j \in DOMAIN EditData : EditData[i] = EditData[j] => i = j
      BY EditAssumption DEF EditAssumption
    <2>2. scenario.edits \in 0 .. Len(EditData)
      BY <1>1, ScenarioAssumption
    <2> QED BY <2>1, <2>2
  <1>3. edits + 1 \in DOMAIN EditData /\ edits + 1 \in edits + 1 .. Len(EditData)
    BY <1>1, <1>2
  <1>4. Written \in Future /\ Written \in Range(EditData)
    BY <1>3 DEF Written, Future, Range
  <1>5. Future' = {EditData[i] : i \in edits + 1 + 1 .. Len(EditData)}
    BY <1>1 DEF Future
  <1>6. \A i \in edits + 1 + 1 .. Len(EditData) : i \in edits + 1 .. Len(EditData) /\ i # edits + 1 /\ i \in DOMAIN EditData
    BY <1>1, <1>2
  <1>7. Future' \subseteq Future
    BY <1>5, <1>6 DEF Future
  <1>8. Written \notin Future'
    BY <1>2, <1>3, <1>5, <1>6 DEF Written
  <1>9. Written \notin BaseData
    <2>1. \A e \in Range(scenario.base) : e.data \notin Range(EditData)
      BY <1>1, BaseIs DEF Range
    <2> QED BY <1>4, <2>1 DEF BaseData
  <1> QED BY <1>4, <1>7, <1>8, <1>9

LEMMA HiddenIsHidden ==
    ASSUME NEW s, VisiblePath(s)
    PROVE  Hidden(HiddenAt(s))
  <1>1. HiddenAt(s) \in Path /\ HiddenAt(s) # <<>> /\ HiddenAt(s)[1] = <<"recovery", s[1], 0>>
    BY HiddenAtIs
  <1>2. Len(HiddenAt(s)) \in Nat \ {0}
    BY <1>1, ParentIs
  <1>3. 1 \in DOMAIN HiddenAt(s)
    BY <1>1, <1>2 DEF Path
  <1> QED BY <1>1, <1>3 DEF Hidden, VisibleForms

LEMMA UserStep ==
    ASSUME IInv, IInv', DInv, NEW p, NEW lost, NEW new, Edit(lost, new), EditsAt(p, lost, new)
    PROVE  DInv'
  <1>0. /\ db' = db /\ run' = run /\ scenario' = scenario /\ adopted' = adopted /\ owed' = (owed \ lost) \cup new /\ FutureFree
        /\ Written \in Future /\ Written \in Range(EditData) /\ Written \notin Future' /\ Future' \subseteq Future
        /\ Written \notin BaseData /\ new \subseteq {Written}
    <2>1. FutureFree
      BY DEF DInv, Contents1
    <2>2. new \subseteq {Written}
      BY DEF EditsAt
    <2> QED BY <2>1, <2>2, WritesNew DEF Edit
  <1>1. /\ journal' = journal /\ rows' = rows /\ recoveries' = recoveries /\ links' = links /\ pending' = pending /\ index' = index
        /\ Intents' = Intents /\ State' = State /\ (Base' <=> Base)
    BY <1>0 DEF journal, rows, recoveries, links, pending, index, Intents, State, Base
  <1>2. SameHeld /\ StateGoes
    BY <1>1, TablesAlone DEF StateGoes
  <1>3. Stays
    BY DEF EditsAt, Same1, Fresh, Stays
  <1>4. \A d : Safe(d) => Safe(d)'
    BY <1>0, SameScenario DEF Safe
  <1>5. Actions'
    BY <1>0, <1>1, <1>2, <1>4, FactsGo DEF Actions, DInv
  <1>6. Objects1'
    <2>1. TempFree'
      BY <1>0, <1>3, TempFreeStays DEF DInv, Objects1
    <2>2. CreateRows' /\ DirectoryRows'
      BY <1>0, <1>1, <1>3, StaysInherits, RowsStay DEF DInv, Objects1
    <2> QED BY <2>1, <2>2 DEF Objects1
  <1>7. Promoted'
    BY <1>0, <1>1, <1>2, <1>3, PromotedStays, RegisteredRows DEF DInv, Promoted
  <1>8. Shapes'
    <2>1. \A shape : SafeShape(shape) => SafeShape(shape)'
      BY <1>4 DEF SafeShape
    <2> QED BY <1>1, <2>1 DEF DInv, Contents1, Shapes
  <1>9. FutureFree'
    <2>1. \A q \in DOMAIN tree' : tree'[q].kind = "File" => tree'[q].data \notin Future'
      BY <1>0 DEF EditsAt, Same1, Fresh, FutureFree
    <2>2. owed' \cap Future' = {} /\ owed' \subseteq BaseData' \cup Range(EditData)
      BY <1>0, SameScenario DEF FutureFree
    <2> QED BY <2>1, <2>2 DEF FutureFree
  <1>10. AllKept'
    <2>1. Discarded' = Discarded /\ BaseData' = BaseData /\ Originals' = Originals
      BY <1>0, <1>1, SameScenario DEF Discarded
    <2> SUFFICES ASSUME NEW d \in owed', d \notin adopted, d \notin Discarded PROVE \E q : KeptAt(q, d)'
      BY <1>0, <2>1 DEF AllKept
    <2>2. CASE d \in new
      <3>1. d = Written /\ p \in DOMAIN tree' /\ Fresh(p)
        BY <1>0, <2>2 DEF EditsAt
      <3>2. KeptAt(p, d)'
        BY <1>0, <2>1, <3>1 DEF KeptAt, Fresh, IsTemp
      <3> QED BY <3>2
    <2>3. CASE d \notin new
      <3>1. d \in owed /\ d \notin lost
        BY <1>0, <2>3
      <3>2. PICK r : KeptAt(r, d)
        BY <3>1 DEF DInv, Contents1, AllKept
      <3>3. r # p /\ r \in DOMAIN tree
        BY <3>1, <3>2 DEF KeptAt, EditsAt
      <3>4. Same1(r)
        BY <3>3 DEF EditsAt
      <3>5. KeptAt(r, d)'
        BY <2>1, <3>2, <3>4 DEF KeptAt, Same1, IsTemp
      <3> QED BY <3>5
    <2> QED BY <2>2, <2>3
  <1>11. ActedRestore'
    <2> SUFFICES ASSUME run.acted, NEW a \in Intents, a.op = "restore"
                 PROVE  IsFile(tree', a.target) /\ tree'[a.target].id = a.id
      BY <1>0, <1>1 DEF ActedRestore
    <2>1. IsFile(tree, a.target) /\ tree[a.target].id = a.id
      BY DEF DInv, ActedRestore
    <2>2. Hidden(a.target)
      <3>1. RestoreFact(a)
        BY DEF DInv, Actions, IntentFact
      <3>2. PICK s \in DOMAIN links : a.target = HiddenAt(s)
        BY <3>1 DEF RestoreFact
      <3>3. VisiblePath(s)
        BY Known
      <3> QED BY <3>2, <3>3, HiddenIsHidden
    <2>3. CASE a.target = p
      BY <2>1, <2>2, <2>3 DEF EditsAt, IsFile
    <2>4. CASE a.target # p
      BY <2>1, <2>4 DEF EditsAt, Same1, IsFile
    <2> QED BY <2>3, <2>4
  <1>12. Contents1'
    BY <1>8, <1>9, <1>10 DEF Contents1
  <1> QED BY <1>5, <1>6, <1>7, <1>11, <1>12 DEF DInv

LEMMA WriteDoes == IInv /\ IInv' /\ DInv /\ Write => DInv'
  <1> SUFFICES ASSUME IInv, IInv', DInv, Write PROVE DInv'
    OBVIOUS
  <1>1. PICK p \in Files : Last(p)[1] # "temp" /\ Edit({tree[p].data}, {Written}) /\ tree' = Stamped(tree, p, Written)
    BY DEF Write
  <1>2. p \in DOMAIN tree /\ tree[p].kind = "File" /\ ~ IsTemp(p)
    BY <1>1, FileIs DEF IsFile, IsTemp
  <1>3. AfterStamp(tree', tree, p, Written)
    BY <1>1, AnotherEdit, StampedIs DEF WellFormed
  <1>4. \A r \in DOMAIN tree : r # p => Same1(r)
    BY <1>3 DEF AfterStamp, Keeps, Same1
  <1>5. Fresh(p) /\ p \in DOMAIN tree' /\ tree'[p].id = tree[p].id /\ tree'[p].kind = tree[p].kind
    BY <1>2, <1>3 DEF AfterStamp, Keeps, Fresh
  <1>6. DOMAIN tree' = DOMAIN tree
    BY <1>3 DEF AfterStamp
  <1>7. EditsAt(p, {tree[p].data}, {Written})
    BY <1>2, <1>4, <1>5, <1>6 DEF EditsAt
  <1> QED BY <1>1, <1>7, UserStep

LEMMA CreateFileDoes == IInv /\ IInv' /\ DInv /\ CreateFile => DInv'
  <1> SUFFICES ASSUME IInv, IInv', DInv, CreateFile PROVE DInv'
    OBVIOUS
  <1>1. PICK p \in scenario.names : /\ ~ Exists(p) /\ Exists(Parent(p)) /\ tree[Parent(p)].kind = "Directory"
                                    /\ Edit({}, {Written})
                                    /\ tree' = Made(tree, p, lastId + 1, "File", Written) /\ lastId' = lastId + 1
    BY DEF CreateFile
  <1>2. lastId \in Nat /\ WellFormed(tree, lastId) /\ scenario \in Scenarios
    BY <1>1, AnotherEdit
  <1>3. ~ IsTemp(p) /\ p \notin DOMAIN tree /\ Parent(p) # p /\ "File" \in Kinds
    <2>1. VisiblePath(p)
      BY <1>2, ScenarioAssumption
    <2>2. p \in Path /\ ~ Hidden(p)
      BY <2>1, VisibleIs
    <2> QED BY <1>1, <2>2, TempIsHidden DEF Exists, Kinds
  <1>4. AfterMake(tree', tree, p, lastId + 1, "File", Written)
    BY <1>2, <1>3, <1>1, MadeIs DEF WellFormed
  <1>5. \A r \in DOMAIN tree : Same1(r)
    BY <1>1, <1>3, <1>4 DEF AfterMake, Keeps, Same1
  <1>6. Fresh(p) /\ p \in DOMAIN tree' /\ DOMAIN tree' = DOMAIN tree \cup {p}
    BY <1>2, <1>3, <1>4 DEF AfterMake, Fresh
  <1>7. EditsAt(p, {}, {Written})
    BY <1>3, <1>5, <1>6 DEF EditsAt
  <1> QED BY <1>1, <1>7, UserStep

LEMMA DeleteFileDoes == IInv /\ IInv' /\ DInv /\ DeleteFile => DInv'
  <1> SUFFICES ASSUME IInv, IInv', DInv, DeleteFile PROVE DInv'
    OBVIOUS
  <1>1. PICK p \in Files : ~ Hidden(p) /\ Edit({tree[p].data}, {}) /\ tree' = Removed(tree, p)
    BY DEF DeleteFile
  <1>2. p \in DOMAIN tree /\ IsDir(tree, Parent(p)) /\ WellFormed(tree, lastId)
    BY <1>1, FileIs, AnotherEdit DEF IsFile
  <1>3. AfterRemove(tree', tree, p)
    BY <1>1, <1>2, RemovedIs DEF WellFormed
  <1>4. tree[Parent(p)].kind # "File"
    BY <1>2 DEF IsDir
  <1>5. \A r \in DOMAIN tree : r # p => Same1(r)
    BY <1>3, <1>4 DEF AfterRemove, Same1
  <1>6. DOMAIN tree' = DOMAIN tree \ {p}
    BY <1>3 DEF AfterRemove
  <1>7. EditsAt(p, {tree[p].data}, {})
    BY <1>1, <1>5, <1>6 DEF EditsAt
  <1> QED BY <1>1, <1>7, UserStep

LEMMA ReplaceFileDoes == IInv /\ IInv' /\ DInv /\ ReplaceFile => DInv'
  <1> SUFFICES ASSUME IInv, IInv', DInv, ReplaceFile PROVE DInv'
    OBVIOUS
  <1>1. PICK p \in Files : /\ ~ Hidden(p) /\ Edit({tree[p].data}, {Written})
                           /\ tree' = Made(Removed(tree, p), p, lastId + 1, "File", Written) /\ lastId' = lastId + 1
    BY DEF ReplaceFile
  <1>2. /\ p \in Path /\ p \in DOMAIN tree /\ IsDir(tree, Parent(p)) /\ WellFormed(tree, lastId) /\ Parent(p) # p /\ ~ IsTemp(p)
        /\ lastId \in Nat /\ "File" \in Kinds
    <2>1. p \in Path /\ IsFile(tree, p) /\ IsDir(tree, Parent(p)) /\ Parent(p) # p
      BY FileIs
    <2> QED BY <1>1, <2>1, AnotherEdit, TempIsHidden DEF IsFile, Kinds
  <1> DEFINE u == Removed(tree, p)
  <1>3. AfterRemove(u, tree, p) /\ Objects(u)
    BY <1>2, RemovedIs DEF WellFormed, AfterRemove
  <1> HIDE DEF u
  <1>4. p \notin DOMAIN u
    BY <1>3 DEF AfterRemove
  <1>5. tree' = Made(u, p, lastId + 1, "File", Written)
    BY <1>1 DEF u
  <1>6. AfterMake(tree', u, p, lastId + 1, "File", Written)
    BY <1>2, <1>3, <1>4, <1>5, MadeIs
  <1>7. tree[Parent(p)].kind # "File"
    BY <1>2 DEF IsDir
  <1>8. \A r \in DOMAIN tree : r # p => Same1(r)
    BY <1>3, <1>6, <1>7 DEF AfterRemove, AfterMake, Keeps, Same1
  <1>9. Fresh(p) /\ p \in DOMAIN tree' /\ DOMAIN tree' = DOMAIN tree \cup {p}
    BY <1>2, <1>3, <1>6 DEF AfterRemove, AfterMake, Fresh
  <1>10. EditsAt(p, {tree[p].data}, {Written})
    BY <1>1, <1>2, <1>8, <1>9 DEF EditsAt
  <1> QED BY <1>1, <1>10, UserStep

(***************************************************************************)
(* The first state, and every step.                                        *)
(***************************************************************************)
LEMMA InitialTree ==
    ASSUME Init
    PROVE  /\ \A p \in DOMAIN tree : p = <<>> \/ \E i \in DOMAIN scenario.base : p = scenario.base[i].path
           /\ tree[<<>>].kind = "Directory"
           /\ \A i \in DOMAIN scenario.base : LET e == scenario.base[i] IN
                 e.path \in DOMAIN tree /\ tree[e.path] = [id |-> i + 1, kind |-> e.kind, data |-> e.data]
  <1> DEFINE base == scenario.base
             root == <<"", 0>>
             dom == {<<>>} \cup {base[i].path : i \in DOMAIN base}
  <1>1. scenario \in Scenarios /\ Snapshot(base)
    BY ScenarioAssumption DEF Init
  <1>2. \A i \in DOMAIN base : base[i].path # <<>>
    <2>1. \A i \in DOMAIN base : VisiblePath(base[i].path)
      BY <1>1, BaseIs
    <2> QED BY <2>1, VisibleIs
  <1>3. \A i, j \in DOMAIN base : base[i].path = base[j].path => i = j
    BY <1>1 DEF Snapshot
  <1>4. tree = [p \in dom |-> IF p = <<>> THEN [id |-> 1, kind |-> "Directory", data |-> root]
                              ELSE [id |-> Place(p) + 1, kind |-> base[Place(p)].kind, data |-> base[Place(p)].data]]
    BY DEF Init, Place
  <1> HIDE DEF root, base
  <1>5. DOMAIN tree = dom /\ tree[<<>>].kind = "Directory"
    <2>1. <<>> \in dom
      OBVIOUS
    <2> HIDE DEF dom
    <2>2. DOMAIN tree = dom /\ tree[<<>>] = [id |-> 1, kind |-> "Directory", data |-> root]
      BY <1>4, <2>1
    <2> QED BY <2>2
  <1>6. ASSUME NEW i \in DOMAIN base
        PROVE  /\ base[i].path \in DOMAIN tree
               /\ tree[base[i].path] = [id |-> i + 1, kind |-> base[i].kind, data |-> base[i].data]
    <2>1. Place(base[i].path) = i
      <3>1. \A j \in DOMAIN base : base[j].path = base[i].path => j = i
        BY <1>3
      <3> QED BY <3>1 DEF Place, base
    <2>2. base[i].path \in dom
      OBVIOUS
    <2> HIDE DEF dom
    <2> QED BY <1>2, <1>4, <2>1, <2>2
  <1> QED BY <1>5, <1>6 DEF base

LEMMA Beginning == Init => DInv
  <1> SUFFICES ASSUME Init PROVE DInv
    OBVIOUS
  <1>0. IInv /\ scenario \in Scenarios
    BY Starting DEF Init
  <1>1. journal = {} /\ rows = <<>> /\ recoveries = <<>> /\ links = <<>> /\ run = NoRun /\ edits = 0
        /\ owed = {scenario.base[i].data : i \in {j \in DOMAIN scenario.base : scenario.base[j].kind = "File"}}
    <2> DEFINE x == IF scenario.bind THEN "none" ELSE "base"
    <2>1. db = [journal |-> {}, pending |-> NoPending, rows |-> <<>>, recoveries |-> <<>>, links |-> <<>>, index |-> x]
      BY DEF Init
    <2> HIDE DEF x
    <2>2. journal = {} /\ rows = <<>> /\ recoveries = <<>> /\ links = <<>>
      BY <2>1 DEF journal, rows, recoveries, links
    <2>3. run = NoRun /\ edits = 0
          /\ owed = {scenario.base[i].data : i \in {j \in DOMAIN scenario.base : scenario.base[j].kind = "File"}}
      BY DEF Init
    <2> QED BY <2>2, <2>3
  <1>2. DOMAIN rows = {} /\ DOMAIN recoveries = {} /\ DOMAIN links = {} /\ Intents = {}
    BY <1>1 DEF Intents
  <1>3. /\ Len(scenario.base) \in Nat /\ DOMAIN scenario.base = 1 .. Len(scenario.base)
        /\ \A i \in DOMAIN scenario.base :
              /\ VisiblePath(scenario.base[i].path) /\ scenario.base[i].data \notin Range(EditData)
              /\ scenario.base[i] \in Range(scenario.base) /\ scenario.base[i].path \in DOMAIN tree
              /\ tree[scenario.base[i].path] = [id |-> i + 1, kind |-> scenario.base[i].kind, data |-> scenario.base[i].data]
        /\ \A p \in DOMAIN tree : p = <<>> \/ \E i \in DOMAIN scenario.base : p = scenario.base[i].path
        /\ tree[<<>>].kind = "Directory"
    <2>1. /\ Len(scenario.base) \in Nat /\ DOMAIN scenario.base = 1 .. Len(scenario.base)
          /\ \A i \in 1 .. Len(scenario.base) :
                 /\ VisiblePath(scenario.base[i].path) /\ scenario.base[i].data \notin Range(EditData)
                 /\ scenario.base[i] \in Range(scenario.base)
      BY <1>0, BaseIs
    <2> QED BY <2>1, InitialTree
  <1>4. ASSUME NEW p, VisiblePath(p)
        PROVE  ~ InTemp(p) /\ ~ IsTemp(p)
    <2>1. p \in Path /\ p # <<>> /\ Last(p)[1] \in VisibleForms
      BY <1>4, VisibleIs
    <2>2. \A i \in DOMAIN p : p[i] \in VisibleLeaf
      BY <1>4, <2>1 DEF VisiblePath, Path
    <2> QED BY <2>1, <2>2 DEF InTemp, IsTemp, VisibleLeaf, VisibleForms
  <1>5. Objects1
    <2>1. \A p \in DOMAIN tree : ~ InTemp(p)
      <3>1. ~ InTemp(<<>>)
        BY DEF InTemp
      <3> QED BY <1>3, <1>4, <3>1
    <2> QED BY <1>1, <1>2, <2>1 DEF Objects1, TempFree, CreateRows, DirectoryRows
  <1>6. FutureFree
    <2>1. Future \subseteq Range(EditData)
      <3>1. Len(EditData) \in Nat /\ DOMAIN EditData = 1 .. Len(EditData)
        BY EditAssumption DEF EditAssumption
      <3> QED BY <1>1, <3>1 DEF Future, Range
    <2>2. \A p \in DOMAIN tree : tree[p].kind = "File" => tree[p].data \notin Range(EditData)
      <3> SUFFICES ASSUME NEW p \in DOMAIN tree, tree[p].kind = "File" PROVE tree[p].data \notin Range(EditData)
        OBVIOUS
      <3>1. PICK i \in DOMAIN scenario.base : p = scenario.base[i].path
        BY <1>3
      <3>2. /\ scenario.base[i].data \notin Range(EditData)
            /\ tree[p] = [id |-> i + 1, kind |-> scenario.base[i].kind, data |-> scenario.base[i].data]
        BY <1>3, <3>1
      <3>3. tree[p].data = scenario.base[i].data
        BY <3>2
      <3> QED BY <3>2, <3>3
    <2>3. \A d \in owed : d \notin Range(EditData) /\ d \in BaseData
      BY <1>1, <1>3 DEF BaseData
    <2> QED BY <2>1, <2>2, <2>3 DEF FutureFree
  <1>7. AllKept
    <2> SUFFICES ASSUME NEW d \in owed PROVE \E p : KeptAt(p, d)
      BY DEF AllKept
    <2>1. PICK i \in DOMAIN scenario.base : scenario.base[i].kind = "File" /\ scenario.base[i].data = d
      BY <1>1
    <2> DEFINE p == scenario.base[i].path
    <2>2. p \in DOMAIN tree /\ tree[p] = [id |-> i + 1, kind |-> scenario.base[i].kind, data |-> scenario.base[i].data] /\ VisiblePath(p)
      BY <1>3
    <2> HIDE DEF p
    <2>3. tree[p].kind = "File" /\ tree[p].data = d /\ tree[p].id = i + 1 /\ ~ IsTemp(p)
      BY <1>4, <2>1, <2>2
    <2>4. i + 1 \in Originals
      BY <1>3 DEF Originals
    <2> QED BY <2>2, <2>3, <2>4 DEF KeptAt
  <1>8. Contents1
    BY <1>2, <1>6, <1>7 DEF Contents1, Shapes
  <1>9. Promoted
    <2>1. \A s, o : ~ HeldBy(s, o)
      BY <1>2 DEF HeldBy, Away
    <2> QED BY <1>2, <2>1 DEF Promoted, Distinct, OutOfHiding, Registration
  <1>10. Actions /\ ActedRestore
    BY <1>2 DEF Actions, ActedRestore
  <1> QED BY <1>5, <1>8, <1>9, <1>10 DEF DInv

LEMMA CheckoutDoes ==
    ASSUME Proper, Checkout
    PROVE  DInv'
  <1>1. Dispatch \/ SaveCheckoutPaths \/ RegisterRecoveryPlan \/ PrepareRecovery \/ Prepared => DInv'
    BY Dispatches, Saves, PlansRecovery, PrepareRecoveryDoes, QuietActions
  <1>2. InstallDirectory \/ DirectoriesInstalled \/ PromoteCaptured \/ Reconcile \/ Reconciled \/ InstallFile => DInv'
    BY InstallDirectoryDoes, QuietActions, PromoteCapturedDoes, ReconcileDoes, InstallFileDoes
  <1>3. FilesInstalled \/ SetDirectoryMtime \/ Materialized \/ BindScan \/ FinalizeCheckout => DInv'
    BY QuietActions, SetDirectoryMtimeDoes, EndClears
  <1>4. VerifyCaptured \/ ScanTarget \/ Recheck \/ FinalizeSyncApply \/ CleanupRecovery \/ FinishSyncCleanup => DInv'
    BY Verifies, QuietActions, Finalizes, CleanupRecoveryDoes, EndClears
  <1> QED BY <1>1, <1>2, <1>3, <1>4 DEF Checkout

LEMMA RollbackDoes ==
    ASSUME Proper, Rollback
    PROVE  DInv'
  <1>1. RestorePromoted \/ RestoreMetadata \/ CleanupTemps \/ UninstallPath \/ Uninstalled \/ RestoreRecovery => DInv'
    BY RestorePromotedDoes, RestoreMetadataDoes, CleanupTempsDoes, UninstallPathDoes, QuietActions, RestoreRecoveryDoes
  <1>2. Restored \/ RestoreRootMtime \/ ClearRollback \/ PlanSync \/ RunLibraryUnbind => DInv'
    BY QuietActions, RestoreRootMtimeDoes, ClearRollbackDoes, Dispatches, EndClears
  <1> QED BY <1>1, <1>2 DEF Rollback

LEMMA SnapshotStill ==
    ASSUME IInv, IInv', DInv, SnapshotDirectories, UNCHANGED world
    PROVE  Proper /\ scenario' = scenario
  <1>1. scenario' = scenario /\ edits' = edits /\ owed' = owed
    BY DEF world
  <1>2. adopted \subseteq adopted'
    BY DEF SnapshotDirectories
  <1> QED BY <1>1, <1>2 DEF Proper, Still

LEMMA NextDoes == IInv /\ IInv' /\ DInv /\ [Next]_vars => DInv'
  <1> SUFFICES ASSUME IInv, IInv', DInv, [Next]_vars PROVE DInv'
    OBVIOUS
  <1>1. CASE UNCHANGED vars
    <2>1. UNCHANGED <<fs, db>> /\ run' = run /\ Still
      BY <1>1 DEF vars, world, Still
    <2> QED BY <2>1, QuietStep
  <1>2. CASE Command
    <2>1. Beside1 /\ Start
      BY <1>2 DEF Command, Beside1, world
    <2>2. Proper
      BY <2>1, BesideStill DEF Proper
    <2> QED BY <2>1, <2>2, Starts
  <1>3. CASE SnapshotDirectories /\ UNCHANGED world
    BY <1>3, SnapshotStill, SnapshotDirectoriesDoes
  <1>4. CASE (Execute \/ Checkout \/ Rollback) /\ UNCHANGED <<world, adopted>>
    <2>1. Beside1
      BY <1>4 DEF Beside1
    <2>2. Proper
      BY <2>1, BesideStill DEF Proper
    <2> QED BY <1>4, <2>2, ExecuteDoes, CheckoutDoes, RollbackDoes
  <1>5. CASE User
    BY <1>5, WriteDoes, ReplaceFileDoes, CreateFileDoes, DeleteFileDoes DEF User
  <1>6. CASE Kill
    BY <1>6, Kills
  <1> QED BY <1>1, <1>2, <1>3, <1>4, <1>5, <1>6 DEF Next, Client

LEMMA Kept1 == DInv => NothingLost
  <1>1. \A p, d : KeptAt(p, d) => d \in Contents
    BY DEF KeptAt, Contents, Files
  <1> QED BY <1>1 DEF DInv, Contents1, AllKept, NothingLost

(* NothingLost: what the user wrote and did not overwrite or delete        *)
(* himself is in some file of the worktree, and so is the base's content   *)
(* until the Sync Base has moved; what a new snapshot of a captured        *)
(* directory took over is excepted.                                        *)
THEOREM NothingIsLost == Spec => []NothingLost
  <1>1. Init => IInv /\ DInv
    BY Starting, Beginning
  <1>2. IInv /\ DInv /\ [Next]_vars => (IInv /\ DInv)'
    BY NextKeeps, NextDoes
  <1>3. IInv /\ DInv => NothingLost
    BY Kept1
  <1> QED BY <1>1, <1>2, <1>3, PTL DEF Spec

LEMMA NextIsFresh ==
    ASSUME Ready, NEW n, n.order = NextOrder
    PROVE  Fresh1(n) /\ n.order \in Nat \ {0} /\ n.order # None
  <1>1. JournalTypes /\ \A a \in journal : a.order \in Nat
    BY ReadyIs DEF JournalTypes, RowOK
  <1>2. NextOrder \in Nat \ {0} /\ \A a \in journal : a.order < NextOrder
    BY <1>1, NextOrderIs
  <1>3. \A a \in journal : a.order # NextOrder
    BY <1>1, <1>2
  <1> QED BY <1>2, <1>3 DEF Fresh1, None

(***************************************************************************)
(* A creation is asked for, the row of its path points to it.              *)
(***************************************************************************)
LEMMA CreationAccepted ==
    ASSUME Ready, Installing, NEW p \in DOMAIN rows, VisiblePath(p), rows[p].create = None, NEW kind,
           JournalCreate(p, TempName(p), kind)
    PROVE  CInv'
  <1>0. Types /\ IInv /\ JournalTypes /\ JournalTypes' /\ Chains /\ Owners /\ PathRowOK(rows[p])
    BY ReadyIs DEF Types, RowsTypes
  <1> DEFINE r == [rows EXCEPT ![p].create = NextOrder]
  <1>a. PICK n : n = CreateRow(TempName(p), kind)
    OBVIOUS
  <1>1. db' = [db EXCEPT !.journal = journal \cup {n}, !.rows = r] /\ run' = run
    BY <1>0, <1>a DEF JournalCreate, CreateRow, Tx, Put, rows, Types
  <1>2. RowIsOf(n, "create", "pre_base", TempName(p), <<>>, kind, None, NoShape, NoStamp, None, 0, "")
    BY <1>a, RowsAre
  <1>3. /\ DOMAIN r = DOMAIN rows /\ r[p].create = NextOrder
        /\ \A t \in DOMAIN r : t # p => r[t] = rows[t]
    BY <1>0 DEF PathRowOK
  <1> HIDE DEF r
  <1>4. DbIs(journal \cup {n}, pending, r, recoveries, links, index)
    BY <1>0, <1>1, Transactions
  <1>5. journal' = journal \cup {n} /\ pending' = pending /\ rows' = r /\ recoveries' = recoveries /\ links' = links
    BY <1>4 DEF DbIs
  <1>6. n.op = "create" /\ n.path = TempName(p) /\ n.order = NextOrder /\ n.origin = None /\ n.outcome = ""
    BY <1>2 DEF RowIsOf
  <1>7. Resting' /\ State' = State
    BY <1>5, RestingKept
  <1>8. Owner(n)'
    <2>1. Parent(TempName(p)) = Parent(p)
      BY <1>0, TempNameIs DEF PathRowOK
    <2>2. p \in DOMAIN rows' /\ rows'[p].create = n.order /\ Parent(p) = Parent(n.path)
      BY <1>3, <1>5, <1>6, <2>1
    <2> QED BY <2>2 DEF Owner
  <1>9. State \in {"pending", "applying", "rolling_back"}
    <2>1. run.cmd # "bind" => State = "applying"
      BY <1>0, InstallingIs
    <2>2. run.stage # "recover"
      BY DEF Installing
    <2>3. run.cmd = "bind" => State \in {"pending", "rolling_back"}
      BY <2>2, Bound
    <2> QED BY <2>1, <2>3
  <1>10. OwnersKept
    <2> SUFFICES ASSUME NEW a \in journal, Owner(a) PROVE Owner(a)'
      BY DEF OwnersKept
    <2>1. PICK q \in DOMAIN rows : rows[q].create = a.order /\ Parent(q) = Parent(a.path)
      BY DEF Owner
    <2>2. a.order # None
      BY <1>0 DEF JournalTypes, RowOK, None
    <2>3. q # p
      BY <2>1, <2>2
    <2>4. q \in DOMAIN rows' /\ rows'[q].create = a.order
      BY <1>3, <1>5, <2>1, <2>3
    <2> QED BY <2>1, <2>4 DEF Owner
  <1>11. Fresh1(n)
    BY <1>6, NextIsFresh
  <1>12. Chains'
    BY <1>0, <1>5, <1>6, <1>7, <1>8, <1>9, <1>10, <1>11, RootAdded
  <1>13. Owners'
    <2>1. Outsider(n)
      BY <1>6 DEF Outsider, IsPromotion
    <2>2. OwnersMatched
      BY <1>5, <2>1, Itself DEF OwnersMatched
    <2>3. CapturedKept /\ StateKept
      BY <1>5, <1>7, RowsOfRecoveries, SameState
    <2> QED BY <1>0, <1>5, <2>2, <2>3, OwnersUnaltered
  <1> QED BY <1>1, <1>5, <1>7, <1>12, <1>13, Staying

(***************************************************************************)
(* Promotions and their way back.                                          *)
(***************************************************************************)
LEMMA PromotionAccepted ==
    ASSUME Ready, NEW s \in Sources, s \notin DOMAIN links, Captured1(s), NEW p, Exists(p), NEW q, JournalPromotion(s, p, q)
    PROVE  CInv'
  <1>0. Types /\ JournalTypes /\ JournalTypes' /\ Chains /\ Owners /\ Worlds
    BY ReadyIs DEF IInv, Tables
  <1> DEFINE n == PromotionRow(p, q)
             l == Extended(links, s, [current |-> NextOrder, rollback |-> None])
  <1>1. db' = [db EXCEPT !.journal = journal \cup {n}, !.links = l] /\ run' = run
    BY <1>0 DEF JournalPromotion, Tx, Put, PromotionRow, links, Types
  <1>2. RowIsOf(n, "rename", "pre_base", p, q, "File", tree[p].id, Shape(tree, p), NoStamp, None, 0, "")
    BY RowsAre
  <1>3. Shape(tree, p) # NoShape
    BY <1>0, ObjectIs DEF Exists
  <1>4. /\ DOMAIN l = DOMAIN links \cup {s} /\ l[s].current = NextOrder /\ l[s].rollback = None
        /\ \A z \in DOMAIN links : z # s => l[z] = links[z]
    BY DEF Extended
  <1> HIDE DEF n, l
  <1>5. DbIs(journal \cup {n}, pending, rows, recoveries, l, index)
    BY <1>0, <1>1, Transactions
  <1>6. journal' = journal \cup {n} /\ pending' = pending /\ rows' = rows /\ recoveries' = recoveries /\ links' = l
    BY <1>5 DEF DbIs
  <1>7. n.op = "rename" /\ IsPromotion(n) /\ n.order = NextOrder /\ n.origin = None /\ n.outcome = ""
    BY <1>2, <1>3 DEF RowIsOf, IsPromotion
  <1>8. Resting' /\ State' = State
    BY <1>6, RestingKept
  <1>9. Fresh1(n) /\ n.order # None
    BY <1>7, NextIsFresh
  <1>10. OwnersKept
    BY <1>6, RowsOfPaths
  <1>11. Chains'
    BY <1>0, <1>6, <1>7, <1>8, <1>9, <1>10, RootAdded
  <1>12. Owners'
    <2>1. /\ DOMAIN links' = DOMAIN links \cup {s} /\ \A z \in DOMAIN links : links'[z] = links[z]
      BY <1>4, <1>6
    <2>2. links'[s].current = n.order /\ links'[s].rollback = None
      BY <1>4, <1>6, <1>7
    <2> QED BY <1>0, <1>6, <1>7, <1>8, <1>9, <2>1, <2>2, PromotionOwned
  <1> QED BY <1>1, <1>6, <1>8, <1>11, <1>12, Staying

LEMMA CurrentIsHere ==
    ASSUME Ready, NEW s \in DOMAIN links
    PROVE  /\ CurrentIs(s, CurrentOf(s)) /\ CurrentOf(s) \in journal /\ IsPromotion(CurrentOf(s)) /\ RowOK(CurrentOf(s))
           /\ CurrentOf(s) = Row(links[s].current)
  <1>1. PICK c : CurrentIs(s, c)
    BY ReadyIs DEF Owners, Owned
  <1>2. c \in journal /\ c.order = links[s].current /\ IsPromotion(c) /\ RowOK(c)
    BY <1>1, ReadyIs DEF CurrentIs, JournalTypes
  <1>3. Row(links[s].current) = c
    BY <1>2, ReadyIs, RowIs
  <1> QED BY <1>1, <1>2, <1>3 DEF CurrentOf

LEMMA LatePromotionAccepted ==
    ASSUME Ready, Intents = {}, State = "applying", NEW s \in DOMAIN links, JournalLatePromotion(s)
    PROVE  CInv'
  <1>0. /\ Types /\ Tables /\ JournalTypes /\ JournalTypes' /\ Chains /\ Owners /\ Worlds
        /\ Base /\ links[s].rollback = None /\ LinkOK(links[s])
    BY ReadyIs DEF IInv, Tables, Indexed, Linked, Types, LinksTypes
  <1> DEFINE c == CurrentOf(s)
             root == RootOf(c)
             tail == TailOf(root)
             n == NextOfChain(c, c.target, c.id)
             l == [links EXCEPT ![s].current = NextOrder]
  <1>1. CurrentIs(s, c) /\ c \in journal /\ IsPromotion(c) /\ RowOK(c) /\ c = Row(links[s].current)
    BY CurrentIsHere
  <1> HIDE DEF c
  <1>2. CASE ~ HasId(tree, c.target, c.id)
    <2>1. Fail
      BY <1>1, <1>2 DEF JournalLatePromotion
    <2> QED BY <2>1, Failing1
  <1>3. CASE HasId(tree, c.target, c.id)
    <2>1. Tx([db EXCEPT !.journal = Put(n), !.links[s].current = NextOrder])
      BY <1>1, <1>3 DEF JournalLatePromotion, NextOfChain, ChainRow
    <2>2. db' = [db EXCEPT !.journal = journal \cup {n}, !.links = l] /\ run' = run
      BY <1>0, <2>1 DEF Tx, Put, links, Types
    <2>3. DOMAIN l = DOMAIN links /\ l[s].current = NextOrder /\ l[s].rollback = links[s].rollback
          /\ \A z \in DOMAIN l : z # s => l[z] = links[z]
      BY <1>0 DEF LinkOK
    <2>4. /\ root \in journal /\ root.order = RootOrder(c) /\ root.origin = None /\ IsPromotion(root)
          /\ root.order \in Nat \ {0} /\ tail.attempt \in Nat
      BY <1>0, <1>1, ChainIs
    <2>5. /\ Chain(root.order) = {} => tail = root
          /\ Chain(root.order) # {} => tail \in Chain(root.order)
          /\ tail \in journal /\ \A a \in Chain(root.order) : a.attempt <= tail.attempt
      BY <1>0, <2>4, TailIs
    <2>6. PICK m \in Nat : tail.attempt = m
      BY <2>4
    <2>7. n = ChainRow(c.target, NextName(tail.target), c.id, root.order, tail.attempt + 1)
      BY DEF NextOfChain
    <2> HIDE DEF l, n, root, tail
    <2>8. RowIsOf(n, "rename", "pre_base", c.target, NextName(tail.target), "File", c.id, Shape(tree, c.target), NoStamp,
                  root.order, tail.attempt + 1, "")
      BY <2>7, RowsAre
    <2>9. Shape(tree, c.target) # NoShape
      BY <1>0, <1>3, ObjectIs DEF HasId
    <2>10. n.op = "rename" /\ IsPromotion(n) /\ n.order = NextOrder /\ n.origin = root.order /\ n.outcome = ""
           /\ n.target = NextName(tail.target) /\ n.attempt = m + 1
      BY <2>6, <2>8, <2>9 DEF RowIsOf, IsPromotion
    <2>11. DbIs(journal \cup {n}, pending, rows, recoveries, l, index)
      BY <1>0, <2>2, Transactions
    <2>12. journal' = journal \cup {n} /\ pending' = pending /\ rows' = rows /\ recoveries' = recoveries /\ links' = l
      BY <2>11 DEF DbIs
    <2>13. Resting' /\ State' = State
      BY <2>12, RestingKept
    <2>14. Fresh1(n) /\ n.origin # None
      BY <2>4, <2>10, NextIsFresh DEF None
    <2>15. Tail1(root, tail)
      BY <2>4, <2>5 DEF Tail1
    <2>16. Chains'
      BY <1>0, <2>4, <2>6, <2>10, <2>12, <2>13, <2>14, <2>15, ChainExtended
    <2>17. Owners'
      <3>1. DOMAIN links' = DOMAIN links /\ \A z \in DOMAIN links : z # s => links'[z] = links[z]
        BY <2>3, <2>12
      <3>2. links'[s].current = n.order /\ links'[s].rollback = links[s].rollback
        BY <2>3, <2>10, <2>12
      <3>3. RootOrder(n) = RootOrder(c)
        BY <2>4, <2>10, <2>14 DEF RootOrder
      <3> QED BY <1>0, <1>1, <2>10, <2>12, <2>13, <2>14, <3>1, <3>2, <3>3, LateOwned
    <2> QED BY <2>2, <2>12, <2>13, <2>16, <2>17, Staying
  <1> QED BY <1>2, <1>3

LEMMA RestorePromotionAccepted ==
    ASSUME Ready, Intents = {}, State = "rolling_back", NEW s \in DOMAIN links, links[s].rollback = None,
           NEW q, NEW stamp, JournalRestorePromotion(s, q, stamp)
    PROVE  CInv'
  <1>0. Types /\ Tables /\ JournalTypes /\ JournalTypes' /\ Chains /\ Owners /\ LinkOK(links[s])
    BY ReadyIs DEF IInv, Types, LinksTypes
  <1> DEFINE c == CurrentOf(s)
             n == RestoreRow(c.target, q, c.id, stamp)
             l == [links EXCEPT ![s].rollback = NextOrder]
  <1>1. CurrentIs(s, c) /\ c \in journal /\ IsPromotion(c) /\ RowOK(c) /\ c = Row(links[s].current)
    BY CurrentIsHere
  <1> HIDE DEF c
  <1>2. CASE c.state # "completed" \/ ~ HasId(tree, c.target, c.id)
    <2>1. Fail
      BY <1>1, <1>2 DEF JournalRestorePromotion
    <2> QED BY <2>1, Failing1
  <1>3. CASE c.state = "completed" /\ HasId(tree, c.target, c.id)
    <2>1. Tx([db EXCEPT !.journal = Put(n), !.links[s].rollback = NextOrder])
      BY <1>1, <1>3 DEF JournalRestorePromotion, RestoreRow
    <2>2. db' = [db EXCEPT !.journal = journal \cup {n}, !.links = l] /\ run' = run
      BY <1>0, <2>1 DEF Tx, Put, links, Types
    <2>3. DOMAIN l = DOMAIN links /\ l[s].current = links[s].current /\ l[s].rollback = NextOrder
          /\ \A z \in DOMAIN l : z # s => l[z] = links[z]
      BY <1>0 DEF LinkOK
    <2>4. RowIsOf(n, "restore", "rollback", c.target, q, "File", c.id, NoShape, stamp, None, 0, "")
      BY RowsAre
    <2> HIDE DEF l, n
    <2>5. n.op = "restore" /\ n.order = NextOrder /\ n.origin = None /\ n.outcome = "" /\ n.path = c.target
      BY <2>4 DEF RowIsOf
    <2>6. DbIs(journal \cup {n}, pending, rows, recoveries, l, index)
      BY <1>0, <2>2, Transactions
    <2>7. journal' = journal \cup {n} /\ pending' = pending /\ rows' = rows /\ recoveries' = recoveries /\ links' = l
      BY <2>6 DEF DbIs
    <2>8. Resting' /\ State' = State
      BY <2>7, RestingKept
    <2>9. Fresh1(n) /\ n.order # None
      BY <2>5, NextIsFresh
    <2>10. OwnersKept
      BY <2>7, RowsOfPaths
    <2>11. Chains'
      BY <1>0, <2>5, <2>7, <2>8, <2>9, <2>10, RootAdded
    <2>12. Owners'
      <3>1. DOMAIN links' = DOMAIN links /\ \A z \in DOMAIN links : z # s => links'[z] = links[z]
        BY <2>3, <2>7
      <3>2. links'[s].current = links[s].current /\ links'[s].rollback = n.order
        BY <2>3, <2>5, <2>7
      <3>3. n.path = c.target /\ c.state = "completed"
        BY <1>3, <2>5
      <3> QED BY <1>0, <1>1, <2>5, <2>7, <2>8, <2>9, <3>1, <3>2, <3>3, RestoreOwned
    <2> QED BY <2>2, <2>7, <2>8, <2>11, <2>12, Staying
  <1> QED BY <1>2, <1>3

(***************************************************************************)
(* The stages of a checkout.                                               *)
(***************************************************************************)
LEMMA ResetAccepted ==
    ASSUME Ready, Applying, NEW s \in DOMAIN links, ResetPromoted(s)
    PROVE  CInv'
  <1> DEFINE t == PromotedTo(s)
             row == [NewPath EXCEPT !.create = rows[t].create]
  <1>0. Types /\ Places /\ RunTypes /\ scenario \in Scenarios
    BY ReadyIs
  <1>1. PICK i \in 1 .. Len(Promote) : Promote[i].source = s
    BY <1>0, PromoteAre DEF Types, LinksTypes
  <1>2. t \in DOMAIN rows
    BY <1>0, <1>1, PromoteAre DEF Places, Applying
  <1>3. row.create = rows[t].create
    BY DEF NewPath
  <1>4. db' = SetRow(t, row) /\ Goto(run.stage, run.at) /\ run.at \in Nat
    BY <1>0 DEF ResetPromoted, Commit, RunTypes
  <1>5. Ordinary(run.stage)
    BY DEF Applying, ApplyStages, Ordinary
  <1> HIDE DEF t, row
  <1> QED BY <1>2, <1>3, <1>4, <1>5, RowAccepted

LEMMA CaptureAccepted ==
    ASSUME Ready, At("prepare"), NEW p \in DOMAIN recoveries, Capture(p, recoveries[p])
    PROVE  CInv'
  <1>0. Types /\ RunTypes /\ RecoveryOK(recoveries[p])
    BY ReadyIs DEF Types, RecoveriesTypes
  <1>1. \/ Fail
        \/ run' = [run EXCEPT !.step = "verified"] /\ db' = db
        \/ JournalRename("pre_base", p, RecoveryName(p), recoveries[p].id)
        \/ Tx([db EXCEPT !.recoveries[p].id = tree[p].id])
    BY DEF Capture, Require
  <1>2. CASE run' = [run EXCEPT !.step = "verified"] /\ db' = db
    <2>1. run'.cmd = run.cmd /\ run'.stage = run.stage /\ run'.at = run.at
      BY <1>0, <1>2 DEF RunTypes
    <2> QED BY <1>2, <2>1, Calling1
  <1>3. CASE Tx([db EXCEPT !.recoveries[p].id = tree[p].id])
    <2> DEFINE c == [recoveries EXCEPT ![p].id = tree[p].id]
    <2>1. db' = [db EXCEPT !.recoveries = c] /\ run' = run
      BY <1>0, <1>3 DEF Tx, recoveries, Types
    <2>2. DOMAIN c = DOMAIN recoveries /\ \A q \in DOMAIN c : c[q].completed = recoveries[q].completed
      BY <1>0 DEF RecoveryOK
    <2> HIDE DEF c
    <2> QED BY <2>1, <2>2, RecoveriesAccepted
  <1> QED BY <1>1, <1>2, <1>3, Failing1, Renaming1

LEMMA PrepareRecoveryAccepted ==
    ASSUME Ready, PrepareRecovery
    PROVE  CInv'
  <1> DEFINE p == Tops[run.at].path
             r == recoveries[p]
             mine == {s \in DOMAIN links : Top(s) = p}
             unsettled == {s \in mine : ~ Settled(s)}
             stale == {s \in mine : NeedsReset(s)}
  <1>0. IInv /\ Tables
    BY ReadyIs DEF IInv
  <1>1. At("prepare") /\ run.at <= Len(Tops)
    BY DEF PrepareRecovery
  <1>2. /\ run.stage = "prepare" /\ Intents = {} /\ Types /\ Stages /\ Places
        /\ scenario \in Scenarios /\ run.at \in Nat /\ run.at + 1 \in Nat /\ (Applying => Base /\ State = "applying")
    BY <1>0, <1>1, AtIs
  <1>3. Applying /\ State = "applying" /\ Base
    BY <1>2 DEF Applying, ApplyStages, Stages, BindStages
  <1>4. p \in DOMAIN recoveries
    <2>1. run.at \in 1 .. Len(Tops)
      BY <1>1, <1>2, TopsAre DEF Places
    <2> QED BY <1>0, <1>2, <1>3, <2>1, TopsAre DEF Tables, Indexed
  <1>5. \/ PrepareCompleted(p)
        \/ Commit([db EXCEPT !.recoveries[p].completed = TRUE], "prepare", run.at + 1)
        \/ Capture(p, r)
        \/ Fail
    BY DEF PrepareRecovery
  <1>6. PrepareCompleted(p) => \/ unsettled # {} /\ JournalLatePromotion(CHOOSE s \in unsettled : TRUE)
                               \/ stale # {} /\ ResetPromoted(CHOOSE s \in stale : TRUE)
                               \/ Fail
                               \/ Next1
    BY DEF PrepareCompleted, Require
  <1>7. CASE unsettled # {} /\ JournalLatePromotion(CHOOSE s \in unsettled : TRUE)
    <2> DEFINE s == CHOOSE x \in unsettled : TRUE
    <2>1. s \in DOMAIN links /\ JournalLatePromotion(s)
      BY <1>7
    <2> HIDE DEF s
    <2> QED BY <1>2, <1>3, <2>1, LatePromotionAccepted
  <1>8. CASE stale # {} /\ ResetPromoted(CHOOSE s \in stale : TRUE)
    <2> DEFINE s == CHOOSE x \in stale : TRUE
    <2>1. s \in DOMAIN links /\ ResetPromoted(s)
      BY <1>8
    <2> HIDE DEF s
    <2> QED BY <1>3, <2>1, ResetAccepted
  <1> HIDE DEF p, mine, unsettled, stale
  <1>9. CASE Commit([db EXCEPT !.recoveries[p].completed = TRUE], "prepare", run.at + 1)
    <2> DEFINE c == [recoveries EXCEPT ![p].completed = TRUE]
    <2>1. db' = [db EXCEPT !.recoveries = c] /\ Goto("prepare", run.at + 1)
      BY <1>2, <1>9 DEF Commit, recoveries, Types
    <2>2. DOMAIN c = DOMAIN recoveries /\ \A q \in DOMAIN c : recoveries[q].completed => c[q].completed
      BY <1>2 DEF Types, RecoveriesTypes, RecoveryOK
    <2>3. run.stage # "recover" /\ \E stage, at : at \in Nat /\ Ordinary(stage) /\ Goto(stage, at)
      BY <1>2, <2>1 DEF Ordinary
    <2> HIDE DEF c
    <2> QED BY <2>1, <2>2, <2>3, RecoveriesAccepted
  <1>10. CASE Capture(p, r)
    BY <1>1, <1>4, <1>10, CaptureAccepted
  <1>11. CASE Next1
    BY <1>2, <1>11, NextAccepted DEF Ordinary
  <1> QED BY <1>5, <1>6, <1>7, <1>8, <1>9, <1>10, <1>11, Failing1

LEMMA ReconcileAccepted ==
    ASSUME Ready, Reconcile
    PROVE  CInv'
  <1> DEFINE s == Promote[run.at].source
  <1>0. IInv
    BY ReadyIs
  <1>1. /\ run.stage \in {"late1", "late2", "late3", "late4"} /\ Intents = {} /\ run.at <= Len(Promote)
        /\ ResetPromoted(s) \/ JournalLatePromotion(s) \/ Next1
    BY DEF Reconcile, AfterLate
  <1>2. /\ Stages /\ Places /\ scenario \in Scenarios /\ run.at \in Nat
    BY <1>0, <1>1, AtIs DEF At
  <1>3. Applying /\ Base /\ State = "applying"
    BY <1>0, <1>1, <1>2, Idle DEF Applying, ApplyStages, Stages, BindStages
  <1>4. s \in DOMAIN links
    <2>1. run.at \in 1 .. Len(Promote)
      BY <1>1, <1>2, PromoteAre DEF Places
    <2> QED BY <1>1, <1>2, <1>3, <2>1 DEF Places
  <1> HIDE DEF s
  <1>5. CASE Next1
    BY <1>1, <1>5, NextAccepted DEF Ordinary
  <1> QED BY <1>1, <1>3, <1>4, <1>5, ResetAccepted, LatePromotionAccepted

LEMMA RegisterPromotedAccepted ==
    ASSUME Ready, run.stage = "promote", NEW t \in DOMAIN rows, RegisterPromoted(t)
    PROVE  CInv'
  <1> DEFINE row == [rows[t] EXCEPT !.tempId = tree[t].id, !.targetId = tree[t].id, !.completed = TRUE]
  <1>0. PathRowOK(rows[t]) /\ run.at + 1 \in Nat
    BY ReadyIs DEF Types, RowsTypes, RunTypes
  <1>1. Fail \/ Next1 \/ Commit(SetRow(t, row), "promote", run.at + 1)
    BY DEF RegisterPromoted, Require
  <1>2. CASE Commit(SetRow(t, row), "promote", run.at + 1)
    <2>1. db' = SetRow(t, row) /\ \E at \in Nat : Goto(run.stage, at)
      BY <1>0, <1>2 DEF Commit
    <2>2. row.create = rows[t].create
      BY <1>0 DEF PathRowOK
    <2> HIDE DEF row
    <2> QED BY <2>1, <2>2, RowAccepted DEF Ordinary
  <1>3. CASE Next1
    BY <1>3, NextAccepted DEF Ordinary
  <1> QED BY <1>1, <1>2, <1>3, Failing1

LEMMA PromoteCapturedAccepted ==
    ASSUME Ready, PromoteCaptured
    PROVE  CInv'
  <1> DEFINE s == Promote[run.at].source
             t == Promote[run.at].target
             here == HiddenAt(s)
             fixed == Shape(tree, here) = FileShape(BaseShape[s].data) /\ TargetShape[t] = BaseShape[s]
  <1>0. IInv /\ Tables
    BY ReadyIs DEF IInv
  <1>1. At("promote") /\ run.at <= Len(Promote)
    BY DEF PromoteCaptured
  <1>2. /\ run.stage = "promote" /\ Intents = {} /\ Types /\ Stages /\ Places
        /\ scenario \in Scenarios /\ run.at \in Nat
    BY <1>0, <1>1, AtIs
  <1>3. Applying /\ Base /\ State = "applying"
    BY <1>0, <1>2, Idle DEF Applying, ApplyStages, Stages, BindStages
  <1>4. s \in Sources /\ t \in DOMAIN rows /\ Top(s) \in TopPaths
    <2>1. run.at \in 1 .. Len(Promote)
      BY <1>1, <1>2, PromoteAre DEF Places
    <2>2. s \in Sources /\ t \in DOMAIN TargetShape
      BY <1>2, <2>1, PromoteAre
    <2> QED BY <1>2, <2>2, PromoteAre DEF Places, ApplyStages
  <1>5. Captured1(s)
    BY <1>0, <1>2, <1>3, <1>4 DEF Captured1, Tables, Indexed, Places
  <1>6. \/ Exists(here) /\ s \notin DOMAIN links /\ JournalPromotion(s, here, IF fixed THEN t ELSE NextFree(t))
        \/ s \in DOMAIN links /\ ResetPromoted(s)
        \/ s \in DOMAIN links /\ JournalLatePromotion(s)
        \/ RegisterPromoted(t)
        \/ Next1
        \/ Fail
    BY DEF PromoteCaptured, Require
  <1> HIDE DEF fixed, s, t, here
  <1>7. CASE Exists(here) /\ s \notin DOMAIN links /\ JournalPromotion(s, here, IF fixed THEN t ELSE NextFree(t))
    BY <1>4, <1>5, <1>7, PromotionAccepted
  <1>8. CASE s \in DOMAIN links /\ ResetPromoted(s)
    BY <1>3, <1>8, ResetAccepted
  <1>9. CASE s \in DOMAIN links /\ JournalLatePromotion(s)
    BY <1>2, <1>3, <1>9, LatePromotionAccepted
  <1>10. CASE RegisterPromoted(t)
    BY <1>2, <1>4, <1>10, RegisterPromotedAccepted
  <1>11. CASE Next1
    BY <1>2, <1>11, NextAccepted DEF Ordinary
  <1> QED BY <1>6, <1>7, <1>8, <1>9, <1>10, <1>11, Failing1

(***************************************************************************)
(* Installing.                                                             *)
(***************************************************************************)
LEMMA RegisterTempAccepted ==
    ASSUME Ready, Installing, NEW p \in DOMAIN rows, RegisterTemp(p)
    PROVE  CInv'
  <1> DEFINE row == [rows[p] EXCEPT !.temp = IF @ # 0 THEN @ ELSE
                         IF rows[p].create = None THEN 1 ELSE 1 + Last(Row(rows[p].create).path)[3]]
  <1>0. PathRowOK(rows[p])
    BY ReadyIs DEF Types, RowsTypes
  <1>1. db' = SetRow(p, row) /\ run' = run
    BY DEF RegisterTemp, Tx
  <1>2. row.create = rows[p].create
    BY <1>0 DEF PathRowOK
  <1> HIDE DEF row
  <1>3. Ordinary(run.stage)
    BY DEF Installing, Ordinary
  <1> QED BY <1>1, <1>2, <1>3, RowAccepted

LEMMA CreateTempAccepted ==
    ASSUME Ready, Installing, NEW p \in DOMAIN rows, VisiblePath(p), NEW kind, CreateTemp(p, kind)
    PROVE  CInv'
  <1> DEFINE row == [rows[p] EXCEPT !.tempId = CreatedId(p)]
  <1>0. PathRowOK(rows[p])
    BY ReadyIs DEF Types, RowsTypes
  <1>1. \/ rows[p].create = None /\ JournalCreate(p, TempName(p), kind)
        \/ Fail
        \/ db' = SetRow(p, row) /\ run' = run
    BY DEF CreateTemp, Require, Tx
  <1>2. row.create = rows[p].create
    BY <1>0 DEF PathRowOK
  <1> HIDE DEF row
  <1>3. Ordinary(run.stage)
    BY DEF Installing, Ordinary
  <1> QED BY <1>1, <1>2, <1>3, RowAccepted, CreationAccepted, Failing1

LEMMA InstallDirectoryAccepted ==
    ASSUME Ready, InstallDirectory
    PROVE  CInv'
  <1> DEFINE p == Entries[run.at].path
             next == NextItem("Directory", run.at + 1)
             row == [rows[p] EXCEPT !.targetId = tree[p].id, !.completed = TRUE]
  <1>0. IInv
    BY ReadyIs
  <1>1. At("directories") /\ run.at <= Len(Entries)
    BY DEF InstallDirectory
  <1>2. Installing /\ run.stage = "directories" /\ Intents = {}
    BY <1>1 DEF At, Installing
  <1>3. p \in DOMAIN rows /\ VisiblePath(p) /\ PathRowOK(rows[p]) /\ next \in Nat
    <2>1. /\ p \in DOMAIN rows /\ VisiblePath(p) /\ scenario \in Scenarios /\ run.at + 1 \in Nat \ {0} /\ Types
      BY <1>0, <1>1, <1>2, InstallingIs
    <2> QED BY <2>1, NextItemIs, EntriesAre DEF Types, RowsTypes
  <1>4. \/ RegisterTemp(p)
        \/ Enter("directories", next)
        \/ Commit(SetRow(p, row), "directories", next)
        \/ CreateTemp(p, "Directory")
        \/ JournalRename("pre_base", TempName(p), p, rows[p].tempId)
        \/ Fail
    BY DEF InstallDirectory, Require, InstallTemp
  <1>5. row.create = rows[p].create
    BY <1>3 DEF PathRowOK
  <1> HIDE DEF p, next, row
  <1>6. CASE Commit(SetRow(p, row), "directories", next)
    <2>1. db' = SetRow(p, row) /\ \E at \in Nat : Goto(run.stage, at)
      BY <1>2, <1>3, <1>6 DEF Commit
    <2> QED BY <1>2, <1>3, <1>5, <2>1, RowAccepted DEF Ordinary
  <1>7. CASE Enter("directories", next)
    BY <1>2, <1>3, <1>7, EnteringAccepted DEF Ordinary
  <1> QED BY <1>2, <1>3, <1>4, <1>6, <1>7, RegisterTempAccepted, CreateTempAccepted, Renaming1, Failing1

LEMMA InstallFileAccepted ==
    ASSUME Ready, InstallFile
    PROVE  CInv'
  <1> DEFINE p == Entries[run.at].path
             next == NextItem("File", run.at + 1)
             row == [rows[p] EXCEPT !.completed = TRUE]
             t == TempName(p)
             want == Entries[run.at].data
  <1>0. IInv
    BY ReadyIs
  <1>1. At("files") /\ run.at <= Len(Entries)
    BY DEF InstallFile
  <1>2. Installing /\ run.stage = "files" /\ Intents = {}
    BY <1>1 DEF At, Installing
  <1>3. p \in DOMAIN rows /\ VisiblePath(p) /\ PathRowOK(rows[p]) /\ next \in Nat
    <2>1. /\ p \in DOMAIN rows /\ VisiblePath(p) /\ scenario \in Scenarios /\ run.at + 1 \in Nat \ {0} /\ Types
      BY <1>0, <1>1, <1>2, InstallingIs
    <2> QED BY <2>1, NextItemIs, EntriesAre DEF Types, RowsTypes
  <1>4. \/ RegisterTemp(p)
        \/ Enter("files", next)
        \/ Commit(SetRow(p, row), "files", next)
        \/ CreateTemp(p, "File")
        \/ db' = db /\ run' = NoRun
        \/ JournalRename("pre_base", t, p, rows[p].tempId)
        \/ JournalMtime("pre_base", t, rows[p].tempId, want)
        \/ db' = db /\ run' = run
        \/ Fail
    BY DEF InstallFile, Require, RecreateTemp, WriteFile, InstallTemp, Call
  <1>5. row.create = rows[p].create
    BY <1>3 DEF PathRowOK
  <1> HIDE DEF p, next, row, t, want
  <1>6. CASE Commit(SetRow(p, row), "files", next)
    <2>1. db' = SetRow(p, row) /\ \E at \in Nat : Goto(run.stage, at)
      BY <1>2, <1>3, <1>6 DEF Commit
    <2> QED BY <1>2, <1>3, <1>5, <2>1, RowAccepted DEF Ordinary
  <1>7. CASE Enter("files", next)
    BY <1>2, <1>3, <1>7, EnteringAccepted DEF Ordinary
  <1>8. CASE db' = db /\ run' = run
    BY <1>8, Calling1
  <1> QED BY <1>2, <1>3, <1>4, <1>6, <1>7, <1>8, RegisterTempAccepted, CreateTempAccepted, Renaming1, Stamping1, Halting, Failing1

(***************************************************************************)
(* A recovery is consumed with its links and their chains.                 *)
(***************************************************************************)
LEMMA ConsumedAccepted ==
    ASSUME Ready, run.stage \in {"cleanup", "hidden"}, NEW p, p = Tops[run.at].path,
           db' = Consumed(p), Goto(run.stage, run.at + 1)
    PROVE  CInv'
  <1>0. Types /\ JournalTypes /\ JournalTypes' /\ Chains /\ Owners /\ Stages /\ run.at + 1 \in Nat
    BY ReadyIs DEF RunTypes
  <1> DEFINE mine == {s \in DOMAIN links : Top(s) = p}
             owned == {a \in journal : \E s \in mine : RootOf(a) = RootOf(Row(links[s].current)) \/ a.order = links[s].rollback}
             c == Without(recoveries, p)
             j == journal \ owned
             l == [s \in DOMAIN links \ mine |-> links[s]]
  <1>1. db' = [db EXCEPT !.recoveries = c, !.journal = j, !.links = l]
    BY DEF Consumed, recoveries, journal, links
  <1>2. p \notin DOMAIN c /\ DOMAIN c \subseteq DOMAIN recoveries
    BY DEF Without
  <1>3. DOMAIN l = DOMAIN links \ mine /\ \A s \in DOMAIN l : l[s] = links[s]
    OBVIOUS
  <1>4. mine \subseteq DOMAIN links
    OBVIOUS
  <1>5. j = {a \in journal : ~ Gone1(mine, a)}
    BY <1>0, <1>4, GoneIs
  <1> HIDE DEF c, j, l
  <1>6. DbIs(j, pending, rows, c, l, index)
    BY <1>0, <1>1, Transactions
  <1>7. journal' = j /\ pending' = pending /\ rows' = rows /\ recoveries' = c /\ links' = l
    BY <1>6 DEF DbIs
  <1>8. Resting' /\ State' = State
    BY <1>7, RestingKept
  <1>9. PICK m : m = mine
    OBVIOUS
  <1>10. journal' = {a \in journal : ~ Gone1(m, a)} /\ m = {s \in DOMAIN links : Top(s) = p} /\ m \subseteq DOMAIN links
    BY <1>5, <1>7, <1>9
  <1>11. DOMAIN links' = DOMAIN links \ m /\ \A s \in DOMAIN links' : links'[s] = links[s]
    BY <1>3, <1>7, <1>9
  <1>12. Chains'
    BY <1>0, <1>7, <1>8, <1>10, ChainsGone
  <1>13. Owners'
    <2>1. recoveries' = Without(recoveries, p)
      BY <1>7 DEF c
    <2> HIDE DEF mine
    <2> QED BY <1>0, <1>8, <1>10, <1>11, <2>1, OwnersGone
  <1>14. Course'
    <2>1. run.cmd # "bind"
      BY <1>0 DEF Stages, BindStages
    <2>2. Tops[run.at].path \notin DOMAIN recoveries' /\ DOMAIN recoveries' \subseteq DOMAIN recoveries
      BY <1>2, <1>7
    <2> QED BY <1>0, <1>8, <2>1, <2>2, CourseGoes
  <1> QED BY <1>12, <1>13, <1>14 DEF CInv

(* Nothing is left to do for a path.                                       *)
LEMMA PassedAccepted ==
    ASSUME Ready, run.stage \in {"cleanup", "hidden"}, Tops[run.at].path \notin DOMAIN recoveries, Next1
    PROVE  CInv'
  <1>0. Stages /\ run.at + 1 \in Nat
    BY ReadyIs DEF RunTypes
  <1>1. run.cmd # "bind"
    BY <1>0 DEF Stages, BindStages
  <1>2. Enter(run.stage, run.at + 1)
    BY DEF Next1
  <1> QED BY <1>0, <1>1, <1>2, Entering1

LEMMA RestoreRecoveryAccepted ==
    ASSUME Ready, RestoreRecovery
    PROVE  CInv'
  <1> DEFINE p == Tops[run.at].path
  <1>0. run.stage = "hidden"
    BY DEF RestoreRecovery, At
  <1>1. /\ p \notin DOMAIN recoveries => Next1
        /\ p \in DOMAIN recoveries => \/ db' = Consumed(p) /\ Goto("hidden", run.at + 1)
                                      \/ Fail
                                      \/ JournalRename("rollback", RecoveryName(p), p, recoveries[p].id)
    BY DEF RestoreRecovery, Require, Commit
  <1>2. PICK t : t = p
    OBVIOUS
  <1>3. CASE p \notin DOMAIN recoveries
    BY <1>0, <1>1, <1>3, PassedAccepted
  <1>4. CASE db' = Consumed(p) /\ Goto("hidden", run.at + 1)
    BY <1>0, <1>2, <1>4, ConsumedAccepted
  <1> HIDE DEF p
  <1> QED BY <1>1, <1>3, <1>4, Failing1, Renaming1

(***************************************************************************)
(* Cleanup.                                                                *)
(***************************************************************************)
LEMMA PlanOfRemovalAccepted ==
    ASSUME Ready, NEW p, Tx(RemovalPlan(p))
    PROVE  CInv'
  <1>0. Types
    BY ReadyIs
  <1> DEFINE all == DeepestFirst(Under(tree, TombstoneName(p)))
  <1>1. PICK N : N = {PlannedRow(all[i], i) : i \in DOMAIN all}
    OBVIOUS
  <1>2. db' = [db EXCEPT !.journal = journal \cup N] /\ run' = run
    BY <1>0, <1>1 DEF Tx, RemovalPlan, PlannedRow, journal, Types
  <1>3. ASSUME NEW q, NEW i PROVE Bystander(PlannedRow(q, i))
    <2> DEFINE r == Removal("post_base", q, tree[q].id)
               n == PlannedRow(q, i)
    <2>1. RowIsOf(r, "remove", "post_base", q, <<>>, tree[q].kind, tree[q].id,
                  IF tree[q].kind = "File" THEN Shape(tree, q) ELSE NoShape, NoStamp, None, 0, "")
      BY RowsAre
    <2>2. n = [r EXCEPT !.order = NextOrder + i - 1]
      BY DEF PlannedRow
    <2> HIDE DEF r, n
    <2>3. n.op = "remove" /\ n.origin = None /\ n.outcome = ""
      BY <2>1, <2>2 DEF RowIsOf, RowFields
    <2>4. Bystander(n)
      BY <2>3 DEF Bystander, IsPromotion
    <2> QED BY <2>4 DEF n
  <1>4. \A n \in N : Bystander(n)
    BY <1>1, <1>3
  <1> HIDE DEF all
  <1>5. DbIs(journal \cup N, pending, rows, recoveries, links, index)
    BY <1>0, <1>2, Transactions
  <1>6. journal' = journal \cup N /\ pending' = pending /\ rows' = rows /\ recoveries' = recoveries /\ links' = links
    BY <1>5 DEF DbIs
  <1>7. Resting' /\ State' = State
    BY <1>6, RestingKept
  <1>8. Chains' /\ Owners'
    BY <1>4, <1>6, <1>7, RowsAdded
  <1> QED BY <1>2, <1>6, <1>7, <1>8, Staying

LEMMA CleanupRecoveryAccepted ==
    ASSUME Ready, CleanupRecovery
    PROVE  CInv'
  <1> DEFINE p == Tops[run.at].path
             r == recoveries[p]
  <1>0. run.stage = "cleanup" /\ Types
    BY ReadyIs DEF CleanupRecovery, At
  <1>1. /\ p \notin DOMAIN recoveries => Next1
        /\ p \in DOMAIN recoveries =>
               \/ db' = Consumed(p) /\ Goto("cleanup", run.at + 1)
               \/ Fail
               \/ Tx([db EXCEPT !.recoveries[p].tombstone = TRUE])
               \/ JournalRename("post_base", RecoveryName(p), TombstoneName(p), r.id)
               \/ Tx(RemovalPlan(p))
               \/ JournalRemove("post_base", TombstoneName(p), r.id)
    BY DEF CleanupRecovery, Require, Commit
  <1>2. PICK t : t = p
    OBVIOUS
  <1>3. CASE p \notin DOMAIN recoveries
    BY <1>0, <1>1, <1>3, PassedAccepted
  <1>4. CASE db' = Consumed(p) /\ Goto("cleanup", run.at + 1)
    BY <1>0, <1>2, <1>4, ConsumedAccepted
  <1> HIDE DEF p, r
  <1>5. CASE p \in DOMAIN recoveries /\ Tx([db EXCEPT !.recoveries[p].tombstone = TRUE])
    <2> DEFINE c == [recoveries EXCEPT ![p].tombstone = TRUE]
    <2>1. db' = [db EXCEPT !.recoveries = c] /\ run' = run
      BY <1>0, <1>5 DEF Tx, recoveries, Types
    <2>2. DOMAIN c = DOMAIN recoveries /\ \A q \in DOMAIN c : c[q].completed = recoveries[q].completed
      BY <1>0 DEF Types, RecoveriesTypes, RecoveryOK
    <2> HIDE DEF c
    <2> QED BY <2>1, <2>2, RecoveriesAccepted
  <1> QED BY <1>1, <1>3, <1>4, <1>5, Failing1, Renaming1, Removing1, PlanOfRemovalAccepted

(***************************************************************************)
(* Promoted files return.                                                  *)
(***************************************************************************)
LEMMA RestorePromotedAccepted ==
    ASSUME Ready, RestorePromoted
    PROVE  CInv'
  <1> DEFINE s == Promote[run.at].source
  <1>0. IInv /\ Tables
    BY ReadyIs DEF IInv
  <1>1. At("restore")
    BY DEF RestorePromoted
  <1>2. run.stage = "restore" /\ Intents = {} /\ Stages /\ Types
    BY <1>0, <1>1, AtIs
  <1>3. \/ Next1
        \/ s \in DOMAIN links /\ links[s].rollback = None
           /\ JournalRestorePromotion(s, HiddenAt(s), IF Parent(s) = <<>> THEN NoStamp ELSE BaseShape[Parent(s)].data)
    BY DEF RestorePromoted
  <1> HIDE DEF s
  <1>4. CASE s \in DOMAIN links /\ links[s].rollback = None
           /\ JournalRestorePromotion(s, HiddenAt(s), IF Parent(s) = <<>> THEN NoStamp ELSE BaseShape[Parent(s)].data)
    <2>1. index # "target" /\ State \in {"pending", "rolling_back"}
      BY <1>2 DEF Stages
    <2>2. State = "rolling_back"
      BY <1>0, <1>2, <1>4, <2>1 DEF Tables, Indexed, Base, Types, PendingTypes
    <2> QED BY <1>2, <1>4, <2>2, RestorePromotionAccepted
  <1>5. CASE Next1
    BY <1>2, <1>5, NextAccepted DEF Ordinary
  <1> QED BY <1>3, <1>4, <1>5

(***************************************************************************)
(* The process executes an intent.                                         *)
(***************************************************************************)
LEMMA CompleteAccepted ==
    ASSUME Ready, NEW a, First(a), Complete(a)
    PROVE  CInv'
  <1>0. /\ Tables /\ Types /\ JournalTypes /\ JournalTypes' /\ Chains /\ Owners /\ RunTypes /\ lastId \in Nat
        /\ IInv /\ scenario' = scenario /\ a \in Intents
    BY ReadyIs DEF IInv, Worlds, First
  <1>1. a \in journal /\ RowOK(a) /\ a.state = "intent"
    BY <1>0, FirstIs
  <1>2. /\ pending' = pending /\ rows' = rows /\ recoveries' = recoveries /\ links' = links
    BY <1>0, Completing DEF Complete
  <1>3. journal' = IF Kept(a) THEN Replace(a, CompletedRow(a)) ELSE journal \ {a}
    BY DEF Complete, CompletedRow, journal
  <1>4. Resting' /\ State' = State
    BY <1>2, RestingKept
  <1>5. OwnersKept /\ CapturedKept /\ StateKept
    BY <1>2, <1>4, RowsOfPaths, RowsOfRecoveries, SameState
  <1>6. Matched
    <2>1. CASE Kept(a)
      <3>1. Similar(a, CompletedRow(a))
        BY <1>1, CompletedRowOK DEF Similar, Alike
      <3>2. journal' = Replace(a, CompletedRow(a))
        BY <1>3, <2>1
      <3> QED BY <3>1, <3>2, <1>1, Itself DEF Matched, Replace
    <2>2. CASE ~ Kept(a)
      <3>1. Bystander(a)
        BY <1>1, <2>2 DEF Kept, Bystander, RowOK
      <3>2. journal' = journal \ {a}
        BY <1>3, <2>2
      <3> QED BY <3>1, <3>2, Itself DEF Matched
    <2> QED BY <2>1, <2>2
  <1>7. Chains' /\ Owners'
    BY <1>0, <1>2, <1>5, <1>6, Unaltered
  <1>8. Course'
    <2>1. CASE run' = NoRun
      BY <1>4, <2>1, CourseEnds
    <2>2. CASE run' # NoRun
      <3>1. run' = [run EXCEPT !.acted = FALSE, !.step = IF run.stage = "recover" THEN "start" ELSE "moved"]
        BY <2>2 DEF Complete
      <3>2. run'.cmd = run.cmd /\ run'.stage = run.stage /\ run'.at = run.at
        BY <1>0, <3>1 DEF RunTypes
      <3> QED BY <1>2, <1>4, <3>2, CourseStays
    <2> QED BY <2>1, <2>2
  <1> QED BY <1>7, <1>8 DEF CInv

LEMMA ActingAccepted ==
    ASSUME Ready, db' = db, run' = [run EXCEPT !.acted = TRUE]
    PROVE  CInv'
  <1>1. run'.cmd = run.cmd /\ run'.stage = run.stage /\ run'.at = run.at
    BY ReadyIs DEF RunTypes
  <1> QED BY <1>1, Calling1

LEMMA IdentifyAccepted ==
    ASSUME Ready, NEW a, First(a), a.op = "create", run.acted,
           Tx([db EXCEPT !.journal = Replace(a, [a EXCEPT !.id = tree[a.path].id])])
    PROVE  CInv'
  <1>0. /\ Tables /\ Types /\ Worlds /\ JournalTypes /\ JournalTypes' /\ Chains /\ Owners /\ RunTypes /\ lastId \in Nat
        /\ IInv /\ scenario' = scenario /\ a \in Intents
    BY ReadyIs DEF IInv, Worlds, First
  <1>1. a \in journal /\ RowOK(a) /\ a.state = "intent" /\ DOMAIN a = RowFields
    BY <1>0, FirstIs DEF RowOK
  <1>2. a.path \in DOMAIN tree
    BY <1>0, FirstIs DEF IInv, Control, Acting, First, Exists, IsPromotion
  <1>3. tree[a.path].id \in 0 .. lastId
    BY <1>0, <1>2, ObjectIs
  <1>4. db' = [db EXCEPT !.journal = Replace(a, [a EXCEPT !.id = tree[a.path].id])] /\ lastId' = lastId /\ run' = run
    BY DEF Tx, fs
  <1>5. PICK r : r = IdentifiedRow(a, tree[a.path].id)
    OBVIOUS
  <1>6. pending' = pending /\ rows' = rows /\ recoveries' = recoveries /\ links' = links /\ journal' = Replace(a, r)
    BY <1>0, <1>3, <1>4, <1>5, Identified
  <1>7. Similar(a, r)
    <2>1. r.order = a.order /\ r.op = a.op /\ r.path = a.path /\ r.target = a.target /\ r.origin = a.origin
          /\ r.attempt = a.attempt /\ r.outcome = a.outcome /\ r.shape = a.shape /\ r.state = a.state
      BY <1>1, <1>5 DEF IdentifiedRow, RowFields
    <2> QED BY <2>1 DEF Similar, IsPromotion
  <1>8. Matched
    BY <1>1, <1>6, <1>7, Itself DEF Matched, Replace
  <1>9. Resting' /\ State' = State
    BY <1>6, RestingKept
  <1>10. OwnersKept /\ CapturedKept /\ StateKept
    BY <1>6, <1>9, RowsOfPaths, RowsOfRecoveries, SameState
  <1>11. Chains' /\ Owners'
    BY <1>0, <1>6, <1>8, <1>10, Unaltered
  <1> QED BY <1>4, <1>6, <1>9, <1>11, Staying

LEMMA RollBackUnknownAccepted ==
    ASSUME Ready, NEW a, First(a), a.op = "create", RollBackUnknown(a)
    PROVE  CInv'
  <1>0. /\ Tables /\ Types /\ Worlds /\ JournalTypes /\ JournalTypes' /\ Chains /\ Owners /\ RunTypes
        /\ IInv /\ scenario' = scenario /\ a \in Intents
    BY ReadyIs DEF IInv, First
  <1>1. a \in journal /\ RowOK(a) /\ a.state = "intent" /\ DOMAIN a = RowFields /\ a.origin = None
    BY <1>0, FirstIs DEF RowOK
  <1>2. PICK n : n = AsideRow(a)
    OBVIOUS
  <1>3. PICK r : r = RolledBackRow(a)
    OBVIOUS
  <1>4. /\ State' \in {State, "rolling_back"} /\ State' # "applying" /\ (State = "pending" => State' = "rolling_back")
        /\ Intents' = {n} /\ rows' = rows /\ recoveries' = recoveries /\ links' = links
        /\ run' = run /\ journal' = (((journal \ {a}) \cup {r}) \cup {n})
    BY <1>0, <1>2, <1>3, RolledBackUnknown DEF Replace
  <1>5. State' = "rolling_back"
    BY <1>0, <1>4 DEF Chains, Creating1
  <1>6. RowIsOf(n, "rename", "rollback", a.path, Recovered(a.path, 1), a.kind, None, NoShape, NoStamp, a.order, 1, "preserve_unknown")
    BY <1>2, RowsAre
  <1>7. n.op = "rename" /\ n.origin = a.order /\ n.attempt = 1 /\ n.path = a.path /\ n.target = Recovered(a.path, 1)
        /\ n.outcome = "preserve_unknown" /\ ~ IsPromotion(n) /\ n.order = NextOrder
    BY <1>6 DEF RowIsOf, IsPromotion
  <1>8. r.order = a.order /\ r.op = "create" /\ r.path = a.path /\ r.origin = None /\ r.state = "completed"
        /\ r.outcome = "rolled_back"
    BY <1>1, <1>3 DEF RolledBackRow, RowFields
  <1>9. Fresh1(n)
    BY <1>7, NextIsFresh
  <1>10. Chains'
    BY <1>0, <1>1, <1>4, <1>5, <1>7, <1>8, <1>9, ChainTurned
  <1>11. Owners'
    <2>1. Outsider(a) /\ Outsider(r) /\ Outsider(n)
      BY <1>7, <1>8 DEF Outsider, IsPromotion
    <2>2. OwnersMatched
      BY <1>4, <2>1, Itself DEF OwnersMatched
    <2>3. CapturedKept
      BY <1>4, RowsOfRecoveries
    <2>4. StateKept
      BY <1>5 DEF StateKept
    <2> QED BY <1>0, <1>4, <2>2, <2>3, <2>4, OwnersUnaltered
  <1>12. Course'
    <2>1. Resting'
      BY <1>5 DEF Resting
    <2> QED BY <1>4, <1>5, <2>1, CourseStays
  <1> QED BY <1>10, <1>11, <1>12 DEF CInv

LEMMA AdvanceAccepted ==
    ASSUME Ready, NEW a, First(a), Preserving(a), AdvancePreserved(a)
    PROVE  CInv'
  <1>0. /\ Tables /\ Types /\ Worlds /\ JournalTypes /\ JournalTypes' /\ Chains /\ Owners /\ RunTypes
        /\ IInv /\ scenario' = scenario /\ a \in Intents
    BY ReadyIs DEF IInv, First
  <1>1. a \in journal /\ RowOK(a) /\ a.state = "intent" /\ DOMAIN a = RowFields /\ Plain(a) /\ ~ IsPromotion(a)
        /\ a.origin # None
    BY <1>0, FirstIs DEF RowOK
  <1>2. PICK n : n = NextAside(a)
    OBVIOUS
  <1>3. PICK r : r = CollidedRow(a)
    OBVIOUS
  <1>4. /\ State' = State /\ Intents' = {n} /\ pending' = pending /\ rows' = rows /\ recoveries' = recoveries /\ links' = links
        /\ run' = run /\ journal' = (((journal \ {a}) \cup {r}) \cup {n})
    BY <1>0, <1>2, <1>3, AdvancedPreserved DEF Replace
  <1>5. PICK m \in Nat : a.attempt = m
    BY <1>1 DEF RowOK
  <1>6. n.order = NextOrder /\ n.op = "rename" /\ n.origin = a.origin /\ n.attempt = m + 1 /\ n.path = a.path
        /\ n.target = Recovered(a.path, m + 1) /\ n.outcome = "preserve_unknown" /\ ~ IsPromotion(n)
    <2>1. n.order = NextOrder /\ n.op = a.op /\ n.origin = a.origin /\ n.path = a.path /\ n.outcome = a.outcome
          /\ n.shape = a.shape /\ n.target = Recovered(a.path, m + 1)
      BY <1>1, <1>2, <1>5 DEF NextAside, RowFields
    <2>2. n.attempt = m + 1
      BY <1>1, <1>2, <1>5 DEF NextAside, RowFields
    <2> QED BY <1>1, <2>1, <2>2 DEF Plain, Preserving, IsPromotion
  <1>7. r.order = a.order /\ r.op = "rename" /\ r.path = a.path /\ r.target = a.target /\ r.origin = a.origin
        /\ r.attempt = a.attempt /\ r.outcome = "collision" /\ ~ IsPromotion(r) /\ r.state = "completed"
    <2>1. r.order = a.order /\ r.op = a.op /\ r.path = a.path /\ r.target = a.target /\ r.origin = a.origin
          /\ r.attempt = a.attempt /\ r.outcome = "collision" /\ r.shape = a.shape /\ r.state = "completed"
      BY <1>1, <1>3 DEF CollidedRow, RowFields
    <2> QED BY <1>1, <2>1 DEF Plain, IsPromotion
  <1>8. Fresh1(n) /\ a.outcome # "collision"
    BY <1>6, NextIsFresh DEF Preserving
  <1>9. Chains'
    BY <1>0, <1>1, <1>4, <1>5, <1>6, <1>7, <1>8, ChainAdvanced
  <1>10. Resting'
    BY <1>4, RestingKept
  <1>11. Owners'
    <2>1. Outsider(a) /\ Outsider(r) /\ Outsider(n)
      BY <1>1, <1>6, <1>7 DEF Outsider, Plain
    <2>2. OwnersMatched
      BY <1>4, <2>1, Itself DEF OwnersMatched
    <2>3. CapturedKept /\ StateKept
      BY <1>4, RowsOfRecoveries, SameState
    <2> QED BY <1>0, <1>4, <2>2, <2>3, OwnersUnaltered
  <1> QED BY <1>4, <1>9, <1>10, <1>11, Staying

LEMMA CollisionAccepted ==
    ASSUME Ready, NEW a, First(a), IsPromotion(a), Exists(a.target), PreserveCollision(a)
    PROVE  CInv'
  <1>0. /\ Tables /\ Types /\ Worlds /\ JournalTypes /\ JournalTypes' /\ Chains /\ Owners /\ RunTypes
        /\ IInv /\ scenario' = scenario /\ a \in Intents
    BY ReadyIs DEF IInv, First
  <1>1. a \in journal /\ RowOK(a)
    BY <1>0, FirstIs
  <1>2. CASE tree[a.target].kind # "File"
    <2>1. Fail
      BY <1>2 DEF PreserveCollision
    <2> QED BY <2>1, Failing1
  <1>3. CASE tree[a.target].kind = "File"
    <2> DEFINE root == RootOf(a)
               tail == TailOf(root)
    <2>1. PICK n : n = NextOfChain(a, a.target, tree[a.target].id)
      OBVIOUS
    <2>2. /\ State = "applying" /\ journal' = journal \cup {n} /\ pending' = pending
          /\ rows' = rows /\ recoveries' = recoveries /\ links' = links /\ run' = run
      BY <1>0, <1>3, <2>1, CollisionPreserved
    <2>3. /\ root \in journal /\ root.order = RootOrder(a) /\ root.origin = None /\ IsPromotion(root)
          /\ root.order \in Nat \ {0} /\ tail.attempt \in Nat
      BY <1>0, <1>1, <2>2, ChainIs
    <2>4. /\ Chain(root.order) = {} => tail = root
          /\ Chain(root.order) # {} => tail \in Chain(root.order)
          /\ tail \in journal /\ \A c \in Chain(root.order) : c.attempt <= tail.attempt
      BY <1>0, <2>3, TailIs
    <2>5. PICK m \in Nat : tail.attempt = m
      BY <2>3
    <2>6. n = ChainRow(a.target, NextName(tail.target), tree[a.target].id, root.order, tail.attempt + 1)
      BY <2>1 DEF NextOfChain
    <2> HIDE DEF root, tail
    <2>7. RowIsOf(n, "rename", "pre_base", a.target, NextName(tail.target), "File", tree[a.target].id, Shape(tree, a.target), NoStamp,
                  root.order, tail.attempt + 1, "")
      BY <2>6, RowsAre
    <2>8. Shape(tree, a.target) # NoShape
      BY <1>0, ObjectIs DEF Exists
    <2>9. IsPromotion(n) /\ n.order = NextOrder /\ n.origin = root.order /\ n.outcome = ""
          /\ n.target = NextName(tail.target) /\ n.attempt = m + 1
      BY <2>5, <2>7, <2>8 DEF RowIsOf, IsPromotion
    <2>10. Resting' /\ State' = State
      BY <2>2, RestingKept
    <2>11. Fresh1(n) /\ n.origin # None
      BY <2>3, <2>9, NextIsFresh DEF None
    <2>12. Tail1(root, tail)
      BY <2>3, <2>4 DEF Tail1
    <2>13. Chains'
      BY <1>0, <2>2, <2>3, <2>5, <2>9, <2>10, <2>11, <2>12, ChainExtended
    <2>14. Owners'
      BY <1>0, <2>2, <2>9, <2>10, <2>11, CollisionOwned
    <2> QED BY <2>2, <2>10, <2>13, <2>14, Staying
  <1> QED BY <1>2, <1>3

LEMMA ExecuteAccepted ==
    ASSUME Ready, Execute
    PROVE  CInv'
  <1> DEFINE a == Current
  <1>1. Tables /\ Intents # {} /\ IInv
    BY ReadyIs DEF Execute
  <1>2. First(a) /\ RowOK(a) /\ (a.outcome = "preserve_unknown" <=> Preserving(a))
    <2>1. First(a)
      BY <1>1, CurrentIntent DEF First
    <2> QED BY <1>1, <2>1, FirstIs DEF Preserving
  <1>3. \/ a.op = "create" /\ CreateStep(a)
        \/ a.op = "remove" /\ RemoveStep(a)
        \/ a.op = "mtime" /\ MtimeStep(a)
        \/ a.op = "restore" /\ RestoreStep(a)
        \/ IsPromotion(a) /\ PromotionStep(a)
        \/ RenameStep(a)
    BY <1>2 DEF Execute, RowOK, IsPromotion
  <1> HIDE DEF a
  <1>4. CASE a.op = "create" /\ CreateStep(a)
    <2>1. \/ run.acted /\ Tx([db EXCEPT !.journal = Replace(a, [a EXCEPT !.id = tree[a.path].id])])
          \/ Complete(a)
          \/ Create(a)
          \/ RollBackUnknown(a)
          \/ Fail
      BY <1>4 DEF CreateStep, Done, Require
    <2>2. Create(a) => CInv'
      BY ActingAccepted DEF Create
    <2> QED BY <1>2, <1>4, <2>1, <2>2, IdentifyAccepted, CompleteAccepted, RollBackUnknownAccepted, Failing1
  <1>5. ASSUME NEW t, Did(t) PROVE CInv'
    BY <1>5, ActingAccepted DEF Did, Call
  <1>6. CASE RemoveStep(a)
    BY <1>2, <1>5, <1>6, CompleteAccepted, Failing1 DEF RemoveStep, Done
  <1>7. CASE MtimeStep(a)
    BY <1>2, <1>5, <1>7, CompleteAccepted, Failing1 DEF MtimeStep, Done
  <1>8. CASE RestoreStep(a)
    BY <1>2, <1>5, <1>8, CompleteAccepted, Failing1 DEF RestoreStep, Require
  <1>9. CASE IsPromotion(a) /\ PromotionStep(a)
    BY <1>2, <1>5, <1>9, CompleteAccepted, CollisionAccepted, Failing1 DEF PromotionStep, Done, Require
  <1>10. CASE RenameStep(a)
    BY <1>2, <1>5, <1>10, CompleteAccepted, AdvanceAccepted, Failing1 DEF RenameStep, Done
  <1> QED BY <1>3, <1>4, <1>6, <1>7, <1>8, <1>9, <1>10

(***************************************************************************)
(* The journal is accepted.                                                *)
(***************************************************************************)
LEMMA WithoutGaps ==
    ASSUME NEW S, S # {}, S \subseteq Nat \ {0}, IsFiniteSet(S), \A x \in S : x = 1 \/ x - 1 \in S
    PROVE  S = 1 .. Cardinality(S)
  <1>1. PICK m : m = Max(S)
    OBVIOUS
  <1>2. m \in S /\ m \in Nat \ {0} /\ \A x \in S : x <= m
    BY <1>1, MaxOfNats
  <1>3. S = 1 .. m
    <2>a. S \subseteq 1 .. m
      <3> SUFFICES ASSUME NEW x \in S PROVE x \in 1 .. m
        OBVIOUS
      <3>1. x \in Nat \ {0} /\ x <= m
        BY <1>2
      <3> QED BY <1>2, <3>1
    <2> SUFFICES ASSUME NEW k \in 1 .. m, k \notin S PROVE FALSE
      BY <2>a
    <2>1. PICK G : G = {g \in 1 .. m : g \notin S}
      OBVIOUS
    <2>2. G # {} /\ G \subseteq Nat /\ IsFiniteSet(G)
      <3>1. IsFiniteSet(1 .. m) /\ G \subseteq 1 .. m
        BY <1>2, <2>1, FS_Interval
      <3>2. IsFiniteSet(G)
        BY <3>1, FS_Subset
      <3> QED BY <1>2, <2>1, <3>2
    <2>3. PICK g \in G : \A x \in G : x <= g
      BY <2>2, MaxOfNats
    <2>4. g \in 1 .. m /\ g \notin S
      BY <2>1
    <2>5. g + 1 \in 1 .. m /\ g + 1 # 1 /\ (g + 1) - 1 = g /\ ~ (g + 1 <= g)
      BY <1>2, <2>4
    <2>6. g + 1 \in S
      BY <2>1, <2>3, <2>5
    <2> QED BY <2>4, <2>5, <2>6
  <1>4. Cardinality(1 .. m) = m
    BY <1>2, FS_Interval
  <1> QED BY <1>3, <1>4

LEMMA AttemptsAre ==
    ASSUME JournalTypes, Chains, NEW o, o # None, NEW C, C = Chain(o), C # {}
    PROVE  /\ {a.attempt : a \in C} = 1 .. Cardinality(C) /\ Cardinality(C) \in Nat
           /\ \A a \in C : a \in journal /\ InChain(a) /\ a.origin = o /\ a.attempt \in Nat \ {0}
           /\ \A a, c \in C : a.attempt = c.attempt => a = c
  <1>1. C \subseteq journal /\ IsFiniteSet(C) /\ \A a \in C : a \in journal /\ a.origin = o /\ InChain(a)
    BY FS_Subset DEF Chain, JournalTypes, InChain
  <1>2. \A a \in C : a.attempt \in Nat \ {0}
    BY <1>1 DEF JournalTypes, RowOK, Chains, Numbered
  <1>3. \A a, c \in C : a.attempt = c.attempt => a = c
    BY <1>1 DEF Chains, Numbered
  <1>4. PICK S : S = {a.attempt : a \in C}
    OBVIOUS
  <1>5. \A x \in S : x = 1 \/ x - 1 \in S
    <2> SUFFICES ASSUME NEW a \in C, a.attempt # 1 PROVE \E c \in C : c.attempt = a.attempt - 1
      BY <1>4
    <2>1. PICK c \in journal : c.origin = a.origin /\ c.attempt = a.attempt - 1
      BY <1>1 DEF Chains, Numbered
    <2> QED BY <1>1, <2>1 DEF Chain
  <1>6. IsFiniteSet(S) /\ Cardinality(S) = Cardinality(C)
    <2>1. PICK f : f = [a \in C |-> a.attempt]
      OBVIOUS
    <2>2. f \in Bijection(C, S)
      <3>1. f \in [C -> S] /\ \A a \in C : f[a] = a.attempt
        BY <1>4, <2>1
      <3>2. \A a, c \in C : f[a] = f[c] => a = c
        BY <1>3, <3>1
      <3>3. \A x \in S : \E a \in C : f[a] = x
        BY <1>4, <3>1
      <3> QED BY <3>1, <3>2, <3>3 DEF Bijection, Injection, IsInjective, Surjection
    <2>3. ExistsBijection(C, S)
      BY <2>2 DEF ExistsBijection
    <2> QED BY <1>1, <2>3, FS_Bijection
  <1>7. S # {} /\ S \subseteq Nat \ {0}
    BY <1>2, <1>4
  <1>8. S = 1 .. Cardinality(S)
    BY <1>5, <1>6, <1>7, WithoutGaps
  <1>9. Cardinality(C) \in Nat
    BY <1>1, FS_CardinalityType
  <1> QED BY <1>1, <1>2, <1>3, <1>4, <1>6, <1>8, <1>9

LEMMA PromotionsAccepted ==
    ASSUME JournalTypes, Chains, ~ StartedOver, NEW o, o # None, NEW C, C = Chain(o), C # {}, NEW r \in journal, r.order = o,
           r.origin = None, IsPromotion(r)
    PROVE  PromotionChain(r, C)
  <1>0. /\ {a.attempt : a \in C} = 1 .. Cardinality(C) /\ Cardinality(C) \in Nat
        /\ \A a \in C : a \in journal /\ InChain(a) /\ a.origin = o /\ a.attempt \in Nat \ {0}
        /\ \A a, c \in C : a.attempt = c.attempt => a = c
    BY AttemptsAre
  <1>1. ASSUME NEW a \in C, NEW p, p = IF a.attempt = 1 THEN r ELSE CHOOSE c \in C : c.attempt = a.attempt - 1
        PROVE  IsPromotion(a) /\ a.path = p.target /\ a.target = NextName(p.target)
    <2>1. PICK m \in Nat : a.attempt = m
      BY <1>0
    <2>2. a \in journal /\ InChain(a) /\ a.origin = o
      BY <1>0
    <2>3. IsPromotion(a)
      BY <2>2 DEF Chains, OneKind
    <2>4. p \in journal /\ p.attempt = m - 1 /\ o \in {p.origin, p.order}
      <3>1. CASE m = 1
        <4>1. r.attempt = 0
          BY DEF JournalTypes, RowOK
        <4> QED BY <1>1, <2>1, <3>1, <4>1
      <3>2. CASE m # 1
        <4>1. PICK c \in journal : c.origin = a.origin /\ c.attempt = a.attempt - 1
          BY <2>1, <2>2, <3>2 DEF Chains, Numbered
        <4>2. c \in C
          BY <2>2, <4>1 DEF Chain
        <4>3. p \in C /\ p.attempt = a.attempt - 1
          BY <1>1, <2>1, <3>2, <4>1, <4>2
        <4> QED BY <1>0, <2>1, <4>3
      <3> QED BY <3>1, <3>2
    <2>5. a.attempt = p.attempt + 1
      <3>1. m = (m - 1) + 1
        OBVIOUS
      <3> QED BY <2>1, <2>4, <3>1
    <2>6. a.target = NextName(p.target)
      BY <2>2, <2>3, <2>4, <2>5 DEF Chains, Successive, Follows
    <2>7. a.path = p.target
      BY <2>1, <2>2, <2>3, <2>4 DEF StartedOver, InChain
    <2> QED BY <2>3, <2>6, <2>7
  <1> QED BY <1>1 DEF PromotionChain

LEMMA PreservesAccepted ==
    ASSUME JournalTypes, Chains, NEW o, o # None, NEW C, C = Chain(o), C # {}, NEW r \in journal, r.order = o, ~ IsPromotion(r)
    PROVE  PreserveChain(r, C)
  <1>0. /\ {a.attempt : a \in C} = 1 .. Cardinality(C) /\ Cardinality(C) \in Nat
        /\ \A a \in C : a \in journal /\ InChain(a) /\ a.origin = o /\ a.attempt \in Nat \ {0}
        /\ \A a, c \in C : a.attempt = c.attempt => a = c
    BY AttemptsAre
  <1>1. \A a \in C : MovesAside(a, r)
    BY <1>0 DEF Chains, OneKind
  <1>2. /\ r.op = "create" /\ r.state = "completed" /\ r.outcome = "rolled_back" /\ Owner(r) /\ State = "rolling_back"
    BY <1>1 DEF MovesAside
  <1>3. ASSUME NEW a \in C
        PROVE  (a.outcome = "collision") <=> (a.attempt < Cardinality(C))
    <2>1. PICK m \in Nat : a.attempt = m
      BY <1>0
    <2>2. PICK k \in Nat : Cardinality(C) = k
      BY <1>0
    <2>3. m \in 1 .. k
      BY <1>0, <2>1, <2>2
    <2>4. (a.outcome = "collision") <=> \E c \in journal : c.origin = a.origin /\ c.attempt = a.attempt + 1
      BY <1>1 DEF MovesAside
    <2>5. (\E c \in journal : c.origin = a.origin /\ c.attempt = a.attempt + 1) <=> m + 1 \in {c.attempt : c \in C}
      BY <1>0, <2>1 DEF Chain
    <2>6. m + 1 \in 1 .. k <=> m < k
      BY <2>3
    <2> QED BY <1>0, <2>1, <2>2, <2>4, <2>5, <2>6
  <1>4. \A a \in C : a.path = r.path /\ a.target = Recovered(r.path, a.attempt)
    BY <1>1 DEF MovesAside
  <1>5. pending.state = "rolling_back"
    BY <1>2 DEF State
  <1> QED BY <1>2, <1>3, <1>4, <1>5 DEF PreserveChain, Owner

LEMMA AcceptsChains ==
    ASSUME JournalTypes, Chains, ~ StartedOver
    PROVE  ChainsAccepted
  <1>1. ASSUME NEW o \in {a.origin : a \in journal} \ {None}
        PROVE  /\ \E a \in journal : a.order = o /\ a.origin = None
               /\ {a.attempt : a \in Chain(o)} = 1 .. Cardinality(Chain(o))
               /\ IF IsPromotion(Row(o)) THEN PromotionChain(Row(o), Chain(o)) ELSE PreserveChain(Row(o), Chain(o))
    <2>1. o # None /\ Chain(o) # {}
      BY DEF Chain
    <2>2. PICK r \in journal : r.order = o /\ r.origin = None
      <3>1. PICK a \in journal : a.origin = o
        OBVIOUS
      <3> QED BY <2>1, <3>1 DEF Chains, Rooted, InChain
    <2>3. Row(o) = r
      BY <2>2, RowIs
    <2>4. {a.attempt : a \in Chain(o)} = 1 .. Cardinality(Chain(o))
      BY <2>1, AttemptsAre
    <2>5. CASE IsPromotion(r)
      BY <2>1, <2>2, <2>3, <2>4, <2>5, PromotionsAccepted
    <2>6. CASE ~ IsPromotion(r)
      BY <2>1, <2>2, <2>3, <2>4, <2>6, PreservesAccepted
    <2> QED BY <2>5, <2>6
  <1>2. \A a \in journal : a.outcome = "rolled_back" => Chain(a.order) # {}
    BY DEF Chains, TurnedBack, Chain
  <1> QED BY <1>1, <1>2 DEF ChainsAccepted

LEMMA AcceptsOwners ==
    ASSUME JournalTypes, Chains, Owners
    PROVE  OwnershipAccepted
  <1>1. ASSUME NEW s \in DOMAIN links
        PROVE  /\ \E a \in journal : a.order = links[s].current /\ IsPromotion(a)
               /\ SubSeq(s, 1, 1) \in DOMAIN recoveries /\ recoveries[SubSeq(s, 1, 1)].completed
               /\ links[s].rollback # None =>
                     \E a \in journal : /\ a.order = links[s].rollback /\ a.op = "restore"
                                        /\ a.path = Row(links[s].current).target /\ Row(links[s].current).state = "completed"
    <2>1. Owned(s)
      BY DEF Owners
    <2>2. ASSUME links[s].rollback # None
          PROVE  \E a \in journal : /\ a.order = links[s].rollback /\ a.op = "restore"
                                    /\ a.path = Row(links[s].current).target /\ Row(links[s].current).state = "completed"
      <3>1. PICK a, c \in journal : RestoreIs(s, a) /\ CurrentIs(s, c) /\ a.path = c.target /\ c.state = "completed"
        BY <2>1, <2>2 DEF Owned, RestoredFrom
      <3>2. Row(links[s].current) = c
        BY <3>1, RowIs DEF CurrentIs
      <3> QED BY <3>1, <3>2 DEF RestoreIs
    <2> QED BY <2>1, <2>2 DEF Owned, CurrentIs, Captured1, Top
  <1>2. ASSUME NEW a \in journal, IsPromotion(a), a.origin = None
        PROVE  Cardinality({s \in DOMAIN links : RootOf(Row(links[s].current)) = a}) = 1
    <2>1. ASSUME NEW s \in DOMAIN links
          PROVE  RootOf(Row(links[s].current)) = a <=> RootOn(s, a.order)
      <3>1. PICK c \in journal : CurrentIs(s, c)
        BY DEF Owners, Owned, CurrentIs
      <3>2. Row(links[s].current) = c /\ \A x \in journal : CurrentIs(s, x) => x = c
        BY <3>1, RowIs DEF CurrentIs, JournalTypes
      <3>3. RootOf(c) \in journal /\ RootOf(c).order = RootOrder(c)
        BY RootOrderIs
      <3>4. RootOf(c) = a <=> RootOrder(c) = a.order
        BY <3>3 DEF JournalTypes
      <3> QED BY <3>1, <3>2, <3>4 DEF RootOn
    <2>2. PICK s \in DOMAIN links : RootOn(s, a.order)
      BY <1>2 DEF Owners, Linked1
    <2>3. ASSUME NEW z \in DOMAIN links, RootOn(z, a.order) PROVE z = s
      <3>1. RootOrder(a) = a.order
        BY <1>2 DEF RootOrder
      <3> QED BY <2>2, <2>3, <3>1 DEF Owners, Apart
    <2>4. {z \in DOMAIN links : RootOf(Row(links[z].current)) = a} = {s}
      BY <2>1, <2>2, <2>3
    <2> QED BY <2>4, FS_Singleton
  <1>3. ASSUME NEW a \in journal, a.op = "restore"
        PROVE  pending.state = "rolling_back" /\ \E s \in DOMAIN links : links[s].rollback = a.order
    BY <1>3 DEF Owners, Linked1, State
  <1> QED BY <1>1, <1>2, <1>3 DEF OwnershipAccepted

LEMMA Accepts == IInv /\ CInv => JournalAccepted
  <1> SUFFICES ASSUME IInv, CInv PROVE JournalAccepted
    OBVIOUS
  <1>1. JournalTypes /\ Chains /\ Owners
    BY DEF IInv, Tables, Types, CInv
  <1> QED BY <1>1, AcceptsChains, AcceptsOwners DEF JournalAccepted

(***************************************************************************)
(* The first state, and every step.                                        *)
(***************************************************************************)
LEMMA StartsAccepted == Init => CInv
  <1> SUFFICES ASSUME Init PROVE CInv
    OBVIOUS
  <1>1. journal = {} /\ links = <<>> /\ run = NoRun /\ pending = NoPending
    <2> DEFINE x == IF scenario.bind THEN "none" ELSE "base"
    <2>1. db = [journal |-> {}, pending |-> NoPending, rows |-> <<>>, recoveries |-> <<>>, links |-> <<>>, index |-> x]
      BY DEF Init
    <2> HIDE DEF x
    <2>2. journal = {} /\ links = <<>> /\ pending = NoPending
      BY <2>1 DEF journal, links, pending
    <2> QED BY <2>2 DEF Init
  <1>2. Intents = {}
    BY <1>1 DEF Intents
  <1>3. Chains
    BY <1>1, <1>2 DEF Chains, Rooted, Numbered, Successive, OneKind, TurnedBack, Creating1
  <1>4. Owners
    BY <1>1 DEF Owners, Apart, Linked1
  <1>5. Course
    BY <1>1 DEF Course, Resting, Binding, Consumed1, ConsumedAll, NoRun
  <1> QED BY <1>3, <1>4, <1>5 DEF CInv

LEMMA CheckoutAccepted ==
    ASSUME Ready, Checkout
    PROVE  CInv'
  <1>1. Dispatch \/ SaveCheckoutPaths \/ RegisterRecoveryPlan \/ PrepareRecovery \/ Prepared => CInv'
    BY DispatchAccepted, SaveAccepted, RegisterAccepted, PrepareRecoveryAccepted, QuietAccepted
  <1>2. InstallDirectory \/ DirectoriesInstalled \/ PromoteCaptured \/ Reconcile \/ Reconciled \/ InstallFile => CInv'
    BY InstallDirectoryAccepted, QuietAccepted, PromoteCapturedAccepted, ReconcileAccepted, InstallFileAccepted
  <1>3. FilesInstalled \/ SetDirectoryMtime \/ Materialized \/ BindScan \/ FinalizeCheckout => CInv'
    BY QuietAccepted, SetMtimeAccepted, EndsAccepted
  <1>4. VerifyCaptured \/ ScanTarget \/ Recheck \/ FinalizeSyncApply \/ CleanupRecovery \/ FinishSyncCleanup => CInv'
    BY VerifyAccepted, QuietAccepted, FinalizeAccepted, CleanupRecoveryAccepted, EndsAccepted
  <1> QED BY <1>1, <1>2, <1>3, <1>4 DEF Checkout

LEMMA RollbackAccepted ==
    ASSUME Ready, Rollback
    PROVE  CInv'
  <1>1. RestorePromoted \/ RestoreMetadata \/ CleanupTemps \/ UninstallPath \/ Uninstalled \/ RestoreRecovery => CInv'
    BY RestorePromotedAccepted, RestoreMetadataAccepted, CleanupTempsAccepted, UninstallAccepted, QuietAccepted,
       RestoreRecoveryAccepted
  <1>2. Restored \/ RestoreRootMtime \/ ClearRollback \/ PlanSync \/ RunLibraryUnbind => CInv'
    BY RestoredAccepted, RestoreRootMtimeAccepted, ClearRollbackAccepted, DispatchAccepted, EndsAccepted
  <1> QED BY <1>1, <1>2 DEF Rollback

LEMMA NextAccepts == IInv /\ IInv' /\ CInv /\ [Next]_vars => CInv'
  <1> SUFFICES ASSUME IInv, IInv', CInv, [Next]_vars PROVE CInv'
    OBVIOUS
  <1>1. CASE UNCHANGED vars
    <2>1. db' = db /\ run' = run /\ scenario' = scenario
      BY <1>1 DEF vars, world
    <2> QED BY <2>1, Calling1 DEF Ready
  <1>2. CASE Command
    <2>1. Start /\ scenario' = scenario
      BY <1>2 DEF Command, world
    <2> QED BY <2>1, StartAccepted DEF Ready
  <1>3. CASE SnapshotDirectories /\ UNCHANGED world
    <2>1. scenario' = scenario
      BY <1>3 DEF world
    <2> QED BY <1>3, <2>1, SnapshotAccepted DEF Ready
  <1>4. CASE (Execute \/ Checkout \/ Rollback) /\ UNCHANGED <<world, adopted>>
    <2>1. scenario' = scenario
      BY <1>4 DEF world
    <2>2. Ready
      BY <2>1 DEF Ready
    <2> QED BY <1>4, <2>2, ExecuteAccepted, CheckoutAccepted, RollbackAccepted
  <1>5. CASE User
    <2>1. \E lost, new : Edit(lost, new)
      BY <1>5 DEF User, Write, ReplaceFile, CreateFile, DeleteFile
    <2>2. db' = db /\ run' = run /\ scenario' = scenario
      BY <2>1 DEF Edit
    <2> QED BY <2>2, Calling1 DEF Ready
  <1>6. CASE Kill
    <2>1. db' = db /\ run' = NoRun /\ scenario' = scenario
      BY <1>6 DEF Kill
    <2> QED BY <2>1, Halting DEF Ready
  <1> QED BY <1>1, <1>2, <1>3, <1>4, <1>5, <1>6 DEF Next, Client

(* JournalAccepted: before every action the code validates the rows of     *)
(* fs_actions and of the promotions, and a journal it refuses stays for    *)
(* ever; in every state it accepts both, except where a chain of a         *)
(* promotion was started over after its file had been put aside again.     *)
THEOREM JournalIsAccepted == Spec => []JournalAccepted
  <1>1. Init => IInv /\ CInv
    BY Starting, StartsAccepted
  <1>2. IInv /\ CInv /\ [Next]_vars => (IInv /\ CInv)'
    BY NextKeeps, NextAccepts
  <1>3. IInv /\ CInv => JournalAccepted
    BY Accepts
  <1> QED BY <1>1, <1>2, <1>3, PTL DEF Spec
=============================================================================
