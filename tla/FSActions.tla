----------------------------- MODULE FSActions ------------------------------
(***************************************************************************)
(* The write-ahead journal of a worktree's checkout                        *)
(* (src/cmd/filecloud/client_fs_actions.go): every change the client makes *)
(* below the root is a row of fs_actions, committed as an intent before    *)
(* the system call and completed after it.  A process may be killed        *)
(* between any two steps; the next one replays the intents, and must tell  *)
(* from the paths alone what had already happened.                         *)
(*                                                                         *)
(* A row that no later step reads (a plain rename, a removal, an mtime) is *)
(* deleted here when it completes, where the code deletes it with the rest *)
(* at the end.  Left out: names that differ only in case, the fallback     *)
(* directories of conflict names that are too long, links, and the         *)
(* replacement of a parent directory by the user.                          *)
(***************************************************************************)
EXTENDS Worktree

VARIABLES
    tree,     \* the worktree
    lastId,   \* the last identity the file system gave
    db,       \* the client database, as far as a checkout uses it
    run       \* the client process: command, stage, and where it is in it

fs == <<tree, lastId>>

(***************************************************************************)
(* The tables.  A transaction is one assignment to db.                     *)
(***************************************************************************)
journal    == db.journal      \* fs_actions: a set of rows
pending    == db.pending      \* pending_checkouts: apply_state, saved root mtime
rows       == db.rows         \* checkout_paths: target path -> names, identities
recoveries == db.recoveries   \* sync_recoveries: top-level path -> what is captured
links      == db.links        \* sync_recovery_promotions: source -> its actions
index      == db.index        \* bindings, path_index: "none", "base" or "target"

NoPath  == <<>>
NoShape == <<>>
NoStamp == <<"none", -1>>
None    == 0     \* no row, no identity
NoRun   == [cmd |-> "none", stage |-> "idle", at |-> 0, acted |-> FALSE, step |-> "start"]

Goto(stage, at) == run' = [run EXCEPT !.stage = stage, !.at = at, !.acted = FALSE, !.step = "start"]
Fail == run' = NoRun /\ UNCHANGED <<fs, db>>       \* the command ends with an error
Require(ok, step) == IF ok THEN step ELSE Fail
Call(t) == tree' = t /\ UNCHANGED <<lastId, db>>   \* a system call

(***************************************************************************)
(* Rows.  action_order is MAX + 1 and names the row.  The rows of a chain  *)
(* carry the order of their origin and an attempt.                         *)
(***************************************************************************)
(* Mutant of NextOrder: rows are numbered by how many there are.           *)
NextOrderByCount == 1 + Cardinality(journal)

NextOrder == IF journal = {} THEN 1 ELSE 1 + Max({a.order : a \in journal})
Row(o) == CHOOSE a \in journal : a.order = o
RootOf(a) == IF a.origin = None THEN a ELSE Row(a.origin)
Chain(o) == {a \in journal : a.origin = o}
TailOf(root) == IF Chain(root.order) = {} THEN root
                ELSE CHOOSE a \in Chain(root.order) : \A c \in Chain(root.order) : c.attempt <= a.attempt

NewRow == [order |-> NextOrder, op |-> "rename", phase |-> "pre_base", path |-> NoPath, target |-> NoPath,
           kind |-> "File", id |-> None, shape |-> NoShape, stamp |-> NoStamp, origin |-> None,
           attempt |-> 0, outcome |-> "", state |-> "intent"]
Put(row) == journal \cup {row}
Replace(a, row) == (journal \ {a}) \cup {row}

IsPromotion(a) == a.op = "rename" /\ a.shape # NoShape
Kept(a) == \/ a.op \in {"create", "restore"} \/ IsPromotion(a) \/ a.origin # None
           \/ a.op = "mtime" /\ a.path = <<>>

(***************************************************************************)
(* An intent, committed by itself.  Its object is the one at p now, a file *)
(* to be removed is removed with the content it has now.                   *)
(***************************************************************************)
Tx(new) == db' = new /\ UNCHANGED <<fs, run>>
Intend(row) == Tx([db EXCEPT !.journal = Put(row)])
JournalRename(phase, p, q, id) ==
    Intend([NewRow EXCEPT !.phase = phase, !.path = p, !.target = q, !.kind = tree[p].kind, !.id = id])
Removal(phase, p, id) == [NewRow EXCEPT !.op = "remove", !.phase = phase, !.path = p, !.kind = tree[p].kind,
    !.id = id, !.shape = IF tree[p].kind = "File" THEN Shape(tree, p) ELSE NoShape]
JournalRemove(phase, p, id) == Intend(Removal(phase, p, id))
JournalMtime(phase, p, id, stamp) ==
    Intend([NewRow EXCEPT !.op = "mtime", !.phase = phase, !.path = p, !.kind = tree[p].kind, !.id = id,
                          !.stamp = stamp])

(***************************************************************************)
(* The order in which recovery replays intents: chains in the order of     *)
(* their roots, within a promotion's chain the last collision first.       *)
(***************************************************************************)
Intents == {a \in journal : a.state = "intent"}
Before(a, c) ==
    LET ra == RootOf(a) rc == RootOf(c) IN
    IF ra # rc THEN ra.order < rc.order
    ELSE IF IsPromotion(ra) THEN a.attempt > c.attempt ELSE a.order < c.order
Current == CHOOSE a \in Intents : \A c \in Intents \ {a} : Before(a, c)

(***************************************************************************)
(* actionPathState: is the object the row expects at p?                    *)
(***************************************************************************)
Exists(p) == p \in DOMAIN tree
Expected(a, p) ==
    /\ Exists(p)
    /\ \/ a.outcome = "preserve_unknown"
       \/ tree[p].kind = a.kind /\ a.id \in {None, tree[p].id}

(***************************************************************************)
(* The completed row.  The stage that asked for the action goes on; after  *)
(* moving an unknown object aside the run fails.                           *)
(***************************************************************************)
Complete(a) ==
    /\ db' = [db EXCEPT !.journal = IF Kept(a) THEN Replace(a, [a EXCEPT !.state = "completed"])
                                    ELSE journal \ {a}]
    /\ run' = IF a.outcome = "preserve_unknown" THEN NoRun
              ELSE [run EXCEPT !.acted = FALSE, !.step = IF run.stage = "recover" THEN "start" ELSE "moved"]
    /\ UNCHANGED lastId
Done(a) == Complete(a) /\ UNCHANGED tree
Did(t) == Call(t) /\ run' = [run EXCEPT !.acted = TRUE]

(***************************************************************************)
(* A creation whose identity is not recorded found its name taken: nobody  *)
(* knows whose object it is.  One transaction turns the checkout back and  *)
(* asks for the object to be moved to a visible name, the next one when    *)
(* that is taken.                                                          *)
(***************************************************************************)
Recovered(p, attempt) == Renamed(p, "recovered", attempt)

RollBackUnknown(a) ==
    Tx([db EXCEPT !.journal = Replace(a, [a EXCEPT !.state = "completed", !.outcome = "rolled_back"])
            \cup {[NewRow EXCEPT !.phase = "rollback", !.path = a.path, !.target = Recovered(a.path, 1),
                     !.kind = a.kind, !.origin = a.order, !.attempt = 1, !.outcome = "preserve_unknown"]},
        !.pending = IF @.state \in {"pending", "applying"}
                    THEN [state |-> "rolling_back", stamp |-> IF @.stamp = NoStamp THEN tree[<<>>].data ELSE @.stamp]
                    ELSE @])

AdvancePreserved(a) ==
    Tx([db EXCEPT !.journal = Replace(a, [a EXCEPT !.state = "completed", !.outcome = "collision"])
            \cup {[a EXCEPT !.order = NextOrder, !.attempt = @ + 1, !.target = Recovered(a.path, a.attempt + 1)]}])

(***************************************************************************)
(* The actions.  A creation is the call, the identity, the row.            *)
(***************************************************************************)
Create(a) ==
    /\ lastId' = lastId + 1
    /\ tree' = Made(tree, a.path, lastId + 1, a.kind, IF a.kind = "File" THEN Blank ELSE Now)
    /\ run' = [run EXCEPT !.acted = TRUE]
    /\ UNCHANGED db

JournalCreate(p, at, kind) ==      \* the temporary of target path p
    Tx([db EXCEPT !.journal = Put([NewRow EXCEPT !.op = "create", !.path = at, !.kind = kind]),
                  !.rows[p].create = NextOrder])

CreateStep(a) ==
    IF run.acted
    THEN IF a.id = None THEN Tx([db EXCEPT !.journal = Replace(a, [a EXCEPT !.id = tree[a.path].id])]) ELSE Done(a)
    ELSE IF ~ Exists(a.path) THEN Require(IsDir(tree, Parent(a.path)), Create(a))
    ELSE IF a.id = None THEN RollBackUnknown(a)
    ELSE IF Expected(a, a.path) THEN Done(a) ELSE Fail

(* Mutant of RenameStep: a rename made before a kill is not recognised.    *)
RenameStepOnce(a) ==
    IF run.acted THEN Done(a)
    ELSE IF Expected(a, a.path) /\ ~ Exists(a.target) THEN Did(Moved(tree, a.path, a.target))
    ELSE IF Expected(a, a.path) /\ a.outcome = "preserve_unknown" THEN AdvancePreserved(a)
    ELSE Fail

RenameStep(a) ==
    IF run.acted \/ (~ Exists(a.path) /\ Expected(a, a.target)) THEN Done(a)
    ELSE IF Expected(a, a.path) /\ ~ Exists(a.target) THEN Did(Moved(tree, a.path, a.target))
    ELSE IF Expected(a, a.path) /\ a.outcome = "preserve_unknown" THEN AdvancePreserved(a)
    ELSE Fail

(***************************************************************************)
(* A removal deletes only what the row describes: the same object, a file  *)
(* with the same content, a directory without entries.                     *)
(***************************************************************************)
Removable(a) ==
    /\ Expected(a, a.path)
    /\ a.kind = "File" => a.shape \in {NoShape, Shape(tree, a.path)}
    /\ a.kind = "Directory" => Empty(tree, a.path)
RemoveStep(a) ==
    IF run.acted \/ ~ Exists(a.path) THEN Done(a)
    ELSE IF Removable(a) THEN Did(Removed(tree, a.path)) ELSE Fail

MtimeStep(a) ==
    IF run.acted THEN Done(a)
    ELSE IF Expected(a, a.path) THEN Did(Stamped(tree, a.path, a.stamp)) ELSE Fail

(***************************************************************************)
(* A promotion moves a captured file to its conflict name.  What occupies  *)
(* the name is moved on first, to the next name of the chain.              *)
(***************************************************************************)
NextName(p) == Renamed(p, Last(p)[1], Last(p)[3] + 1)

(* Promotion of the captured file at p: the row and the link of its source *)
(* s.  A promotion that found its file changed goes on to the next name.   *)
JournalPromotion(s, p, q) ==
    Tx([db EXCEPT !.journal = Put([NewRow EXCEPT !.path = p, !.target = q, !.id = tree[p].id,
                                              !.shape = Shape(tree, p)]),
                  !.links = Extended(@, s, [current |-> NextOrder, rollback |-> None])])

JournalLatePromotion(s) ==
    LET c == Row(links[s].current) tail == TailOf(RootOf(c)) IN
    IF ~ HasId(tree, c.target, c.id) THEN Fail
    ELSE Tx([db EXCEPT
            !.journal = Put([NewRow EXCEPT !.path = c.target, !.target = NextName(tail.target), !.id = c.id,
                    !.shape = Shape(tree, c.target), !.origin = RootOf(c).order, !.attempt = tail.attempt + 1]),
            !.links[s].current = NextOrder])

PreserveCollision(a) ==
    LET root == RootOf(a) tail == TailOf(root) IN
    IF tree[a.target].kind # "File" THEN Fail
    ELSE Intend([NewRow EXCEPT !.path = a.target, !.target = NextName(tail.target), !.id = tree[a.target].id,
            !.shape = Shape(tree, a.target), !.origin = root.order, !.attempt = tail.attempt + 1])

(* Mutant of PromotionStep: the rename replaces what has the name.         *)
PromotionStepReplacing(a) ==
    IF run.acted \/ (~ Exists(a.path) /\ Expected(a, a.target)) THEN Done(a)
    ELSE IF ~ Expected(a, a.path) \/ Expected(a, a.target) THEN Fail
    ELSE IF Shape(tree, a.path) = a.shape THEN Did(Moved(tree, a.path, a.target)) ELSE Fail

PromotionStep(a) ==
    IF run.acted \/ (~ Exists(a.path) /\ Expected(a, a.target)) THEN Done(a)
    ELSE IF ~ Expected(a, a.path) \/ Expected(a, a.target) THEN Fail
    ELSE IF Exists(a.target) THEN PreserveCollision(a)
    ELSE Require(IsDir(tree, Parent(a.target)) /\ Shape(tree, a.path) = a.shape,
                 Did(Moved(tree, a.path, a.target)))

(***************************************************************************)
(* Rolling back, a promoted file returns to its hidden place, and its      *)
(* parent there gets its mtime back.                                       *)
(***************************************************************************)
JournalRestorePromotion(s, q, stamp) ==
    LET c == Row(links[s].current) IN
    IF c.state # "completed" \/ ~ HasId(tree, c.target, c.id) THEN Fail
    ELSE Tx([db EXCEPT
            !.journal = Put([NewRow EXCEPT !.op = "restore", !.phase = "rollback", !.path = c.target, !.target = q,
                                           !.id = c.id, !.stamp = stamp]),
            !.links[s].rollback = NextOrder])

RestoreStep(a) ==
    IF run.acted \/ (~ Exists(a.path) /\ Expected(a, a.target))
    THEN Complete(a) /\ tree' = IF a.stamp = NoStamp THEN tree ELSE Stamped(tree, Parent(a.target), a.stamp)
    ELSE Require(Expected(a, a.path) /\ ~ Exists(a.target) /\ IsDir(tree, Parent(a.target)),
                 Did(Moved(tree, a.path, a.target)))

(***************************************************************************)
(* The process executes the current intent: one it has just committed, or  *)
(* one that recovery found.                                                *)
(***************************************************************************)
Execute ==
    /\ run.cmd # "none" /\ Intents # {}
    /\ LET a == Current IN
       CASE a.op = "create"  -> CreateStep(a)
         [] a.op = "remove"  -> RemoveStep(a)
         [] a.op = "mtime"   -> MtimeStep(a)
         [] a.op = "restore" -> RestoreStep(a)
         [] a.op = "rename"  -> IF IsPromotion(a) THEN PromotionStep(a) ELSE RenameStep(a)

(***************************************************************************)
(* What validateFSActionJournal and validatePromotionOwnership demand of   *)
(* the rows before every action: a journal they refuse stays for ever.     *)
(***************************************************************************)
PromotionChain(root, chain) ==
    \A a \in chain :
        LET previous == IF a.attempt = 1 THEN root ELSE CHOOSE c \in chain : c.attempt = a.attempt - 1 IN
        IsPromotion(a) /\ a.path = previous.target /\ a.target = NextName(previous.target)

PreserveChain(root, chain) ==
    /\ root.op = "create" /\ root.state = "completed" /\ root.outcome = "rolled_back"
    /\ pending.state = "rolling_back"
    /\ \E p \in DOMAIN rows : rows[p].create = root.order /\ Parent(p) = Parent(root.path)
    /\ \A a \in chain : /\ a.path = root.path /\ a.target = Recovered(root.path, a.attempt)
                        /\ (a.outcome = "collision") <=> (a.attempt < Cardinality(chain))

ChainsAccepted ==
    /\ \A o \in {a.origin : a \in journal} \ {None} :
         /\ \E a \in journal : a.order = o /\ a.origin = None
         /\ {a.attempt : a \in Chain(o)} = 1 .. Cardinality(Chain(o))
         /\ IF IsPromotion(Row(o)) THEN PromotionChain(Row(o), Chain(o)) ELSE PreserveChain(Row(o), Chain(o))
    /\ \A a \in journal : a.outcome = "rolled_back" => Chain(a.order) # {}

OwnershipAccepted ==
    /\ \A s \in DOMAIN links :
         LET owner == SubSeq(s, 1, 1) l == links[s] IN
         /\ \E a \in journal : a.order = l.current /\ IsPromotion(a)
         /\ owner \in DOMAIN recoveries /\ recoveries[owner].completed
         /\ l.rollback # None =>
              \E a \in journal : /\ a.order = l.rollback /\ a.op = "restore"
                                 /\ a.path = Row(l.current).target /\ Row(l.current).state = "completed"
    /\ \A a \in journal :
         /\ IsPromotion(a) /\ a.origin = None =>
              Cardinality({s \in DOMAIN links : RootOf(Row(links[s].current)) = a}) = 1
         /\ a.op = "restore" => /\ pending.state = "rolling_back"
                                /\ \E s \in DOMAIN links : links[s].rollback = a.order
=============================================================================
