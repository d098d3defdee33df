------------------------- MODULE ObjectPublication -------------------------
(***************************************************************************)
(* An object PUT on the server: admission (internal/storage/upload.go) and *)
(* installation (internal/storage/objects.go).                             *)
(*                                                                         *)
(* A PUT takes a slot, reserves disk for a block, waits for the gate of    *)
(* its object, writes a temporary file, charges the byte budget of its     *)
(* owner, syncs the file, links it under its id, syncs the directory, and  *)
(* then undoes, in the reverse order, what must not outlive it.  Slots,    *)
(* reservations and gates are in memory; charges are rows of the database  *)
(* and files are on disk, so a crash between two steps keeps some and      *)
(* drops others.                                                           *)
(*                                                                         *)
(* An object is named here with its owner and library, as its path is.     *)
(***************************************************************************)
EXTENDS Integers, FiniteSets, FiniteSetsExt

CONSTANTS
    Objects,            \* objects that may be uploaded
    Blocks,             \* those that are blocks, the others are metadata
    Owner,              \* the user an object belongs to
    Size,               \* its bytes
    Puts,               \* handlers that may run at once
    Gates,              \* identities of objectPublication structs
    GlobalConcurrency,  \* UploadConfig.GlobalConcurrency
    UserConcurrency,    \* UploadConfig.UserConcurrency
    Budget,             \* UploadConfig.BudgetBytes
    Capacity,           \* bytes of disk above the minimum kept free
    MaxRow              \* bound on the ids of upload_charges

NoObject == "no object"

NoGate == 0

Users == {Owner[o] : o \in Objects}

ASSUME ObjectAssumption ==
    /\ IsFiniteSet(Objects) /\ IsFiniteSet(Puts)
    /\ Blocks \subseteq Objects
    /\ NoObject \notin Objects
    /\ DOMAIN Owner = Objects
    /\ Size \in [Objects -> Nat \ {0}]

ASSUME GateAssumption ==
    /\ Gates \subseteq Nat \ {NoGate}
    /\ IsFiniteSet(Gates)
    /\ Cardinality(Puts) <= Cardinality(Gates)

ASSUME BoundAssumption ==
    {GlobalConcurrency, UserConcurrency, Budget, Capacity, MaxRow} \subseteq Nat

VARIABLES
    files,         \* object files a reader of the data directory sees
    durable,       \* those whose directory entry has been synced
    orphans,       \* temporary files that no handler will remove, by object
    charges,       \* table upload_charges
    accepted,      \* objects installed whose charge is in the window
    acknowledged,  \* objects some PUT was answered with success for
    global,        \* uploadState.global
    users,         \* uploadState.users
    reserved,      \* uploadState.reserved
    locks,         \* Store.objectLocks
    gates,         \* the structs it points to
    put            \* the handlers

diskVars   == <<files, durable, orphans>>
budgetVars == <<charges, accepted>>
slotVars   == <<global, users>>
gateVars   == <<locks, gates>>
vars == <<diskVars, budgetVars, acknowledged, slotVars, reserved, gateVars, put>>

-----------------------------------------------------------------------------
Phases == {"idle", "slot", "reserved", "queued", "locked", "found", "temp",
           "written", "charged", "flushed", "linked", "cleanup", "unlock",
           "leave", "finish"}

(* The phases between taking the gate and giving it back.                  *)
Inside == {"locked", "found", "temp", "written", "charged", "flushed",
           "linked", "cleanup", "unlock"}

Handler ==
    [phase   : Phases,
     object  : Objects \cup {NoObject},
     reserve : Nat,                  \* bytes to take off reserved at the end
     gate    : Gates \cup {NoGate},
     bytes   : Nat,                  \* bytes only its temporary file holds
     row     : 0 .. MaxRow,          \* charge to delete unless it published
     ok      : BOOLEAN]              \* putObject returns no error

Idle == [phase |-> "idle", object |-> NoObject, reserve |-> 0,
         gate |-> NoGate, bytes |-> 0, row |-> 0, ok |-> FALSE]

(* A row of upload_charges, with the object it was inserted for and        *)
(* whether its time is before the cutoff of the window.                    *)
Charge == [id : 1 .. MaxRow, object : Objects, old : BOOLEAN]

Bytes(S) == SumFunctionOnSet(Size, S)

OrphanBytes(S) == SumFunctionOnSet([o \in Objects |-> orphans[o] * Size[o]], S)

TemporaryBytes == SumFunction([p \in Puts |-> put[p].bytes])

(* DiskUsage: what is free above the minimum, below zero if it is not.     *)
Room == Capacity - Bytes(files) - OrphanBytes(Objects) - TemporaryBytes

(* Mutant of Fits: the reservations of other uploads are not counted.      *)
FitsAlone(bytes) == Room >= 0 /\ bytes <= Room

(* reserveUploadBytes: the test, without the addition.                     *)
Fits(bytes) == Room >= 0 /\ reserved <= Room /\ bytes <= Room - reserved

ChargesOf(u) == {c \in charges : Owner[c.object] = u}

Used(u) == SumFunctionOnSet([c \in charges |-> Size[c.object]],
                            {c \in ChargesOf(u) : ~ c.old})

At(p, phase) == put[p].phase = phase

Goto(p, phase) == put' = [put EXCEPT ![p].phase = phase]

-----------------------------------------------------------------------------
Init ==
    /\ files = {} /\ durable = {}
    /\ orphans = [o \in Objects |-> 0]
    /\ charges = {} /\ accepted = {}
    /\ acknowledged = {}
    /\ global = 0 /\ users = [u \in Users |-> 0]
    /\ reserved = 0
    /\ locks = [o \in Objects |-> NoGate]
    /\ gates = [g \in Gates |-> [token |-> TRUE, refs |-> 0]]
    /\ put = [p \in Puts |-> Idle]

(* AcquireObjectUpload; a refused PUT is answered and leaves no trace.     *)
AcquireUpload(p, o) ==
    /\ At(p, "idle")
    /\ global < GlobalConcurrency
    /\ users[Owner[o]] < UserConcurrency
    /\ global' = global + 1
    /\ users' = [users EXCEPT ![Owner[o]] = @ + 1]
    /\ put' = [put EXCEPT ![p] = [Idle EXCEPT !.phase = "slot", !.object = o]]
    /\ UNCHANGED <<diskVars, budgetVars, acknowledged, reserved, gateVars>>

(* ReserveBlockUpload and CheckObjectUpload: nothing for an object that is *)
(* there, the size of a block, the mere test for metadata.                 *)
ReserveUpload(p) ==
    LET o == put[p].object
        bytes == IF o \in Blocks \ files THEN Size[o] ELSE 0
    IN  /\ At(p, "slot")
        /\ \/ /\ o \in files \/ Fits(bytes)
              /\ reserved' = reserved + bytes
              /\ put' = [put EXCEPT ![p].phase = "reserved", ![p].reserve = bytes]
           \/ /\ o \notin files /\ ~ Fits(bytes)
              /\ Goto(p, "finish")
              /\ UNCHANGED reserved
        /\ UNCHANGED <<diskVars, budgetVars, acknowledged, slotVars, gateVars>>

(* lockObjectPublication under its mutex: find or make the gate, count in. *)
UnusedGate == CHOOSE g \in Gates : gates[g].refs = 0

Join(p) ==
    LET o == put[p].object
        g == IF locks[o] # NoGate THEN locks[o] ELSE UnusedGate
    IN  /\ At(p, "reserved")
        /\ locks' = [locks EXCEPT ![o] = g]
        /\ gates' = [gates EXCEPT ![g].refs = @ + 1]
        /\ put' = [put EXCEPT ![p].phase = "queued", ![p].gate = g]
        /\ UNCHANGED <<diskVars, budgetVars, acknowledged, slotVars, reserved>>

TakeGate(p) ==
    /\ At(p, "queued")
    /\ gates[put[p].gate].token
    /\ gates' = [gates EXCEPT ![put[p].gate].token = FALSE]
    /\ Goto(p, "locked")
    /\ UNCHANGED <<diskVars, budgetVars, acknowledged, slotVars, reserved, locks>>

(* Mutant of GiveUp: a waiter that leaves keeps its reference to the gate. *)
GiveUpHolding(p) ==
    /\ At(p, "queued")
    /\ Goto(p, "finish")
    /\ UNCHANGED <<diskVars, budgetVars, acknowledged, slotVars, reserved, gateVars>>

(* The other case of the select: the deadline passes in the queue.         *)
GiveUp(p) ==
    /\ At(p, "queued")
    /\ Goto(p, "leave")
    /\ UNCHANGED <<diskVars, budgetVars, acknowledged, slotVars, reserved, gateVars>>

(* Stat of the destination; a new object needs the disk test again.        *)
Stat(p) ==
    LET o == put[p].object
    IN  /\ At(p, "locked")
        /\ \/ o \in files /\ Goto(p, "found")
           \/ o \notin files /\ Fits(0) /\ Goto(p, "temp")
           \/ o \notin files /\ ~ Fits(0) /\ Goto(p, "unlock")
        /\ UNCHANGED <<diskVars, budgetVars, acknowledged, slotVars, reserved, gateVars>>

(* Mutant of Replay: an existing file is taken to be durable.              *)
ReplayUnsynced(p) ==
    /\ At(p, "found")
    /\ put' = [put EXCEPT ![p].phase = "unlock", ![p].ok = TRUE]
    /\ UNCHANGED <<diskVars, budgetVars, acknowledged, slotVars, reserved, gateVars>>

(* A replayed PUT compares the contents and syncs the directory, since the *)
(* PUT that linked the file may have failed before it did.                 *)
Replay(p) ==
    /\ At(p, "found")
    /\ durable' = durable \cup {put[p].object}
    /\ put' = [put EXCEPT ![p].phase = "unlock", ![p].ok = TRUE]
    /\ UNCHANGED <<files, orphans, budgetVars, acknowledged, slotVars, reserved, gateVars>>

WriteTemporary(p) ==
    /\ At(p, "temp")
    /\ put' = [put EXCEPT ![p].phase = "written", ![p].bytes = Size[put[p].object]]
    /\ UNCHANGED <<diskVars, budgetVars, acknowledged, slotVars, reserved, gateVars>>

(* reserveUploadBudget: one transaction.  The owner's charges that left    *)
(* the window are pruned only if it commits.  SQLite gives the new row the *)
(* id after the largest one left.                                          *)
NextRow(rows) == Max({c.id : c \in rows} \cup {0}) + 1

ChargeBudget(p) ==
    LET o == put[p].object
        kept == charges \ {c \in ChargesOf(Owner[o]) : c.old}
        row == NextRow(kept)
    IN  /\ At(p, "written")
        /\ \/ /\ Size[o] > Budget - Used(Owner[o]) \/ row > MaxRow
              /\ Goto(p, "cleanup")
              /\ UNCHANGED budgetVars
           \/ /\ Size[o] <= Budget - Used(Owner[o]) /\ row <= MaxRow
              /\ charges' = kept \cup {[id |-> row, object |-> o, old |-> FALSE]}
              /\ put' = [put EXCEPT ![p].phase = "charged", ![p].row = row]
              /\ UNCHANGED accepted
        /\ UNCHANGED <<diskVars, acknowledged, slotVars, reserved, gateVars>>

SyncTemporary(p) ==
    /\ At(p, "charged")
    /\ Goto(p, "flushed")
    /\ UNCHANGED <<diskVars, budgetVars, acknowledged, slotVars, reserved, gateVars>>

(* Mutant of Publish: the charge can be refunded until the directory has   *)
(* been synced.                                                            *)
PublishLate(p) ==
    put' = [put EXCEPT ![p].phase = "linked", ![p].bytes = 0]

(* published is set as soon as the file has its name: from here on neither *)
(* the charge is refunded nor the bytes are those of a temporary file.     *)
Publish(p) ==
    put' = [put EXCEPT ![p].phase = "linked", ![p].bytes = 0, ![p].row = 0]

(* os.Link fails if the destination exists; then the PUT is a replay and   *)
(* keeps its charge's row to delete it.                                    *)
Install(p) ==
    LET o == put[p].object
    IN  /\ At(p, "flushed")
        /\ \/ /\ o \in files
              /\ durable' = durable \cup {o}
              /\ put' = [put EXCEPT ![p].phase = "cleanup", ![p].ok = TRUE]
              /\ UNCHANGED <<files, accepted>>
           \/ /\ o \notin files
              /\ files' = files \cup {o}
              /\ accepted' = IF \E c \in charges : c.object = o /\ ~ c.old
                             THEN accepted \cup {o} ELSE accepted
              /\ Publish(p)
              /\ UNCHANGED durable
        /\ UNCHANGED <<orphans, charges, acknowledged, slotVars, reserved, gateVars>>

SyncParent(p) ==
    /\ At(p, "linked")
    /\ durable' = durable \cup {put[p].object}
    /\ put' = [put EXCEPT ![p].phase = "cleanup", ![p].ok = TRUE]
    /\ UNCHANGED <<files, orphans, budgetVars, acknowledged, slotVars, reserved, gateVars>>

(* A wrong digest or length, an I/O error, a deadline or a client that     *)
(* went away, at any step that does not wait.                              *)
Fail(p) ==
    /\ \/ put[p].phase \in {"slot", "reserved"} /\ Goto(p, "finish")
       \/ put[p].phase \in {"locked", "found"} /\ Goto(p, "unlock")
       \/ /\ put[p].phase \in {"temp", "written", "charged", "flushed", "linked"}
          /\ Goto(p, "cleanup")
    /\ UNCHANGED <<diskVars, budgetVars, acknowledged, slotVars, reserved, gateVars>>

(* The deferred calls of putObject: delete the charge unless published,    *)
(* remove the temporary file.  An error of either is one of putObject.     *)
Cleanup(p) ==
    LET o == put[p].object
    IN  /\ At(p, "cleanup")
        /\ \E deleted, removed \in BOOLEAN :
              /\ put[p].row = 0 => deleted
              /\ charges' = IF deleted THEN {c \in charges : c.id # put[p].row}
                                       ELSE charges
              /\ orphans' = IF removed \/ put[p].bytes = 0 THEN orphans
                            ELSE [orphans EXCEPT ![o] = @ + 1]
              /\ put' = [put EXCEPT ![p].phase = "unlock",
                                    ![p].ok = @ /\ deleted /\ removed,
                                    ![p].bytes = 0, ![p].row = 0]
        /\ UNCHANGED <<files, durable, accepted, acknowledged, slotVars, reserved, gateVars>>

(* Mutants of Unlock and Leave: a PUT that failed keeps the token, and the *)
(* entry of the map goes while others wait at the gate.                    *)
UnlockOnSuccess(p) ==
    /\ At(p, "unlock")
    /\ gates' = [gates EXCEPT ![put[p].gate].token = put[p].ok]
    /\ Goto(p, "leave")
    /\ UNCHANGED <<diskVars, budgetVars, acknowledged, slotVars, reserved, locks>>

LeaveForgetting(p) ==
    LET g == put[p].gate
    IN  /\ At(p, "leave")
        /\ gates' = [gates EXCEPT ![g].refs = @ - 1]
        /\ locks' = [locks EXCEPT ![put[p].object] = NoGate]
        /\ put' = [put EXCEPT ![p].phase = "finish", ![p].gate = NoGate]
        /\ UNCHANGED <<diskVars, budgetVars, acknowledged, slotVars, reserved>>

(* The release of the gate: the token first, then the reference.           *)
Unlock(p) ==
    /\ At(p, "unlock")
    /\ gates' = [gates EXCEPT ![put[p].gate].token = TRUE]
    /\ Goto(p, "leave")
    /\ UNCHANGED <<diskVars, budgetVars, acknowledged, slotVars, reserved, locks>>

Leave(p) ==
    LET g == put[p].gate
        o == put[p].object
    IN  /\ At(p, "leave")
        /\ gates' = [gates EXCEPT ![g].refs = @ - 1]
        /\ locks' = IF gates[g].refs = 1 THEN [locks EXCEPT ![o] = NoGate] ELSE locks
        /\ put' = [put EXCEPT ![p].phase = "finish", ![p].gate = NoGate]
        /\ UNCHANGED <<diskVars, budgetVars, acknowledged, slotVars, reserved>>

(* Mutant of Finish: the size of a block is given back although nothing    *)
(* was reserved for one that was there already.                            *)
FinishBySize(p) ==
    LET o == put[p].object
    IN  /\ At(p, "finish")
        /\ acknowledged' = IF put[p].ok THEN acknowledged \cup {o} ELSE acknowledged
        /\ reserved' = reserved - (IF o \in Blocks THEN Size[o] ELSE 0)
        /\ global' = global - 1
        /\ users' = [users EXCEPT ![Owner[o]] = @ - 1]
        /\ put' = [put EXCEPT ![p] = Idle]
        /\ UNCHANGED <<diskVars, budgetVars, gateVars>>

(* The handler answers, then gives back reservation and slot.              *)
Finish(p) ==
    LET o == put[p].object
    IN  /\ At(p, "finish")
        /\ acknowledged' = IF put[p].ok THEN acknowledged \cup {o} ELSE acknowledged
        /\ reserved' = reserved - put[p].reserve
        /\ global' = global - 1
        /\ users' = [users EXCEPT ![Owner[o]] = @ - 1]
        /\ put' = [put EXCEPT ![p] = Idle]
        /\ UNCHANGED <<diskVars, budgetVars, gateVars>>

(* The time of a charge falls out of the window.                           *)
Expire(c) ==
    /\ c \in charges /\ ~ c.old
    /\ charges' = (charges \ {c}) \cup {[c EXCEPT !.old = TRUE]}
    /\ accepted' = accepted \ {c.object}
    /\ UNCHANGED <<diskVars, acknowledged, slotVars, reserved, gateVars, put>>

(* The charge of a PUT that may still delete it.                           *)
InFlight(c) == \E p \in Puts : put[p].row = c.id

(* The process dies; what a loss of power adds is in PowerLoss.            *)
Forget ==
    /\ orphans' = [o \in Objects |-> orphans[o] +
                      Cardinality({p \in Puts : put[p].object = o /\ put[p].bytes # 0})]
    /\ global' = 0 /\ users' = [u \in Users |-> 0]
    /\ reserved' = 0
    /\ locks' = [o \in Objects |-> NoGate]
    /\ gates' = [g \in Gates |-> [token |-> TRUE, refs |-> 0]]
    /\ put' = [p \in Puts |-> Idle]
    /\ UNCHANGED <<budgetVars, acknowledged>>

Crash == Forget /\ UNCHANGED <<files, durable>>

PowerLoss ==
    /\ \E lost \in SUBSET (files \ durable) : files' = files \ lost
    /\ durable' = files'
    /\ Forget

(* The steps of a handler that do not wait for another one.                *)
Advance(p) ==
    \/ ReserveUpload(p)
    \/ Join(p)
    \/ Stat(p)
    \/ Replay(p)
    \/ WriteTemporary(p)
    \/ ChargeBudget(p)
    \/ SyncTemporary(p)
    \/ Install(p)
    \/ SyncParent(p)
    \/ Cleanup(p)
    \/ Unlock(p)
    \/ Leave(p)
    \/ Finish(p)

Handle(p) ==
    \/ \E o \in Objects : AcquireUpload(p, o)
    \/ Advance(p)
    \/ TakeGate(p)
    \/ GiveUp(p)
    \/ Fail(p)

Next ==
    \/ \E p \in Puts : Handle(p)
    \/ \E c \in charges : ~ InFlight(c) /\ Expire(c)
    \/ Crash
    \/ PowerLoss

Spec == Init /\ [][Next]_vars

(* The window may be shorter than an upload takes: the flags of serve only *)
(* ask that it be positive.                                                *)
ShortWindowSpec == Init /\ [][Next \/ \E c \in charges : Expire(c)]_vars

(* A goroutine that can run does; a channel serves its receivers in the    *)
(* order they came, so a waiter is not passed over for ever.  Nothing is   *)
(* assumed of deadlines and errors.                                        *)
Fairness == \A p \in Puts : WF_vars(Advance(p)) /\ SF_vars(TakeGate(p))

FairSpec == Spec /\ Fairness

-----------------------------------------------------------------------------
(* Types of the disk, the table, the counters and the handlers.            *)
TypeOK ==
    /\ files \subseteq Objects /\ durable \subseteq files
    /\ orphans \in [Objects -> Nat]
    /\ charges \subseteq Charge
    /\ accepted \subseteq Objects /\ acknowledged \subseteq Objects
    /\ global \in 0 .. GlobalConcurrency
    /\ users \in [Users -> 0 .. UserConcurrency]
    /\ reserved \in Nat
    /\ locks \in [Objects -> Gates \cup {NoGate}]
    /\ gates \in [Gates -> [token : BOOLEAN, refs : Nat]]
    /\ put \in [Puts -> Handler]

(* The counters in memory tell what the handlers hold, whichever way each  *)
(* of them ends: no slot, reservation, token or reference leaks, and none  *)
(* is given back twice.                                                    *)
AccountsExact ==
    /\ global = Cardinality({p \in Puts : ~ At(p, "idle")})
    /\ \A u \in Users : users[u] =
          Cardinality({p \in Puts : ~ At(p, "idle") /\ Owner[put[p].object] = u})
    /\ reserved = SumFunction([p \in Puts |-> put[p].reserve])
    /\ \A g \in Gates :
          /\ gates[g].refs = Cardinality({p \in Puts : put[p].gate = g})
          /\ gates[g].token <=> \A p \in Puts :
                                   put[p].gate = g => put[p].phase \notin Inside

(* The gate keeps uploads of one object apart: the file a handler found    *)
(* absent is still absent when the handler links its own, so the branch of *)
(* putObject for os.ErrExist is never taken.                               *)
StillAbsent ==
    \A p \in Puts :
        put[p].phase \in {"temp", "written", "charged", "flushed"}
            => put[p].object \notin files

(* The bytes installed in a window stay within the budget of their owner,  *)
(* whatever is refunded, lost in a crash or pruned meanwhile.              *)
AcceptedWithinBudget ==
    \A u \in Users : Bytes({o \in accepted : Owner[o] = u}) <= Budget

(* Block uploads leave the minimum of the disk free: the reservation that  *)
(* is tested when a block is admitted covers it until it is written.       *)
Unwritten(p) ==
    IF put[p].phase \in {"reserved", "queued", "locked", "temp"}
    THEN put[p].reserve ELSE 0

BlockBytes(p) ==
    IF put[p].object \in Blocks THEN put[p].bytes + Unwritten(p) ELSE 0

BlocksLeaveMinimum ==
    Bytes(files \cap Blocks) + OrphanBytes(Blocks)
        + SumFunction([p \in Puts |-> BlockBytes(p)]) <= Capacity

(* A PUT that has its slot is answered, also one that waits at a gate.     *)
UploadsEnd == \A p \in Puts : At(p, "slot") ~> At(p, "idle")

(* The object store as its users may think of it.                          *)
Store == INSTANCE ObjectStore WITH stored <- files

StoresObjects == Store!Spec
=============================================================================
