---------------------- MODULE ObjectPublicationProofs ----------------------
(***************************************************************************)
(* Proofs about ObjectPublication: the accounts of uploads, the gate that  *)
(* keeps uploads of one object apart, the byte budget, the space on disk,  *)
(* and that the handlers implement ObjectStore - for every set of objects  *)
(* and handlers and every limit, crashes and losses of power included.     *)
(***************************************************************************)
EXTENDS ObjectPublication, FiniteSums

(* The phases of a handler that counts among the references of a gate.     *)
Holding == {"queued", "leave"} \cup Inside

(* What a handler's phase says of the rest of its row.                     *)
LocalInv(p) ==
    /\ At(p, "idle") => put[p] = Idle
    /\ ~ At(p, "idle") => put[p].object \in Objects
    /\ At(p, "slot") => put[p].reserve = 0
    /\ put[p].gate # NoGate <=> put[p].phase \in Holding
    /\ put[p].bytes # 0 =>
          /\ put[p].bytes = Size[put[p].object]
          /\ put[p].phase \in {"written", "charged", "flushed", "cleanup"}
    /\ put[p].phase \in {"written", "charged", "flushed"} => put[p].bytes # 0
    /\ put[p].row # 0 => put[p].phase \in {"charged", "flushed", "cleanup"}
    /\ put[p].phase \in {"charged", "flushed"} => put[p].row # 0

(* What a handler has seen of the files still holds, and one that will     *)
(* answer with success has synced its object.                              *)
FileInv(p) ==
    /\ put[p].phase \in {"found", "linked"} => put[p].object \in files
    /\ put[p].phase \in {"temp", "written", "charged", "flushed"} =>
          put[p].object \notin files
    /\ put[p].ok => put[p].object \in durable
    /\ put[p].phase \in {"reserved", "queued", "locked", "temp"} =>
          \/ put[p].object \notin Blocks \/ put[p].object \in files
          \/ put[p].reserve = Size[put[p].object]

(* A gate belongs to one object while anybody holds it, and only one       *)
(* handler is inside.                                                      *)
GateInv ==
    /\ \A p \in Puts : put[p].gate # NoGate => locks[put[p].object] = put[p].gate
    /\ \A p, q \in Puts :
          put[p].gate = put[q].gate /\ put[p].gate # NoGate =>
              /\ put[p].object = put[q].object
              /\ put[p].phase \in Inside /\ put[q].phase \in Inside => p = q
    /\ \A o \in Objects : locks[o] # NoGate =>
          \E p \in Puts : put[p].gate = locks[o] /\ put[p].object = o

(* Charges have ids of their own, a handler's charge is there until it is  *)
(* refunded, and each accepted object has a charge nobody will refund.     *)
RowInv ==
    /\ \A c, d \in charges : c.id = d.id => c = d
    /\ \A p \in Puts : put[p].row # 0 =>
          \E c \in charges : c.id = put[p].row /\ c.object = put[p].object /\ ~ c.old
    /\ \A p, q \in Puts : put[p].row = put[q].row /\ put[p].row # 0 => p = q
    /\ \A o \in accepted :
          \E c \in charges : c.object = o /\ ~ c.old /\ ~ InFlight(c)

BudgetInv == \A u \in Users : Used(u) <= Budget

IInv ==
    /\ TypeOK
    /\ AccountsExact
    /\ \A p \in Puts : LocalInv(p) /\ FileInv(p)
    /\ GateInv
    /\ RowInv
    /\ BudgetInv
    /\ BlocksLeaveMinimum

-----------------------------------------------------------------------------
(* Types.                                                                  *)

LEMMA SizeType == ASSUME NEW o \in Objects PROVE Size[o] \in Nat /\ Size[o] > 0
    BY ObjectAssumption DEF ObjectAssumption

LEMMA OwnerType == ASSUME NEW o \in Objects PROVE Owner[o] \in Users
    BY DEF Users

LEMMA HandlerType ==
    ASSUME TypeOK, NEW p \in Puts
    PROVE  /\ put[p] \in Handler
           /\ put[p].phase \in Phases /\ put[p].object \in Objects \cup {NoObject}
           /\ put[p].reserve \in Nat /\ put[p].gate \in Gates \cup {NoGate}
           /\ put[p].bytes \in Nat /\ put[p].row \in 0 .. MaxRow
           /\ put[p].ok \in BOOLEAN
    BY DEF TypeOK, Handler

LEMMA IdleIsHandler == Idle \in Handler
    BY BoundAssumption DEF BoundAssumption, Idle, Handler, Phases

(* A step of p: a handler again, and the others as they were.              *)
Moves(p) ==
    /\ put' \in [Puts -> Handler]
    /\ \A q \in Puts \ {p} : put'[q] = put[q]

(* A new row for p written field by field.                                 *)
LEMMA MovesTo ==
    ASSUME TypeOK, NEW p \in Puts, NEW h \in Handler, put' = [put EXCEPT ![p] = h]
    PROVE  Moves(p) /\ put'[p] = h
    BY DEF TypeOK, Moves

LEMMA GotoMoves ==
    ASSUME TypeOK, NEW p \in Puts, NEW phase \in Phases, Goto(p, phase)
    PROVE  /\ Moves(p)
           /\ put'[p] = [put[p] EXCEPT !.phase = phase]
           /\ put'[p].phase = phase /\ put'[p].object = put[p].object
           /\ put'[p].reserve = put[p].reserve /\ put'[p].gate = put[p].gate
           /\ put'[p].bytes = put[p].bytes /\ put'[p].row = put[p].row
           /\ put'[p].ok = put[p].ok
    BY HandlerType DEF Goto, TypeOK, Moves, Handler

-----------------------------------------------------------------------------
(* Accounts.                                                               *)

Active == {q \in Puts : ~ At(q, "idle")}

ActiveOf(u) == {q \in Puts : ~ At(q, "idle") /\ Owner[put[q].object] = u}

HoldersOf(g) == {q \in Puts : put[q].gate = g}

ReservedSum == SumFunction([q \in Puts |-> put[q].reserve])

TokensExact ==
    \A g \in Gates : gates[g].token <=>
        \A q \in Puts : put[q].gate = g => put[q].phase \notin Inside

LEMMA AccountsAre ==
    AccountsExact <=>
        /\ global = Cardinality(Active)
        /\ \A u \in Users : users[u] = Cardinality(ActiveOf(u))
        /\ reserved = ReservedSum
        /\ \A g \in Gates : gates[g].refs = Cardinality(HoldersOf(g))
        /\ TokensExact
    BY DEF AccountsExact, Active, ActiveOf, ReservedSum, HoldersOf, TokensExact

LEMMA AccountsAreNext ==
    AccountsExact' <=>
        /\ global' = Cardinality(Active)'
        /\ \A u \in Users : users'[u] = Cardinality(ActiveOf(u))'
        /\ reserved' = ReservedSum'
        /\ \A g \in Gates : gates'[g].refs = Cardinality(HoldersOf(g))'
        /\ TokensExact'
    BY DEF AccountsExact, Active, ActiveOf, ReservedSum, HoldersOf, TokensExact

(* How the step of one handler changes what is counted.                    *)
LEMMA CountsMove ==
    ASSUME TypeOK, NEW p \in Puts, Moves(p)
    PROVE  /\ Cardinality(Active)' = Cardinality(Active)
                 + (IF put'[p].phase # "idle" THEN 1 ELSE 0)
                 - (IF put[p].phase # "idle" THEN 1 ELSE 0)
           /\ put[p].phase # "idle" => Cardinality(Active) > 0
           /\ Cardinality(Active) \in Nat
<1>1. IsFiniteSet(Puts)
    BY ObjectAssumption DEF ObjectAssumption
<1>2. Active \in SUBSET Puts /\ Active' \in SUBSET Puts
    BY DEF Active
<1>3. \A q \in Puts \ {p} : q \in Active <=> q \in Active'
    BY DEF Moves, Active, At
<1>4. /\ p \in Active <=> put[p].phase # "idle"
      /\ p \in Active' <=> put'[p].phase # "idle"
    BY DEF Active, At
<1> QED BY <1>1, <1>2, <1>3, <1>4, CountUpdate

LEMMA OwnersMove ==
    ASSUME TypeOK, NEW p \in Puts, Moves(p), NEW u
    PROVE  /\ Cardinality(ActiveOf(u))' = Cardinality(ActiveOf(u))
                 + (IF put'[p].phase # "idle" /\ Owner[put'[p].object] = u THEN 1 ELSE 0)
                 - (IF put[p].phase # "idle" /\ Owner[put[p].object] = u THEN 1 ELSE 0)
           /\ put[p].phase # "idle" /\ Owner[put[p].object] = u =>
                 Cardinality(ActiveOf(u)) > 0
           /\ Cardinality(ActiveOf(u)) \in Nat
<1>1. IsFiniteSet(Puts)
    BY ObjectAssumption DEF ObjectAssumption
<1>2. ActiveOf(u) \in SUBSET Puts /\ ActiveOf(u)' \in SUBSET Puts
    BY DEF ActiveOf
<1>3. \A q \in Puts \ {p} : q \in ActiveOf(u) <=> q \in ActiveOf(u)'
    BY DEF Moves, ActiveOf, At
<1>4. /\ p \in ActiveOf(u) <=> put[p].phase # "idle" /\ Owner[put[p].object] = u
      /\ p \in ActiveOf(u)' <=> put'[p].phase # "idle" /\ Owner[put'[p].object] = u
    BY DEF ActiveOf, At
<1> QED BY <1>1, <1>2, <1>3, <1>4, CountUpdate

LEMMA HoldersMove ==
    ASSUME TypeOK, NEW p \in Puts, Moves(p), NEW g
    PROVE  /\ Cardinality(HoldersOf(g))' = Cardinality(HoldersOf(g))
                 + (IF put'[p].gate = g THEN 1 ELSE 0)
                 - (IF put[p].gate = g THEN 1 ELSE 0)
           /\ put[p].gate = g => Cardinality(HoldersOf(g)) > 0
           /\ Cardinality(HoldersOf(g)) \in Nat
<1>1. IsFiniteSet(Puts)
    BY ObjectAssumption DEF ObjectAssumption
<1>2. HoldersOf(g) \in SUBSET Puts /\ HoldersOf(g)' \in SUBSET Puts
    BY DEF HoldersOf
<1>3. \A q \in Puts \ {p} : q \in HoldersOf(g) <=> q \in HoldersOf(g)'
    BY DEF Moves, HoldersOf
<1>4. /\ p \in HoldersOf(g) <=> put[p].gate = g
      /\ p \in HoldersOf(g)' <=> put'[p].gate = g
    BY DEF HoldersOf
<1> QED BY <1>1, <1>2, <1>3, <1>4, CountUpdate

LEMMA ReservedMoves ==
    ASSUME TypeOK, NEW p \in Puts, Moves(p)
    PROVE  /\ ReservedSum' = ReservedSum - put[p].reserve + put'[p].reserve
           /\ ReservedSum \in Nat /\ ReservedSum' \in Nat
<1> DEFINE f == [q \in Puts |-> put[q].reserve]
           g == [q \in Puts |-> put'[q].reserve]
<1>1. IsFiniteSet(Puts)
    BY ObjectAssumption DEF ObjectAssumption
<1>2. \A q \in Puts : f[q] \in Nat /\ g[q] \in Nat
    BY DEF TypeOK, Moves, Handler
<1>3. \A q \in Puts \ {p} : g[q] = f[q]
    BY DEF Moves
<1>4. ReservedSum = SumFunctionOnSet(f, Puts) /\ ReservedSum' = SumFunctionOnSet(g, Puts)
    BY DEF ReservedSum, SumFunction
<1>5. f[p] = put[p].reserve /\ g[p] = put'[p].reserve
    OBVIOUS
<1> HIDE DEF f, g
<1>6. SumFunctionOnSet(g, Puts) = SumFunctionOnSet(f, Puts) - f[p] + g[p]
    BY <1>1, <1>2, <1>3, SumUpdate
<1>7. SumFunctionOnSet(f, Puts) \in Nat /\ SumFunctionOnSet(g, Puts) \in Nat
    BY <1>1, <1>2, SumIsNat
<1> QED BY <1>4, <1>5, <1>6, <1>7

(* A step that takes or gives back neither a slot nor a reservation.       *)
LEMMA SlotsFrame ==
    ASSUME TypeOK, AccountsExact, NEW p \in Puts, Moves(p),
           put[p].phase # "idle", put'[p].phase # "idle",
           put'[p].object = put[p].object, put'[p].reserve = put[p].reserve,
           UNCHANGED <<slotVars, reserved>>,
           \A g \in Gates : gates'[g].refs = Cardinality(HoldersOf(g))',
           TokensExact'
    PROVE  AccountsExact'
<1>1. global' = Cardinality(Active)' /\ \A u \in Users : users'[u] = Cardinality(ActiveOf(u))'
  <2>1. Cardinality(Active)' = Cardinality(Active)
      BY CountsMove
  <2>2. \A u \in Users : Cardinality(ActiveOf(u))' = Cardinality(ActiveOf(u))
      BY OwnersMove
  <2> QED BY <2>1, <2>2, AccountsAre DEF slotVars
<1>2. reserved' = ReservedSum'
    BY ReservedMoves, AccountsAre, HandlerType
<1> QED BY <1>1, <1>2, AccountsAreNext

(* A step that changes nothing that is counted.                            *)
LEMMA AccountsFrame ==
    ASSUME TypeOK, AccountsExact, NEW p \in Puts, Moves(p),
           put[p].phase # "idle", put'[p].phase # "idle",
           put'[p].object = put[p].object, put'[p].reserve = put[p].reserve,
           put'[p].gate = put[p].gate,
           put'[p].phase \in Inside <=> put[p].phase \in Inside,
           UNCHANGED <<slotVars, reserved, gates>>
    PROVE  AccountsExact'
<1>1. \A g \in Gates : gates'[g].refs = Cardinality(HoldersOf(g))'
    BY HoldersMove, AccountsAre
<1>2. TokensExact'
    BY AccountsAre DEF TokensExact, Moves
<1> QED BY <1>1, <1>2, SlotsFrame

-----------------------------------------------------------------------------
(* The other parts of the invariant, when a step does not touch them.      *)

LEMMA LocalFrame ==
    ASSUME NEW p \in Puts, Moves(p), \A q \in Puts : LocalInv(q), LocalInv(p)'
    PROVE  \A q \in Puts : LocalInv(q)'
<1> SUFFICES ASSUME NEW q \in Puts, q # p PROVE LocalInv(q)'
    OBVIOUS
<1>1. put'[q] = put[q] /\ LocalInv(q)
    BY DEF Moves
<1> QED BY <1>1 DEF LocalInv, At

LEMMA FileFrame ==
    ASSUME NEW p \in Puts, Moves(p), \A q \in Puts : FileInv(q), FileInv(p)',
           files \subseteq files', durable \subseteq durable',
           \A q \in Puts \ {p} :
               put[q].phase \in {"temp", "written", "charged", "flushed"}
                   => put[q].object \notin files'
    PROVE  \A q \in Puts : FileInv(q)'
<1> SUFFICES ASSUME NEW q \in Puts, q # p PROVE FileInv(q)'
    OBVIOUS
<1>1. put'[q] = put[q] /\ FileInv(q)
    BY DEF Moves
<1> QED BY <1>1 DEF FileInv

LEMMA GateFrame ==
    ASSUME NEW p \in Puts, Moves(p), GateInv, locks' = locks,
           put'[p].object = put[p].object \/ put[p].gate = NoGate,
           put'[p].gate = put[p].gate,
           put'[p].phase \in Inside => put[p].phase \in Inside
    PROVE  GateInv'
<1>1. \A q \in Puts : /\ put'[q].gate = put[q].gate
                      /\ put'[q].gate # NoGate => put'[q].object = put[q].object
                      /\ put'[q].phase \in Inside => put[q].phase \in Inside
    BY DEF Moves
<1>2. ASSUME NEW o \in Objects, locks'[o] # NoGate
      PROVE  \E q \in Puts : put'[q].gate = locks'[o] /\ put'[q].object = o
  <2>1. PICK q \in Puts : put[q].gate = locks[o] /\ put[q].object = o
      BY <1>2 DEF GateInv
  <2> QED BY <1>1, <1>2, <2>1
<1>3. \A q \in Puts : put'[q].gate # NoGate => locks'[put'[q].object] = put'[q].gate
    BY <1>1 DEF GateInv
<1>4. \A q, r \in Puts :
          put'[q].gate = put'[r].gate /\ put'[q].gate # NoGate =>
              /\ put'[q].object = put'[r].object
              /\ put'[q].phase \in Inside /\ put'[r].phase \in Inside => q = r
    BY <1>1 DEF GateInv
<1> QED BY <1>2, <1>3, <1>4 DEF GateInv

LEMMA RowFrame ==
    ASSUME NEW p \in Puts, Moves(p), RowInv, UNCHANGED budgetVars,
           put'[p].row = put[p].row,
           put'[p].object = put[p].object \/ put[p].row = 0
    PROVE  RowInv'
<1>1. \A q \in Puts : /\ put'[q].row = put[q].row
                      /\ put'[q].row # 0 => put'[q].object = put[q].object
    BY DEF Moves
<1>2. \A c : InFlight(c)' <=> InFlight(c)
    BY <1>1 DEF InFlight
<1> QED BY <1>1, <1>2 DEF RowInv, budgetVars

LEMMA BudgetFrame ==
    ASSUME BudgetInv, charges' = charges PROVE BudgetInv'
    BY DEF BudgetInv, Used, ChargesOf

BlockSum == SumFunction([q \in Puts |-> BlockBytes(q)])

LEMMA BlockBytesType ==
    ASSUME TypeOK, NEW q \in Puts PROVE BlockBytes(q) \in Nat
    BY HandlerType DEF BlockBytes, Unwritten

LEMMA BlockSumMoves ==
    ASSUME TypeOK, NEW p \in Puts, Moves(p)
    PROVE  /\ BlockSum' = BlockSum - BlockBytes(p) + BlockBytes(p)'
           /\ BlockSum \in Nat /\ BlockSum' \in Nat
           /\ BlockBytes(p) \in Nat /\ BlockBytes(p)' \in Nat
<1> DEFINE f == [q \in Puts |-> BlockBytes(q)]
           g == [q \in Puts |-> BlockBytes(q)']
<1>1. IsFiniteSet(Puts)
    BY ObjectAssumption DEF ObjectAssumption
<1>2. \A q \in Puts : f[q] \in Nat
    BY BlockBytesType
<1>3. \A q \in Puts : g[q] \in Nat
  <2>1. \A q \in Puts : put'[q].bytes \in Nat /\ put'[q].reserve \in Nat
      BY DEF Moves, Handler
  <2> QED BY <2>1 DEF BlockBytes, Unwritten
<1>4. \A q \in Puts \ {p} : g[q] = f[q]
    BY DEF Moves, BlockBytes, Unwritten
<1>5. BlockSum = SumFunctionOnSet(f, Puts) /\ BlockSum' = SumFunctionOnSet(g, Puts)
    BY DEF BlockSum, SumFunction
<1>6. f[p] = BlockBytes(p) /\ g[p] = BlockBytes(p)'
    OBVIOUS
<1> HIDE DEF f, g
<1>7. SumFunctionOnSet(g, Puts) = SumFunctionOnSet(f, Puts) - f[p] + g[p]
    BY <1>1, <1>2, <1>3, <1>4, SumUpdate
<1>8. SumFunctionOnSet(f, Puts) \in Nat /\ SumFunctionOnSet(g, Puts) \in Nat
    BY <1>1, <1>2, <1>3, SumIsNat
<1> QED BY <1>2, <1>3, <1>5, <1>6, <1>7, <1>8

LEMMA BytesType ==
    ASSUME NEW S \in SUBSET Objects PROVE Bytes(S) \in Nat /\ IsFiniteSet(S)
<1>1. IsFiniteSet(S)
    BY FS_Subset, ObjectAssumption DEF ObjectAssumption
<1>2. \A o \in S : Size[o] \in Nat
    BY SizeType
<1> QED BY <1>1, <1>2, SumIsNat DEF Bytes

LEMMA OrphanBytesType ==
    ASSUME TypeOK, NEW S \in SUBSET Objects PROVE OrphanBytes(S) \in Nat
<1> DEFINE f == [o \in Objects |-> orphans[o] * Size[o]]
<1>1. IsFiniteSet(S)
    BY BytesType
<1>2. \A o \in S : f[o] \in Nat
    BY SizeType DEF TypeOK
<1>3. OrphanBytes(S) = SumFunctionOnSet(f, S)
    BY DEF OrphanBytes
<1> HIDE DEF f
<1> QED BY <1>1, <1>2, <1>3, SumIsNat

LEMMA SpaceIs ==
    /\ BlocksLeaveMinimum <=>
          Bytes(files \cap Blocks) + OrphanBytes(Blocks) + BlockSum <= Capacity
    /\ BlocksLeaveMinimum' <=>
          Bytes(files' \cap Blocks) + OrphanBytes(Blocks)' + BlockSum' <= Capacity
    BY DEF BlocksLeaveMinimum, BlockSum, Bytes

LEMMA CapacityType == Capacity \in Nat /\ Budget \in Nat /\ MaxRow \in Nat
    BY BoundAssumption DEF BoundAssumption

LEMMA SpaceFrame ==
    ASSUME TypeOK, BlocksLeaveMinimum, NEW p \in Puts, Moves(p),
           files' = files, orphans' = orphans,
           BlockBytes(p)' <= BlockBytes(p)
    PROVE  BlocksLeaveMinimum'
<1>1. /\ Bytes(files' \cap Blocks) = Bytes(files \cap Blocks)
      /\ OrphanBytes(Blocks)' = OrphanBytes(Blocks)
    BY DEF OrphanBytes
<1>2. Bytes(files \cap Blocks) \in Nat /\ OrphanBytes(Blocks) \in Nat
    BY BytesType, OrphanBytesType, ObjectAssumption DEF ObjectAssumption, TypeOK
<1> QED BY <1>1, <1>2, BlockSumMoves, SpaceIs, CapacityType

(* A step of one handler that only moves it on, and perhaps syncs the      *)
(* directory of its object.                                                *)
LEMMA QuietStep ==
    ASSUME IInv, NEW p \in Puts, Moves(p),
           put[p].phase # "idle", put'[p].phase # "idle",
           put'[p].object = put[p].object, put'[p].reserve = put[p].reserve,
           put'[p].gate = put[p].gate, put'[p].row = put[p].row,
           put'[p].phase \in Inside <=> put[p].phase \in Inside,
           UNCHANGED <<files, orphans, budgetVars, acknowledged, slotVars, reserved, gateVars>>,
           durable \subseteq durable', durable' \subseteq files,
           LocalInv(p)', FileInv(p)', BlockBytes(p)' <= BlockBytes(p)
    PROVE  IInv'
<1> USE DEF IInv, gateVars
<1>1. TypeOK'
    BY DEF TypeOK, Moves, budgetVars, slotVars
<1>2. AccountsExact'
    BY AccountsFrame
<1>3. \A q \in Puts : LocalInv(q)'
    BY LocalFrame
<1>4. \A q \in Puts : FileInv(q)'
    BY FileFrame DEF FileInv
<1>5. GateInv'
    BY GateFrame
<1>6. RowInv' /\ BudgetInv'
    BY RowFrame, BudgetFrame DEF budgetVars
<1>7. BlocksLeaveMinimum'
    BY SpaceFrame
<1> QED BY <1>1, <1>2, <1>3, <1>4, <1>5, <1>6, <1>7

-----------------------------------------------------------------------------
(* Steps of a handler that only move it on.                                *)

(* A Goto among phases that hold the same things.                          *)
LEMMA QuietGoto ==
    ASSUME IInv, NEW p \in Puts, NEW phase \in Phases \ {"idle"}, Goto(p, phase),
           put[p].phase # "idle", phase \in Holding <=> put[p].phase \in Holding,
           phase \in Inside <=> put[p].phase \in Inside,
           UNCHANGED <<diskVars, budgetVars, acknowledged, slotVars, reserved, gateVars>>,
           LocalInv(p)', FileInv(p)', BlockBytes(p)' <= BlockBytes(p)
    PROVE  IInv'
<1>1. TypeOK
    BY DEF IInv
<1>2. durable \subseteq durable' /\ durable' \subseteq files
    BY <1>1 DEF TypeOK, diskVars
<1>3. UNCHANGED <<files, orphans, budgetVars, acknowledged, slotVars, reserved, gateVars>>
    BY DEF diskVars
<1> QED BY <1>1, <1>2, <1>3, GotoMoves, QuietStep

LEMMA GiveUpStep ==
    ASSUME IInv, NEW p \in Puts, GiveUp(p) PROVE IInv'
<1>1. TypeOK /\ LocalInv(p) /\ FileInv(p)
    BY DEF IInv
<1>2. Goto(p, "leave") /\ put[p].phase = "queued" /\ "leave" \in Phases \ {"idle"}
    BY DEF GiveUp, At, Phases
<1>3. LocalInv(p)' /\ FileInv(p)' /\ BlockBytes(p)' <= BlockBytes(p)
  <2>1. /\ put'[p].phase = "leave" /\ put'[p].object = put[p].object
        /\ put'[p].reserve = put[p].reserve /\ put'[p].gate = put[p].gate
        /\ put'[p].bytes = put[p].bytes /\ put'[p].row = put[p].row
        /\ put'[p].ok = put[p].ok
      BY <1>1, <1>2, GotoMoves
  <2>2. LocalInv(p)'
      BY <1>1, <1>2, <2>1 DEF LocalInv, At, Holding, Inside
  <2>3. FileInv(p)'
      BY <1>1, <1>2, <2>1 DEF FileInv, GiveUp, diskVars
  <2>4. BlockBytes(p)' <= BlockBytes(p)
      BY <1>1, <1>2, <2>1, HandlerType DEF BlockBytes, Unwritten
  <2> QED BY <2>2, <2>3, <2>4
<1>4. /\ "leave" \in Holding <=> put[p].phase \in Holding
      /\ "leave" \in Inside <=> put[p].phase \in Inside
    BY <1>2 DEF Holding, Inside
<1> QED BY <1>2, <1>3, <1>4, QuietGoto DEF GiveUp

LEMMA StatStep ==
    ASSUME IInv, NEW p \in Puts, Stat(p) PROVE IInv'
<1>1. TypeOK /\ LocalInv(p) /\ FileInv(p)
    BY DEF IInv
<1>2. PICK phase \in {"found", "temp", "unlock"} :
          /\ Goto(p, phase)
          /\ phase = "found" => put[p].object \in files
          /\ phase = "temp" => put[p].object \notin files
    BY DEF Stat
<1>3. put[p].phase = "locked" /\ phase \in Phases \ {"idle"}
    BY DEF Stat, At, Phases
<1>4. LocalInv(p)' /\ FileInv(p)' /\ BlockBytes(p)' <= BlockBytes(p)
  <2>1. /\ put'[p].phase = phase /\ put'[p].object = put[p].object
        /\ put'[p].reserve = put[p].reserve /\ put'[p].gate = put[p].gate
        /\ put'[p].bytes = put[p].bytes /\ put'[p].row = put[p].row
        /\ put'[p].ok = put[p].ok
      BY <1>1, <1>2, <1>3, GotoMoves
  <2>2. LocalInv(p)'
      BY <1>1, <1>2, <1>3, <2>1 DEF LocalInv, At, Holding, Inside
  <2>3. FileInv(p)'
      BY <1>1, <1>2, <1>3, <2>1 DEF FileInv, Stat, diskVars
  <2>4. BlockBytes(p)' <= BlockBytes(p)
      BY <1>1, <1>2, <1>3, <2>1, HandlerType DEF BlockBytes, Unwritten
  <2> QED BY <2>2, <2>3, <2>4
<1>5. /\ phase \in Holding <=> put[p].phase \in Holding
      /\ phase \in Inside <=> put[p].phase \in Inside
    BY <1>3 DEF Holding, Inside
<1> QED BY <1>2, <1>3, <1>4, <1>5, QuietGoto DEF Stat

LEMMA SyncTemporaryStep ==
    ASSUME IInv, NEW p \in Puts, SyncTemporary(p) PROVE IInv'
<1>1. TypeOK /\ LocalInv(p) /\ FileInv(p)
    BY DEF IInv
<1>2. Goto(p, "flushed") /\ put[p].phase = "charged" /\ "flushed" \in Phases \ {"idle"}
    BY DEF SyncTemporary, At, Phases
<1>3. LocalInv(p)' /\ FileInv(p)' /\ BlockBytes(p)' <= BlockBytes(p)
  <2>1. /\ put'[p].phase = "flushed" /\ put'[p].object = put[p].object
        /\ put'[p].reserve = put[p].reserve /\ put'[p].gate = put[p].gate
        /\ put'[p].bytes = put[p].bytes /\ put'[p].row = put[p].row
        /\ put'[p].ok = put[p].ok
      BY <1>1, <1>2, GotoMoves
  <2>2. LocalInv(p)'
      BY <1>1, <1>2, <2>1 DEF LocalInv, At, Holding, Inside
  <2>3. FileInv(p)'
      BY <1>1, <1>2, <2>1 DEF FileInv, SyncTemporary, diskVars
  <2>4. BlockBytes(p)' <= BlockBytes(p)
      BY <1>1, <1>2, <2>1, HandlerType DEF BlockBytes, Unwritten
  <2> QED BY <2>2, <2>3, <2>4
<1>4. /\ "flushed" \in Holding <=> put[p].phase \in Holding
      /\ "flushed" \in Inside <=> put[p].phase \in Inside
    BY <1>2 DEF Holding, Inside
<1> QED BY <1>2, <1>3, <1>4, QuietGoto DEF SyncTemporary

LEMMA FailStep ==
    ASSUME IInv, NEW p \in Puts, Fail(p) PROVE IInv'
<1>1. TypeOK /\ LocalInv(p) /\ FileInv(p)
    BY DEF IInv
<1>2. PICK phase \in {"finish", "unlock", "cleanup"} :
          /\ Goto(p, phase)
          /\ phase = "finish" => put[p].phase \in {"slot", "reserved"}
          /\ phase = "unlock" => put[p].phase \in {"locked", "found"}
          /\ phase = "cleanup" =>
                put[p].phase \in {"temp", "written", "charged", "flushed", "linked"}
    BY DEF Fail
<1>3. put[p].phase # "idle" /\ phase \in Phases \ {"idle"}
    BY <1>2 DEF Phases
<1>4. /\ phase \in Holding <=> put[p].phase \in Holding
      /\ phase \in Inside <=> put[p].phase \in Inside
    BY <1>2 DEF Holding, Inside
<1>5. /\ put'[p].phase = phase /\ put'[p].object = put[p].object
      /\ put'[p].reserve = put[p].reserve /\ put'[p].gate = put[p].gate
      /\ put'[p].bytes = put[p].bytes /\ put'[p].row = put[p].row
      /\ put'[p].ok = put[p].ok
    BY <1>1, <1>2, <1>3, GotoMoves
<1>6. LocalInv(p)'
    BY <1>1, <1>2, <1>4, <1>5 DEF LocalInv, At
<1>7. FileInv(p)'
    BY <1>1, <1>2, <1>5 DEF FileInv, Fail, diskVars
<1>8. BlockBytes(p)' <= BlockBytes(p)
    BY <1>1, <1>2, <1>5, HandlerType DEF BlockBytes, Unwritten
<1> QED BY <1>2, <1>3, <1>4, <1>6, <1>7, <1>8, QuietGoto DEF Fail

(* A replay and a completed upload sync the directory of the object.       *)
LEMMA SyncedStep ==
    ASSUME IInv, NEW p \in Puts, NEW phase \in {"unlock", "cleanup"},
           put[p].phase \in {"found", "linked"},
           put' = [put EXCEPT ![p].phase = phase, ![p].ok = TRUE],
           durable' = durable \cup {put[p].object},
           UNCHANGED <<files, orphans, budgetVars, acknowledged, slotVars, reserved, gateVars>>
    PROVE  IInv'
<1>1. TypeOK /\ LocalInv(p) /\ FileInv(p)
    BY DEF IInv
<1>2. /\ Moves(p)
      /\ put'[p].phase = phase /\ put'[p].object = put[p].object
      /\ put'[p].reserve = put[p].reserve /\ put'[p].gate = put[p].gate
      /\ put'[p].bytes = put[p].bytes /\ put'[p].row = put[p].row
      /\ put'[p].ok = TRUE
    BY <1>1, HandlerType DEF TypeOK, Moves, Handler, Phases
<1>3. LocalInv(p)' /\ FileInv(p)' /\ BlockBytes(p)' <= BlockBytes(p)
    BY <1>1, <1>2, HandlerType
       DEF LocalInv, FileInv, At, Holding, Inside, BlockBytes, Unwritten
<1>4. durable \subseteq durable' /\ durable' \subseteq files
    BY <1>1 DEF TypeOK, FileInv
<1>5. put'[p].phase \in Inside <=> put[p].phase \in Inside
    BY <1>2 DEF Inside
<1>6. put[p].phase # "idle" /\ put'[p].phase # "idle"
    BY <1>2
<1> QED BY <1>2, <1>3, <1>4, <1>5, <1>6, QuietStep

LEMMA ReplayStep ==
    ASSUME IInv, NEW p \in Puts, Replay(p) PROVE IInv'
    BY SyncedStep DEF Replay, At

LEMMA SyncParentStep ==
    ASSUME IInv, NEW p \in Puts, SyncParent(p) PROVE IInv'
    BY SyncedStep DEF SyncParent, At

(* Writing the temporary file uses up the reservation of a block.          *)
LEMMA WriteTemporaryStep ==
    ASSUME IInv, NEW p \in Puts, WriteTemporary(p) PROVE IInv'
<1>1. TypeOK /\ LocalInv(p) /\ FileInv(p)
    BY DEF IInv
<1>2. put[p].phase = "temp" /\ put[p].object \in Objects
    BY <1>1 DEF WriteTemporary, At, LocalInv
<1>3. Size[put[p].object] \in Nat /\ Size[put[p].object] > 0
    BY <1>2, SizeType
<1>4. /\ Moves(p)
      /\ put'[p].phase = "written" /\ put'[p].object = put[p].object
      /\ put'[p].reserve = put[p].reserve /\ put'[p].gate = put[p].gate
      /\ put'[p].bytes = Size[put[p].object] /\ put'[p].row = put[p].row
      /\ put'[p].ok = put[p].ok
    BY <1>1, <1>3, HandlerType DEF TypeOK, Moves, Handler, Phases, WriteTemporary
<1>5. UNCHANGED <<files, durable>>
    BY DEF WriteTemporary, diskVars
<1>6. LocalInv(p)' /\ FileInv(p)'
    BY <1>1, <1>2, <1>3, <1>4, <1>5, HandlerType DEF LocalInv, FileInv, At, Holding, Inside
<1>7. BlockBytes(p)' <= BlockBytes(p)
  <2>1. put[p].bytes = 0
      BY <1>1, <1>2 DEF LocalInv
  <2>2. CASE put[p].object \in Blocks
    <3>1. put[p].reserve = Size[put[p].object]
        BY <1>1, <1>2, <2>2 DEF FileInv
    <3> QED BY <1>2, <1>3, <1>4, <2>1, <2>2, <3>1 DEF BlockBytes, Unwritten
  <2>3. CASE put[p].object \notin Blocks
      BY <1>4, <2>3 DEF BlockBytes
  <2> QED BY <2>2, <2>3
<1>8. put'[p].phase \in Inside /\ put[p].phase \in Inside
    BY <1>2, <1>4 DEF Inside
<1>9. /\ UNCHANGED <<files, orphans, budgetVars, acknowledged, slotVars, reserved, gateVars>>
      /\ durable \subseteq durable' /\ durable' \subseteq files
      /\ put[p].phase # "idle" /\ put'[p].phase # "idle"
    BY <1>1, <1>2, <1>4 DEF WriteTemporary, diskVars, TypeOK
<1> QED BY <1>4, <1>6, <1>7, <1>8, <1>9, QuietStep

-----------------------------------------------------------------------------
(* The gate.                                                               *)

(* A step that touches, beside its handler, only the gates.                *)
LEMMA GateStep ==
    ASSUME IInv, NEW p \in Puts, Moves(p),
           put[p].phase # "idle", put'[p].phase # "idle",
           put'[p].object = put[p].object, put'[p].reserve = put[p].reserve,
           put'[p].row = put[p].row,
           UNCHANGED <<diskVars, budgetVars, acknowledged, slotVars, reserved>>,
           LocalInv(p)', FileInv(p)', BlockBytes(p)' <= BlockBytes(p),
           locks' \in [Objects -> Gates \cup {NoGate}],
           gates' \in [Gates -> [token : BOOLEAN, refs : Nat]],
           \A g \in Gates : gates'[g].refs = Cardinality(HoldersOf(g))',
           TokensExact', GateInv'
    PROVE  IInv'
<1> USE DEF IInv
<1>1. TypeOK'
    BY DEF TypeOK, Moves, diskVars, budgetVars, slotVars
<1>2. AccountsExact'
    BY SlotsFrame
<1>3. \A q \in Puts : LocalInv(q)'
    BY LocalFrame
<1>4. \A q \in Puts : FileInv(q)'
    BY FileFrame DEF FileInv, diskVars
<1>5. RowInv' /\ BudgetInv'
    BY RowFrame, BudgetFrame DEF budgetVars
<1>6. BlocksLeaveMinimum'
    BY SpaceFrame DEF diskVars
<1> QED BY <1>1, <1>2, <1>3, <1>4, <1>5, <1>6

LEMMA HoldersFinite ==
    ASSUME NEW g PROVE IsFiniteSet(HoldersOf(g)) /\ IsFiniteSet(HoldersOf(g)')
    BY FS_Subset, ObjectAssumption DEF HoldersOf, ObjectAssumption

LEMMA GateTypes ==
    ASSUME IInv, NEW p \in Puts, put[p].phase \in Holding
    PROVE  /\ put[p].gate \in Gates /\ put[p].gate # NoGate
           /\ put[p].object \in Objects
           /\ locks[put[p].object] = put[p].gate
    BY HandlerType DEF IInv, LocalInv, GateInv, Holding, Inside, At

LEMMA TakeGateStep ==
    ASSUME IInv, NEW p \in Puts, TakeGate(p) PROVE IInv'
<1> DEFINE g == put[p].gate
<1>1. TypeOK /\ LocalInv(p) /\ FileInv(p) /\ AccountsExact /\ GateInv
    BY DEF IInv
<1>2. Goto(p, "locked") /\ put[p].phase = "queued" /\ "locked" \in Phases
    BY DEF TakeGate, At, Phases
<1>3. /\ Moves(p)
      /\ put'[p].phase = "locked" /\ put'[p].object = put[p].object
      /\ put'[p].reserve = put[p].reserve /\ put'[p].gate = put[p].gate
      /\ put'[p].bytes = put[p].bytes /\ put'[p].row = put[p].row
      /\ put'[p].ok = put[p].ok
    BY <1>1, <1>2, GotoMoves
<1>4. g \in Gates /\ g # NoGate
    BY <1>2, GateTypes DEF Holding
<1>5. /\ gates' \in [Gates -> [token : BOOLEAN, refs : Nat]]
      /\ \A h \in Gates : gates'[h].refs = gates[h].refs
      /\ \A h \in Gates \ {g} : gates'[h] = gates[h]
      /\ gates'[g].token = FALSE /\ gates[g].token
    BY <1>1, <1>4 DEF TakeGate, TypeOK
<1>6. \A q \in Puts : put[q].gate = g => put[q].phase \notin Inside
    BY <1>1, <1>4, <1>5, AccountsAre DEF TokensExact
<1>7. \A h \in Gates : gates'[h].refs = Cardinality(HoldersOf(h))'
    BY <1>1, <1>3, <1>5, HoldersMove, AccountsAre
<1>8. TokensExact'
  <2>1. \A q \in Puts : put'[q].gate = put[q].gate
      BY <1>3 DEF Moves
  <2>2. "locked" \in Inside
      BY DEF Inside
  <2>3. TokensExact
      BY <1>1, AccountsAre
  <2> QED BY <1>3, <1>4, <1>5, <2>1, <2>2, <2>3 DEF TokensExact, Moves
<1>9. GateInv'
    BY <1>1, <1>3, <1>4, <1>6 DEF GateInv, TakeGate, Moves
<1>10. LocalInv(p)'
    BY <1>1, <1>2, <1>3 DEF LocalInv, At, Holding, Inside
<1>11. FileInv(p)' /\ BlockBytes(p)' <= BlockBytes(p)
    BY <1>1, <1>2, <1>3, HandlerType DEF FileInv, BlockBytes, Unwritten, TakeGate, diskVars
<1>12. locks' \in [Objects -> Gates \cup {NoGate}]
    BY <1>1 DEF TypeOK, TakeGate
<1> QED
    BY <1>2, <1>3, <1>5, <1>7, <1>8, <1>9, <1>10, <1>11, <1>12, GateStep DEF TakeGate

LEMMA UnlockStep ==
    ASSUME IInv, NEW p \in Puts, Unlock(p) PROVE IInv'
<1> DEFINE g == put[p].gate
<1>1. TypeOK /\ LocalInv(p) /\ FileInv(p) /\ AccountsExact /\ GateInv
    BY DEF IInv
<1>2. Goto(p, "leave") /\ put[p].phase = "unlock" /\ "leave" \in Phases
    BY DEF Unlock, At, Phases
<1>3. /\ Moves(p)
      /\ put'[p].phase = "leave" /\ put'[p].object = put[p].object
      /\ put'[p].reserve = put[p].reserve /\ put'[p].gate = put[p].gate
      /\ put'[p].bytes = put[p].bytes /\ put'[p].row = put[p].row
      /\ put'[p].ok = put[p].ok
    BY <1>1, <1>2, GotoMoves
<1>4. g \in Gates /\ g # NoGate
    BY <1>2, GateTypes DEF Holding, Inside
<1>5. /\ gates' \in [Gates -> [token : BOOLEAN, refs : Nat]]
      /\ \A h \in Gates : gates'[h].refs = gates[h].refs
      /\ \A h \in Gates \ {g} : gates'[h] = gates[h]
      /\ gates'[g].token = TRUE
    BY <1>1, <1>4 DEF Unlock, TypeOK
<1>6. \A q \in Puts \ {p} : put[q].gate = g => put[q].phase \notin Inside
    BY <1>1, <1>2, <1>4 DEF GateInv, Inside
<1>7. \A h \in Gates : gates'[h].refs = Cardinality(HoldersOf(h))'
    BY <1>1, <1>3, <1>5, HoldersMove, AccountsAre
<1>8. TokensExact'
  <2>1. \A q \in Puts : put'[q].gate = put[q].gate
      BY <1>3 DEF Moves
  <2>2. "leave" \notin Inside
      BY DEF Inside
  <2>3. TokensExact
      BY <1>1, AccountsAre
  <2> QED BY <1>3, <1>4, <1>5, <1>6, <2>1, <2>2, <2>3 DEF TokensExact, Moves
<1>9. GateInv'
    BY <1>1, <1>3, GateFrame DEF Unlock, Inside
<1>10. LocalInv(p)'
    BY <1>1, <1>2, <1>3 DEF LocalInv, At, Holding, Inside
<1>11. FileInv(p)' /\ BlockBytes(p)' <= BlockBytes(p)
    BY <1>1, <1>2, <1>3, HandlerType DEF FileInv, BlockBytes, Unwritten, Unlock, diskVars
<1>12. locks' \in [Objects -> Gates \cup {NoGate}]
    BY <1>1 DEF TypeOK, Unlock
<1> QED
    BY <1>2, <1>3, <1>5, <1>7, <1>8, <1>9, <1>10, <1>11, <1>12, GateStep DEF Unlock

LEMMA LeaveStep ==
    ASSUME IInv, NEW p \in Puts, Leave(p) PROVE IInv'
<1>0. PICK g, o : g = put[p].gate /\ o = put[p].object
    OBVIOUS
<1>1. TypeOK /\ LocalInv(p) /\ FileInv(p) /\ AccountsExact /\ GateInv
    BY DEF IInv
<1>2. put[p].phase = "leave" /\ put' = [put EXCEPT ![p].phase = "finish", ![p].gate = NoGate]
    BY DEF Leave, At
<1>3. /\ Moves(p)
      /\ put'[p].phase = "finish" /\ put'[p].object = o
      /\ put'[p].reserve = put[p].reserve /\ put'[p].gate = NoGate
      /\ put'[p].bytes = put[p].bytes /\ put'[p].row = put[p].row
      /\ put'[p].ok = put[p].ok
    BY <1>0, <1>1, <1>2, HandlerType DEF TypeOK, Moves, Handler, Phases
<1>4. g \in Gates /\ g # NoGate /\ o \in Objects /\ locks[o] = g
    BY <1>0, <1>2, GateTypes DEF Holding
<1>5. Cardinality(HoldersOf(g)) \in Nat /\ Cardinality(HoldersOf(g)) > 0
    BY <1>0, <1>1, <1>3, HoldersMove
<1>6. gates[g].refs = Cardinality(HoldersOf(g))
    BY <1>1, <1>4, AccountsAre
<1>7. /\ gates' \in [Gates -> [token : BOOLEAN, refs : Nat]]
      /\ gates'[g].refs = gates[g].refs - 1
      /\ \A h \in Gates \ {g} : gates'[h] = gates[h]
      /\ gates'[g].token = gates[g].token
    BY <1>0, <1>1, <1>4, <1>5, <1>6 DEF Leave, TypeOK
<1>8. NoGate \notin Gates
    BY GateAssumption DEF GateAssumption
<1>9. \A h \in Gates : gates'[h].refs = Cardinality(HoldersOf(h))'
  <2> SUFFICES ASSUME NEW h \in Gates PROVE gates'[h].refs = Cardinality(HoldersOf(h))'
      OBVIOUS
  <2>1. gates[h].refs = Cardinality(HoldersOf(h))
      BY <1>1, AccountsAre
  <2>2. CASE h = g
      BY <1>0, <1>1, <1>3, <1>4, <1>7, <2>1, <2>2, HoldersMove
  <2>3. CASE h # g
      BY <1>0, <1>1, <1>3, <1>7, <1>8, <2>1, <2>3, HoldersMove
  <2> QED BY <2>2, <2>3
<1>10. TokensExact'
  <2>1. \A q \in Puts, h \in Gates : put'[q].gate = h => put[q].gate = h /\ put'[q] = put[q]
      BY <1>3, <1>8 DEF Moves
  <2>2. \A q \in Puts, h \in Gates :
            put[q].gate = h /\ put[q].phase \in Inside => put'[q] = put[q]
      BY <1>2, <1>3 DEF Moves, Inside
  <2>3. \A h \in Gates : gates'[h].token = gates[h].token
      BY <1>7
  <2>4. TokensExact
      BY <1>1, AccountsAre
  <2> QED BY <2>1, <2>2, <2>3, <2>4 DEF TokensExact
<1>11. gates[g].refs = 1 => \A q \in Puts : put'[q].gate # g
  <2>1. gates[g].refs = 1 => Cardinality(HoldersOf(g)') = 0
      BY <1>4, <1>7, <1>9
  <2>2. gates[g].refs = 1 => HoldersOf(g)' = {}
      BY <2>1, HoldersFinite, FS_EmptySet
  <2>3. \A q \in Puts : put'[q].gate = g => q \in HoldersOf(g)'
      BY DEF HoldersOf
  <2> QED BY <2>2, <2>3
<1>12. gates[g].refs # 1 => \E q \in Puts : put'[q].gate = g
  <2>1. gates[g].refs # 1 => Cardinality(HoldersOf(g)') # 0
      BY <1>4, <1>5, <1>6, <1>7, <1>9
  <2>2. gates[g].refs # 1 => HoldersOf(g)' # {}
      BY <2>1, FS_EmptySet
  <2> QED BY <2>2 DEF HoldersOf
<1>13. /\ locks' \in [Objects -> Gates \cup {NoGate}]
       /\ \A x \in Objects \ {o} : locks'[x] = locks[x]
       /\ locks'[o] = IF gates[g].refs = 1 THEN NoGate ELSE locks[o]
    BY <1>0, <1>1, <1>4 DEF Leave, TypeOK
<1>14. \A q \in Puts : put'[q].gate # NoGate =>
          q # p /\ put'[q] = put[q] /\ put[q].gate # NoGate /\ locks[put[q].object] = put[q].gate
    BY <1>1, <1>3 DEF Moves, GateInv
<1>15. GateInv'
  <2>1. ASSUME NEW q \in Puts, put'[q].gate # NoGate
        PROVE  locks'[put'[q].object] = put'[q].gate
    <3>1. CASE put[q].object = o
        BY <1>4, <1>11, <1>13, <1>14, <2>1, <3>1
    <3>2. CASE put[q].object # o
      <4>1. put[q].object \in Objects
          BY <1>14, <2>1, GateTypes DEF IInv, LocalInv
      <4> QED BY <1>13, <1>14, <2>1, <3>2, <4>1
    <3> QED BY <3>1, <3>2
  <2>2. ASSUME NEW q \in Puts, NEW r \in Puts,
               put'[q].gate = put'[r].gate, put'[q].gate # NoGate
        PROVE  /\ put'[q].object = put'[r].object
               /\ put'[q].phase \in Inside /\ put'[r].phase \in Inside => q = r
      BY <1>1, <1>14, <2>2 DEF GateInv
  <2>3. ASSUME NEW x \in Objects, locks'[x] # NoGate
        PROVE  \E q \in Puts : put'[q].gate = locks'[x] /\ put'[q].object = x
    <3>1. CASE x = o
      <4>1. gates[g].refs # 1 /\ locks'[x] = g
          BY <1>4, <1>13, <2>3, <3>1
      <4>2. PICK q \in Puts : put'[q].gate = g
          BY <1>12, <4>1
      <4>3. put[q].gate = put[p].gate /\ put'[q] = put[q]
          BY <1>0, <1>4, <1>14, <4>2
      <4>4. put[q].object = o
          BY <1>0, <1>1, <1>4, <4>3 DEF GateInv
      <4> QED BY <3>1, <4>1, <4>2, <4>3, <4>4
    <3>2. CASE x # o
      <4>1. locks'[x] = locks[x]
          BY <1>13, <3>2
      <4>2. PICK q \in Puts : put[q].gate = locks[x] /\ put[q].object = x
          BY <1>1, <2>3, <4>1 DEF GateInv
      <4>3. q # p
          BY <1>0, <3>2, <4>2
      <4> QED BY <1>3, <4>1, <4>2, <4>3 DEF Moves
    <3> QED BY <3>1, <3>2
  <2> QED BY <2>1, <2>2, <2>3 DEF GateInv
<1>16. LocalInv(p)'
    BY <1>0, <1>1, <1>2, <1>3 DEF LocalInv, At, Holding, Inside
<1>17. FileInv(p)' /\ BlockBytes(p)' <= BlockBytes(p)
    BY <1>0, <1>1, <1>2, <1>3, HandlerType DEF FileInv, BlockBytes, Unwritten, Leave, diskVars
<1> QED
    BY <1>0, <1>2, <1>3, <1>7, <1>9, <1>10, <1>13, <1>15, <1>16, <1>17, GateStep DEF Leave

(* There are as many gates as handlers, so one that waits for none leaves  *)
(* a gate that nobody refers to.                                           *)
LEMMA SomeGateUnused ==
    ASSUME IInv, NEW p \in Puts, put[p].gate = NoGate
    PROVE  UnusedGate \in Gates /\ gates[UnusedGate].refs = 0
<1>1. TypeOK /\ AccountsExact
    BY DEF IInv
<1>2. \E g \in Gates : gates[g].refs = 0
  <2> SUFFICES ASSUME \A g \in Gates : gates[g].refs # 0 PROVE FALSE
      OBVIOUS
  <2> DEFINE holder == [g \in Gates |-> CHOOSE q \in Puts : put[q].gate = g]
  <2>1. \A g \in Gates : \E q \in Puts : put[q].gate = g
    <3> SUFFICES ASSUME NEW g \in Gates PROVE \E q \in Puts : put[q].gate = g
        OBVIOUS
    <3>1. Cardinality(HoldersOf(g)) # 0
        BY <1>1, AccountsAre
    <3>2. HoldersOf(g) # {}
        BY <3>1, FS_EmptySet
    <3> QED BY <3>2 DEF HoldersOf
  <2>2. \A g \in Gates : holder[g] \in Puts /\ put[holder[g]].gate = g
      BY <2>1
  <2>3. NoGate \notin Gates
      BY GateAssumption DEF GateAssumption
  <2>4. holder \in [Gates -> Puts \ {p}]
      BY <2>2, <2>3
  <2>5. \A g, h \in Gates : holder[g] = holder[h] => g = h
      BY <2>2
  <2> HIDE DEF holder
  <2>6. /\ IsFiniteSet(Gates) /\ IsFiniteSet(Puts) /\ IsFiniteSet(Puts \ {p})
        /\ Cardinality(Puts) <= Cardinality(Gates)
        /\ Cardinality(Puts) \in Nat /\ Cardinality(Gates) \in Nat
        /\ Cardinality(Puts \ {p}) = Cardinality(Puts) - 1
      BY GateAssumption, ObjectAssumption, FS_RemoveElement, FS_CardinalityType
         DEF GateAssumption, ObjectAssumption
  <2>7. Cardinality(Puts \ {p}) < Cardinality(Gates)
      BY <2>6
  <2>8. \E g, h \in Gates : g # h /\ holder[g] = holder[h]
      BY <2>4, <2>6, <2>7, FS_PigeonHole
  <2> QED BY <2>5, <2>8
<1> QED BY <1>2 DEF UnusedGate

LEMMA JoinStep ==
    ASSUME IInv, NEW p \in Puts, Join(p) PROVE IInv'
<1> DEFINE o == put[p].object
           g == IF locks[o] # NoGate THEN locks[o] ELSE UnusedGate
<1>1. TypeOK /\ LocalInv(p) /\ FileInv(p) /\ AccountsExact /\ GateInv
    BY DEF IInv
<1>2. put[p].phase = "reserved" /\ o \in Objects /\ put[p].gate = NoGate
    BY <1>1 DEF Join, At, LocalInv, Holding, Inside
<1>3. NoGate \notin Gates
    BY GateAssumption DEF GateAssumption
<1>4. g \in Gates /\ g # NoGate
    BY <1>1, <1>2, <1>3, SomeGateUnused DEF TypeOK
<1>5. \A q \in Puts : put[q].gate = g => put[q].object = o /\ locks[o] = g
  <2> SUFFICES ASSUME NEW q \in Puts, put[q].gate = g PROVE put[q].object = o /\ locks[o] = g
      OBVIOUS
  <2>1. CASE locks[o] # NoGate
    <3>1. PICK r \in Puts : put[r].gate = locks[o] /\ put[r].object = o
        BY <1>1, <1>2, <2>1 DEF GateInv
    <3>2. put[r].gate = put[q].gate /\ put[q].gate # NoGate
        BY <1>4, <2>1, <3>1
    <3> QED BY <1>1, <2>1, <3>1, <3>2 DEF GateInv
  <2>2. CASE locks[o] = NoGate
    <3>1. g = UnusedGate /\ gates[g].refs = 0
        BY <1>2, <2>2, SomeGateUnused
    <3>2. Cardinality(HoldersOf(g)) = 0
        BY <1>1, <1>4, <3>1, AccountsAre
    <3>3. HoldersOf(g) = {}
        BY <3>2, HoldersFinite, FS_EmptySet
    <3> QED BY <3>3 DEF HoldersOf
  <2> QED BY <2>1, <2>2
<1> HIDE DEF g
<1>6. /\ put' = [put EXCEPT ![p].phase = "queued", ![p].gate = g]
      /\ locks' = [locks EXCEPT ![o] = g]
      /\ gates' = [gates EXCEPT ![g].refs = @ + 1]
    BY DEF Join, g
<1> HIDE DEF o
<1>7. /\ Moves(p)
      /\ put'[p].phase = "queued" /\ put'[p].object = o
      /\ put'[p].reserve = put[p].reserve /\ put'[p].gate = g
      /\ put'[p].bytes = put[p].bytes /\ put'[p].row = put[p].row
      /\ put'[p].ok = put[p].ok
    BY <1>1, <1>4, <1>6, HandlerType DEF TypeOK, Moves, Handler, Phases, o
<1>8. /\ locks' \in [Objects -> Gates \cup {NoGate}]
      /\ \A x \in Objects \ {o} : locks'[x] = locks[x]
      /\ locks'[o] = g
    BY <1>1, <1>2, <1>4, <1>6 DEF TypeOK
<1>9. /\ gates' \in [Gates -> [token : BOOLEAN, refs : Nat]]
      /\ gates'[g].refs = gates[g].refs + 1 /\ gates[g].refs \in Nat
      /\ \A h \in Gates \ {g} : gates'[h] = gates[h]
      /\ gates'[g].token = gates[g].token
    BY <1>1, <1>4, <1>6 DEF TypeOK
<1>10. \A h \in Gates : gates'[h].refs = Cardinality(HoldersOf(h))'
  <2> SUFFICES ASSUME NEW h \in Gates PROVE gates'[h].refs = Cardinality(HoldersOf(h))'
      OBVIOUS
  <2>1. gates[h].refs = Cardinality(HoldersOf(h))
      BY <1>1, AccountsAre
  <2>2. CASE h = g
      BY <1>1, <1>2, <1>4, <1>7, <1>9, <2>1, <2>2, HoldersMove
  <2>3. CASE h # g
      BY <1>1, <1>2, <1>3, <1>7, <1>9, <2>1, <2>3, HoldersMove
  <2> QED BY <2>2, <2>3
<1>11. TokensExact'
  <2>1. \A q \in Puts, h \in Gates : put[q].gate = h => put'[q] = put[q]
      BY <1>2, <1>3, <1>7 DEF Moves
  <2>2. \A q \in Puts, h \in Gates :
            put'[q].gate = h /\ put'[q].phase \in Inside => put'[q] = put[q]
      BY <1>7 DEF Moves, Inside
  <2>3. \A h \in Gates : gates'[h].token = gates[h].token
      BY <1>9
  <2>4. TokensExact
      BY <1>1, AccountsAre
  <2> QED BY <2>1, <2>2, <2>3, <2>4 DEF TokensExact
<1>12. GateInv'
  <2>1. ASSUME NEW q \in Puts, put'[q].gate # NoGate
        PROVE  locks'[put'[q].object] = put'[q].gate
    <3>1. CASE q = p
        BY <1>7, <1>8, <3>1
    <3>2. CASE q # p
      <4>1. put'[q] = put[q]
          BY <1>7, <3>2 DEF Moves
      <4>2. locks[put[q].object] = put[q].gate
          BY <1>1, <2>1, <4>1 DEF GateInv
      <4>3. put[q].object \in Objects
          BY <2>1, <4>1, HandlerType DEF IInv, LocalInv, Idle
      <4>4. put[q].object = o => put[q].gate = g
          BY <2>1, <4>1, <4>2 DEF g
      <4> QED BY <1>8, <4>1, <4>2, <4>3, <4>4
    <3> QED BY <3>1, <3>2
  <2>2. ASSUME NEW q \in Puts, NEW r \in Puts,
               put'[q].gate = put'[r].gate, put'[q].gate # NoGate
        PROVE  /\ put'[q].object = put'[r].object
               /\ put'[q].phase \in Inside /\ put'[r].phase \in Inside => q = r
    <3>1. \A x \in Puts : put'[x].gate = g => put'[x].object = o
        BY <1>5, <1>7 DEF Moves
    <3>2. CASE put'[q].gate = g
      <4>1. put'[q].object = put'[r].object
          BY <2>2, <3>1, <3>2
      <4>2. CASE q = p \/ r = p
          BY <1>7, <4>1, <4>2 DEF Inside
      <4>3. CASE q # p /\ r # p
          BY <1>1, <1>7, <2>2, <4>1, <4>3 DEF GateInv, Moves
      <4> QED BY <4>2, <4>3
    <3>3. CASE put'[q].gate # g
        BY <1>1, <1>7, <2>2, <3>3 DEF GateInv, Moves
    <3> QED BY <3>2, <3>3
  <2>3. ASSUME NEW x \in Objects, locks'[x] # NoGate
        PROVE  \E q \in Puts : put'[q].gate = locks'[x] /\ put'[q].object = x
    <3>1. CASE x = o
        BY <1>7, <1>8, <3>1
    <3>2. CASE x # o
      <4>1. locks'[x] = locks[x]
          BY <1>8, <3>2
      <4>2. PICK q \in Puts : put[q].gate = locks[x] /\ put[q].object = x
          BY <1>1, <2>3, <4>1 DEF GateInv
      <4>3. q # p
          BY <3>2, <4>2 DEF o
      <4> QED BY <1>7, <4>1, <4>2, <4>3 DEF Moves
    <3> QED BY <3>1, <3>2
  <2> QED BY <2>1, <2>2, <2>3 DEF GateInv
<1>13. LocalInv(p)'
    BY <1>1, <1>2, <1>4, <1>7 DEF LocalInv, At, Holding, Inside, o
<1>14. FileInv(p)' /\ BlockBytes(p)' <= BlockBytes(p)
    BY <1>1, <1>2, <1>7, HandlerType DEF FileInv, BlockBytes, Unwritten, Join, diskVars, o
<1> QED
    BY <1>2, <1>7, <1>8, <1>9, <1>10, <1>11, <1>12, <1>13, <1>14, GateStep DEF Join, o

-----------------------------------------------------------------------------
(* Slots and reservations.                                                 *)

(* A step outside the gate that touches, beside its handler, only the      *)
(* slots, the reservations and what was acknowledged.                      *)
LEMMA SlotStep ==
    ASSUME IInv, NEW p \in Puts, Moves(p),
           put[p].phase \notin Holding, put'[p].phase \notin Holding,
           UNCHANGED <<diskVars, budgetVars, gateVars>>,
           acknowledged' \subseteq Objects,
           global' \in 0 .. GlobalConcurrency,
           users' \in [Users -> 0 .. UserConcurrency],
           reserved' \in Nat,
           LocalInv(p)', FileInv(p)',
           global' = Cardinality(Active)',
           \A u \in Users : users'[u] = Cardinality(ActiveOf(u))',
           reserved' = ReservedSum',
           BlocksLeaveMinimum'
    PROVE  IInv'
<1> USE DEF IInv
<1>1. TypeOK'
    BY DEF TypeOK, Moves, diskVars, budgetVars, gateVars
<1>2. /\ put[p].gate = NoGate /\ put'[p].gate = NoGate
      /\ put[p].phase \notin Inside /\ put'[p].phase \notin Inside
    BY DEF LocalInv, Holding
<1>3. put[p].row = 0 /\ put'[p].row = 0
    BY DEF LocalInv, Holding, Inside
<1>4. AccountsExact'
  <2>1. NoGate \notin Gates
      BY GateAssumption DEF GateAssumption
  <2>2. \A g \in Gates : gates'[g].refs = Cardinality(HoldersOf(g))'
      BY <1>2, HoldersMove, AccountsAre DEF gateVars
  <2>3. TokensExact'
      BY <1>2, <2>1, AccountsAre DEF TokensExact, Moves, gateVars
  <2> QED BY <2>2, <2>3, AccountsAreNext
<1>5. \A q \in Puts : LocalInv(q)'
    BY LocalFrame
<1>6. \A q \in Puts : FileInv(q)'
    BY FileFrame DEF FileInv, diskVars
<1>7. GateInv'
    BY <1>2, GateFrame DEF gateVars
<1>8. RowInv' /\ BudgetInv'
    BY <1>3, RowFrame, BudgetFrame DEF budgetVars
<1> QED BY <1>1, <1>4, <1>5, <1>6, <1>7, <1>8

LEMMA LimitTypes == GlobalConcurrency \in Nat /\ UserConcurrency \in Nat
    BY BoundAssumption DEF BoundAssumption

LEMMA AcquireUploadStep ==
    ASSUME IInv, NEW p \in Puts, NEW o \in Objects, AcquireUpload(p, o) PROVE IInv'
<1>1. TypeOK /\ LocalInv(p) /\ FileInv(p) /\ AccountsExact /\ BlocksLeaveMinimum
    BY DEF IInv
<1>2. put[p] = Idle
    BY <1>1 DEF AcquireUpload, LocalInv
<1>3. [Idle EXCEPT !.phase = "slot", !.object = o] \in Handler
    BY IdleIsHandler DEF Idle, Handler, Phases
<1>4. /\ Moves(p)
      /\ put'[p] = [Idle EXCEPT !.phase = "slot", !.object = o]
    BY <1>1, <1>3, MovesTo DEF AcquireUpload
<1>5. /\ put[p].phase = "idle" /\ put[p].reserve = 0
      /\ put'[p].phase = "slot" /\ put'[p].object = o /\ put'[p].reserve = 0
      /\ put'[p].gate = NoGate /\ put'[p].bytes = 0 /\ put'[p].row = 0
      /\ put'[p].ok = FALSE
    BY <1>2, <1>4 DEF Idle
<1>6. Owner[o] \in Users
    BY OwnerType
<1>7. global' = Cardinality(Active)' /\ global' \in 0 .. GlobalConcurrency
    BY <1>1, <1>4, <1>5, CountsMove, AccountsAre, LimitTypes DEF AcquireUpload, TypeOK
<1>8. /\ users' \in [Users -> 0 .. UserConcurrency]
      /\ users'[Owner[o]] = users[Owner[o]] + 1
      /\ \A u \in Users \ {Owner[o]} : users'[u] = users[u]
    BY <1>1, <1>6, LimitTypes DEF AcquireUpload, TypeOK
<1>9. \A u \in Users : users'[u] = Cardinality(ActiveOf(u))'
  <2> SUFFICES ASSUME NEW u \in Users PROVE users'[u] = Cardinality(ActiveOf(u))'
      OBVIOUS
  <2>1. users[u] = Cardinality(ActiveOf(u))
      BY <1>1, AccountsAre
  <2>2. /\ Cardinality(ActiveOf(u))' = Cardinality(ActiveOf(u))
                + (IF put'[p].phase # "idle" /\ Owner[put'[p].object] = u THEN 1 ELSE 0)
                - (IF put[p].phase # "idle" /\ Owner[put[p].object] = u THEN 1 ELSE 0)
        /\ Cardinality(ActiveOf(u)) \in Nat
      BY <1>1, <1>4, OwnersMove
  <2>3. CASE u = Owner[o]
      BY <1>5, <1>8, <2>1, <2>2, <2>3
  <2>4. CASE u # Owner[o]
      BY <1>5, <1>8, <2>1, <2>2, <2>4
  <2> QED BY <2>3, <2>4
<1>10. reserved' = ReservedSum' /\ reserved' \in Nat
    BY <1>1, <1>4, <1>5, ReservedMoves, AccountsAre DEF AcquireUpload
<1>11. LocalInv(p)' /\ FileInv(p)'
    BY <1>5 DEF LocalInv, FileInv, At, Holding, Inside
<1>12. BlocksLeaveMinimum'
  <2>1. BlockBytes(p)' <= BlockBytes(p)
      BY <1>1, <1>5, BlockBytesType DEF BlockBytes, Unwritten
  <2> QED BY <1>1, <1>4, <2>1, SpaceFrame DEF AcquireUpload, diskVars
<1>13. put[p].phase \notin Holding /\ put'[p].phase \notin Holding
    BY <1>5 DEF Holding, Inside
<1>14. acknowledged' \subseteq Objects
    BY <1>1 DEF TypeOK, AcquireUpload
<1> QED
    BY <1>4, <1>7, <1>8, <1>9, <1>10, <1>11, <1>12, <1>13, <1>14, SlotStep
       DEF AcquireUpload

LEMMA FinishStep ==
    ASSUME IInv, NEW p \in Puts, Finish(p) PROVE IInv'
<1>0. PICK o : o = put[p].object
    OBVIOUS
<1>1. TypeOK /\ LocalInv(p) /\ FileInv(p) /\ AccountsExact /\ BlocksLeaveMinimum
    BY DEF IInv
<1>2. put[p].phase = "finish" /\ o \in Objects
    BY <1>0, <1>1 DEF Finish, LocalInv, At
<1>3. Moves(p) /\ put'[p] = Idle
    BY <1>1, IdleIsHandler, MovesTo DEF Finish
<1>4. /\ put'[p].phase = "idle" /\ put'[p].reserve = 0
      /\ put'[p].gate = NoGate /\ put'[p].bytes = 0 /\ put'[p].row = 0
      /\ put'[p].ok = FALSE /\ put'[p].object = NoObject
    BY <1>3 DEF Idle
<1>5. Owner[o] \in Users
    BY <1>2, OwnerType
<1>6. global' = Cardinality(Active)' /\ global' \in 0 .. GlobalConcurrency
    BY <1>1, <1>2, <1>3, <1>4, CountsMove, AccountsAre, LimitTypes DEF Finish, TypeOK
<1>7. /\ users[Owner[o]] = Cardinality(ActiveOf(Owner[o]))
      /\ Cardinality(ActiveOf(Owner[o])) > 0
    BY <1>0, <1>1, <1>2, <1>3, <1>5, OwnersMove, AccountsAre
<1>8. /\ users' \in [Users -> 0 .. UserConcurrency]
      /\ users'[Owner[o]] = users[Owner[o]] - 1
      /\ \A u \in Users \ {Owner[o]} : users'[u] = users[u]
    BY <1>0, <1>1, <1>5, <1>7, LimitTypes DEF Finish, TypeOK
<1>9. \A u \in Users : users'[u] = Cardinality(ActiveOf(u))'
  <2> SUFFICES ASSUME NEW u \in Users PROVE users'[u] = Cardinality(ActiveOf(u))'
      OBVIOUS
  <2>1. users[u] = Cardinality(ActiveOf(u))
      BY <1>1, AccountsAre
  <2>2. CASE u = Owner[o]
      BY <1>0, <1>1, <1>2, <1>3, <1>4, <1>8, <2>1, <2>2, OwnersMove
  <2>3. CASE u # Owner[o]
      BY <1>0, <1>1, <1>2, <1>3, <1>4, <1>8, <2>1, <2>3, OwnersMove
  <2> QED BY <2>2, <2>3
<1>10. reserved' = ReservedSum' /\ reserved' \in Nat
    BY <1>1, <1>3, <1>4, ReservedMoves, AccountsAre, HandlerType DEF Finish
<1>11. LocalInv(p)' /\ FileInv(p)'
    BY <1>3, <1>4 DEF LocalInv, FileInv, At, Holding, Inside
<1>12. BlocksLeaveMinimum'
  <2>1. BlockBytes(p)' <= BlockBytes(p)
      BY <1>1, <1>4, BlockBytesType DEF BlockBytes, Unwritten
  <2> QED BY <1>1, <1>3, <2>1, SpaceFrame DEF Finish, diskVars
<1>13. put[p].phase \notin Holding /\ put'[p].phase \notin Holding
    BY <1>2, <1>4 DEF Holding, Inside
<1>14. acknowledged' \subseteq Objects
    BY <1>0, <1>1, <1>2 DEF TypeOK, Finish
<1> QED
    BY <1>3, <1>6, <1>8, <1>9, <1>10, <1>11, <1>12, <1>13, <1>14, SlotStep
       DEF Finish

(* What the blocks under way need is at most what is in temporary files    *)
(* and what is reserved.                                                   *)
LEMMA BlocksWithinReserved ==
    ASSUME TypeOK
    PROVE  BlockSum <= TemporaryBytes + ReservedSum /\ TemporaryBytes \in Nat
<1> DEFINE f == [q \in Puts |-> put[q].bytes]
           g == [q \in Puts |-> put[q].reserve]
           h == [q \in Puts |-> put[q].bytes + put[q].reserve]
           b == [q \in Puts |-> BlockBytes(q)]
<1>1. IsFiniteSet(Puts)
    BY ObjectAssumption DEF ObjectAssumption
<1>2. \A q \in Puts : f[q] \in Nat /\ g[q] \in Nat /\ h[q] = f[q] + g[q]
    BY HandlerType
<1>3. \A q \in Puts : b[q] \in Nat /\ b[q] <= h[q]
    BY HandlerType DEF BlockBytes, Unwritten
<1>4. /\ BlockSum = SumFunctionOnSet(b, Puts)
      /\ TemporaryBytes = SumFunctionOnSet(f, Puts)
      /\ ReservedSum = SumFunctionOnSet(g, Puts)
    BY DEF BlockSum, TemporaryBytes, ReservedSum, SumFunction
<1> HIDE DEF f, g, h, b
<1>5. SumFunctionOnSet(h, Puts) = SumFunctionOnSet(f, Puts) + SumFunctionOnSet(g, Puts)
    BY <1>1, <1>2, SumPlus
<1>6. SumFunctionOnSet(b, Puts) <= SumFunctionOnSet(h, Puts)
    BY <1>1, <1>2, <1>3, SumMonotone
<1>7. SumFunctionOnSet(f, Puts) \in Nat
    BY <1>1, <1>2, SumIsNat
<1> QED BY <1>4, <1>5, <1>6, <1>7

LEMMA BytesMonotone ==
    ASSUME NEW S \in SUBSET Objects, NEW T \in SUBSET S PROVE Bytes(T) <= Bytes(S)
<1>1. IsFiniteSet(S)
    BY BytesType
<1>2. \A o \in S : Size[o] \in Nat /\ Size[o] <= Size[o]
    BY SizeType
<1> QED BY <1>1, <1>2, SumMonotone DEF Bytes

LEMMA OrphanBytesMonotone ==
    ASSUME TypeOK PROVE OrphanBytes(Blocks) <= OrphanBytes(Objects)
<1> DEFINE f == [o \in Objects |-> orphans[o] * Size[o]]
<1>1. IsFiniteSet(Objects) /\ Blocks \subseteq Objects
    BY ObjectAssumption DEF ObjectAssumption
<1>2. \A o \in Objects : f[o] \in Nat /\ f[o] <= f[o]
    BY SizeType DEF TypeOK
<1>3. \A S \in SUBSET Objects : OrphanBytes(S) = SumFunctionOnSet(f, S)
    BY DEF OrphanBytes
<1> HIDE DEF f
<1> QED BY <1>1, <1>2, <1>3, SumMonotone

(* The test at admission covers what the block will need.                  *)
LEMMA FitsLeavesMinimum ==
    ASSUME TypeOK, AccountsExact, NEW bytes \in Nat, Fits(bytes)
    PROVE  Bytes(files \cap Blocks) + OrphanBytes(Blocks) + BlockSum + bytes <= Capacity
<1>1. /\ Bytes(files) \in Nat /\ Bytes(files \cap Blocks) \in Nat
      /\ Bytes(files \cap Blocks) <= Bytes(files)
    BY BytesType, BytesMonotone DEF TypeOK
<1>2. /\ OrphanBytes(Blocks) \in Nat /\ OrphanBytes(Objects) \in Nat
      /\ OrphanBytes(Blocks) <= OrphanBytes(Objects)
    BY OrphanBytesType, OrphanBytesMonotone, ObjectAssumption DEF ObjectAssumption
<1>3. BlockSum <= TemporaryBytes + ReservedSum /\ TemporaryBytes \in Nat
    BY BlocksWithinReserved
<1>4. reserved = ReservedSum /\ reserved \in Nat
    BY AccountsAre DEF TypeOK
<1>5. BlockSum \in Nat
  <2>1. \A q \in Puts : BlockBytes(q) \in Nat
      BY BlockBytesType
  <2> DEFINE f == [q \in Puts |-> BlockBytes(q)]
  <2>2. \A q \in Puts : f[q] \in Nat
      BY <2>1
  <2>3. BlockSum = SumFunctionOnSet(f, Puts)
      BY DEF BlockSum, SumFunction
  <2> HIDE DEF f
  <2> QED BY <2>2, <2>3, SumIsNat, ObjectAssumption DEF ObjectAssumption
<1> QED BY <1>1, <1>2, <1>3, <1>4, <1>5, CapacityType DEF Fits, Room

LEMMA ReserveUploadStep ==
    ASSUME IInv, NEW p \in Puts, ReserveUpload(p) PROVE IInv'
<1>0. PICK o, bytes : /\ o = put[p].object
                      /\ bytes = IF o \in Blocks \ files THEN Size[o] ELSE 0
    OBVIOUS
<1>1. TypeOK /\ LocalInv(p) /\ FileInv(p) /\ AccountsExact /\ BlocksLeaveMinimum
    BY DEF IInv
<1>2. put[p].phase = "slot" /\ o \in Objects /\ put[p].reserve = 0
    BY <1>0, <1>1 DEF ReserveUpload, LocalInv, At
<1>3. bytes \in Nat
    BY <1>0, <1>2, SizeType
<1>4. CASE /\ o \in files \/ Fits(bytes)
           /\ reserved' = reserved + bytes
           /\ put' = [put EXCEPT ![p].phase = "reserved", ![p].reserve = bytes]
  <2>1. /\ Moves(p)
        /\ put'[p].phase = "reserved" /\ put'[p].object = o
        /\ put'[p].reserve = bytes /\ put'[p].gate = put[p].gate
        /\ put'[p].bytes = put[p].bytes /\ put'[p].row = put[p].row
        /\ put'[p].ok = put[p].ok
      BY <1>0, <1>1, <1>3, <1>4, HandlerType DEF TypeOK, Moves, Handler, Phases
  <2>2. LocalInv(p)'
      BY <1>0, <1>1, <1>2, <2>1 DEF LocalInv, At, Holding, Inside
  <2>3. UNCHANGED <<files, durable, orphans>>
      BY DEF ReserveUpload, diskVars
  <2>4. FileInv(p)'
      BY <1>0, <1>1, <1>2, <2>1, <2>3 DEF FileInv
  <2>5. global' = Cardinality(Active)' /\ \A u \in Users : users'[u] = Cardinality(ActiveOf(u))'
    <3>1. Cardinality(Active)' = Cardinality(Active)
        BY <1>1, <1>2, <2>1, CountsMove
    <3>2. \A u \in Users : Cardinality(ActiveOf(u))' = Cardinality(ActiveOf(u))
        BY <1>0, <1>1, <1>2, <2>1, OwnersMove
    <3> QED BY <1>1, <3>1, <3>2, AccountsAre DEF ReserveUpload, slotVars
  <2>6. reserved' = ReservedSum' /\ reserved' \in Nat
    <3>1. reserved' = reserved + bytes /\ reserved = ReservedSum
        BY <1>1, <1>4, AccountsAre
    <3>2. ReservedSum' = ReservedSum - put[p].reserve + put'[p].reserve /\ ReservedSum \in Nat
        BY <1>1, <2>1, ReservedMoves
    <3> QED BY <1>2, <1>3, <2>1, <3>1, <3>2
  <2>7. BlocksLeaveMinimum'
    <3>1. put[p].bytes = 0
        BY <1>1, <1>2 DEF LocalInv
    <3>2. BlockBytes(p) = 0
        BY <1>2, <3>1 DEF BlockBytes, Unwritten
    <3>3. CASE o \in Blocks \ files
      <4>1. BlockBytes(p)' = bytes
          BY <1>3, <2>1, <3>1, <3>3 DEF BlockBytes, Unwritten
      <4>2. BlockSum' = BlockSum + bytes /\ BlockSum \in Nat
          BY <1>1, <1>3, <2>1, <3>2, <4>1, BlockSumMoves
      <4>3. Bytes(files \cap Blocks) + OrphanBytes(Blocks) + BlockSum + bytes <= Capacity
          BY <1>1, <1>3, <1>4, <3>3, FitsLeavesMinimum
      <4>4. /\ Bytes(files' \cap Blocks) = Bytes(files \cap Blocks)
            /\ OrphanBytes(Blocks)' = OrphanBytes(Blocks)
          BY <2>3 DEF OrphanBytes
      <4>5. Bytes(files \cap Blocks) \in Nat /\ OrphanBytes(Blocks) \in Nat
          BY <1>1, BytesType, OrphanBytesType, ObjectAssumption DEF ObjectAssumption, TypeOK
      <4> QED BY <1>3, <4>2, <4>3, <4>4, <4>5, SpaceIs
    <3>4. CASE o \notin Blocks \ files
      <4>1. BlockBytes(p)' = 0
          BY <1>0, <2>1, <3>1, <3>4 DEF BlockBytes, Unwritten
      <4> QED BY <1>1, <2>1, <2>3, <3>2, <4>1, SpaceFrame
    <3> QED BY <3>3, <3>4
  <2>8. put[p].phase \notin Holding /\ put'[p].phase \notin Holding
      BY <1>2, <2>1 DEF Holding, Inside
  <2>9. /\ acknowledged' \subseteq Objects
        /\ global' \in 0 .. GlobalConcurrency
        /\ users' \in [Users -> 0 .. UserConcurrency]
      BY <1>1 DEF TypeOK, ReserveUpload, slotVars
  <2>10. UNCHANGED <<diskVars, budgetVars, gateVars>>
      BY DEF ReserveUpload
  <2> QED
      BY <2>1, <2>2, <2>4, <2>5, <2>6, <2>7, <2>8, <2>9, <2>10, SlotStep
<1>5. CASE Goto(p, "finish") /\ UNCHANGED reserved
  <2>1. "finish" \in Phases \ {"idle"}
      BY DEF Phases
  <2>2. /\ put'[p].phase = "finish" /\ put'[p].object = put[p].object
        /\ put'[p].reserve = put[p].reserve /\ put'[p].gate = put[p].gate
        /\ put'[p].bytes = put[p].bytes /\ put'[p].row = put[p].row
        /\ put'[p].ok = put[p].ok
      BY <1>1, <1>5, <2>1, GotoMoves
  <2>3. LocalInv(p)'
      BY <1>1, <1>2, <2>2 DEF LocalInv, At, Holding, Inside
  <2>4. FileInv(p)'
      BY <1>1, <1>2, <2>2 DEF FileInv, ReserveUpload, diskVars
  <2>5. BlockBytes(p)' <= BlockBytes(p)
      BY <1>1, <1>2, <2>2, HandlerType DEF BlockBytes, Unwritten
  <2>6. /\ "finish" \notin Holding /\ put[p].phase \notin Holding
        /\ "finish" \notin Inside /\ put[p].phase \notin Inside
      BY <1>2 DEF Holding, Inside
  <2> QED BY <1>2, <1>5, <2>1, <2>3, <2>4, <2>5, <2>6, QuietGoto DEF ReserveUpload
<1> QED BY <1>0, <1>4, <1>5 DEF ReserveUpload

-----------------------------------------------------------------------------
(* Charges.                                                                *)

Weight == [c \in Charge |-> Size[c.object]]

FreshOf(u) == {c \in charges : Owner[c.object] = u /\ ~ c.old}

LEMMA ChargeType ==
    ASSUME NEW c \in Charge
    PROVE  /\ c.id \in 1 .. MaxRow /\ c.id \in Nat /\ c.id # 0
           /\ c.object \in Objects /\ c.old \in BOOLEAN
           /\ Weight[c] = Size[c.object] /\ Weight[c] \in Nat
<1>1. c.id \in 1 .. MaxRow /\ c.object \in Objects /\ c.old \in BOOLEAN
    BY DEF Charge
<1> QED BY <1>1, SizeType, CapacityType DEF Weight

LEMMA ChargesFinite ==
    ASSUME NEW S \in SUBSET Charge, \A c, d \in S : c.id = d.id => c = d
    PROVE  IsFiniteSet(S)
<1> DEFINE f == [c \in S |-> c.id]
<1>1. \A c \in S : f[c] \in 1 .. MaxRow
    BY ChargeType
<1>2. f \in Injection(S, 1 .. MaxRow)
    BY <1>1 DEF Injection, IsInjective
<1>3. IsFiniteSet(1 .. MaxRow)
    BY FS_Interval, CapacityType
<1> QED BY <1>2, <1>3, FS_Injection

(* The charges of an owner, weighed by one function for all states.        *)
LEMMA UsedIs ==
    ASSUME TypeOK, RowInv, NEW u
    PROVE  /\ Used(u) = SumFunctionOnSet(Weight, FreshOf(u))
           /\ IsFiniteSet(FreshOf(u)) /\ FreshOf(u) \subseteq Charge
           /\ Used(u) \in Nat
<1> DEFINE f == [c \in charges |-> Size[c.object]]
<1>1. FreshOf(u) \subseteq charges /\ charges \subseteq Charge
    BY DEF TypeOK, FreshOf
<1>2. IsFiniteSet(FreshOf(u))
    BY <1>1, ChargesFinite DEF RowInv
<1>3. \A c \in FreshOf(u) : f[c] = Weight[c] /\ Weight[c] \in Nat
    BY <1>1, ChargeType
<1>4. Used(u) = SumFunctionOnSet(f, FreshOf(u))
  <2>1. {c \in ChargesOf(u) : ~ c.old} = FreshOf(u)
      BY DEF ChargesOf, FreshOf
  <2> QED BY <2>1 DEF Used
<1> HIDE DEF f
<1>5. SumFunctionOnSet(f, FreshOf(u)) = SumFunctionOnSet(Weight, FreshOf(u))
    BY <1>2, <1>3, SumSame
<1>6. SumFunctionOnSet(Weight, FreshOf(u)) \in Nat
    BY <1>2, <1>3, SumIsNat
<1> QED BY <1>1, <1>2, <1>4, <1>5, <1>6

LEMMA UsedIsNext ==
    ASSUME charges' \subseteq Charge, \A c, d \in charges' : c.id = d.id => c = d, NEW u
    PROVE  Used(u)' = SumFunctionOnSet(Weight, FreshOf(u)')
<1> DEFINE f == [c \in charges' |-> Size[c.object]]
<1>1. FreshOf(u)' \subseteq charges'
    BY DEF FreshOf
<1>2. IsFiniteSet(FreshOf(u)')
    BY <1>1, ChargesFinite
<1>3. \A c \in FreshOf(u)' : f[c] = Weight[c]
    BY <1>1, ChargeType
<1>4. Used(u)' = SumFunctionOnSet(f, FreshOf(u)')
  <2>1. {c \in ChargesOf(u)' : ~ c.old} = FreshOf(u)'
      BY DEF ChargesOf, FreshOf
  <2> QED BY <2>1 DEF Used
<1> HIDE DEF f
<1> QED BY <1>2, <1>3, <1>4, SumSame

(* Charges that go or grow old free budget.                                *)
LEMMA BudgetShrinks ==
    ASSUME TypeOK, RowInv, BudgetInv,
           charges' \subseteq Charge, \A c, d \in charges' : c.id = d.id => c = d,
           \A c \in charges' : ~ c.old => c \in charges
    PROVE  BudgetInv'
<1> SUFFICES ASSUME NEW u \in Users PROVE Used(u)' <= Budget
    BY DEF BudgetInv
<1>1. FreshOf(u)' \subseteq FreshOf(u)
    BY DEF FreshOf
<1>2. \A c \in FreshOf(u) : Weight[c] \in Nat /\ Weight[c] <= Weight[c]
    BY UsedIs, ChargeType
<1>3. SumFunctionOnSet(Weight, FreshOf(u)') <= SumFunctionOnSet(Weight, FreshOf(u))
    BY <1>1, <1>2, UsedIs, SumMonotone
<1>4. SumFunctionOnSet(Weight, FreshOf(u)') \in Nat
  <2>1. IsFiniteSet(FreshOf(u)')
      BY <1>1, UsedIs, FS_Subset
  <2> QED BY <1>1, <1>2, <2>1, SumIsNat
<1>5. Used(u) <= Budget /\ Used(u) \in Nat
    BY UsedIs DEF BudgetInv
<1> QED BY <1>3, <1>4, <1>5, UsedIs, UsedIsNext, CapacityType

(* The id of a new row is beyond those of the rows that are left.          *)
LEMMA NextRowIsFree ==
    ASSUME NEW rows \in SUBSET Charge
    PROVE  NextRow(rows) \in Nat \ {0} /\ \A c \in rows : c.id < NextRow(rows)
<1> DEFINE used == {c.id : c \in rows}
           ids == used \cup {0}
<1>1. ids \subseteq Nat /\ ids # {} /\ used \in SUBSET (1 .. MaxRow)
    BY ChargeType
<1>2. \A c \in rows : c.id \in ids /\ c.id \in Nat
    BY ChargeType
<1>3. NextRow(rows) = Max(ids) + 1
    BY DEF NextRow
<1>4. IsFiniteSet(1 .. MaxRow)
    BY FS_Interval, CapacityType
<1> HIDE DEF used
<1>5. IsFiniteSet(ids)
    BY <1>1, <1>4, FS_Subset, FS_AddElement
<1> HIDE DEF ids
<1>6. Max(ids) \in ids /\ \A n \in ids : n <= Max(ids)
    BY <1>1, <1>5, MaxOfNats
<1>7. Max(ids) \in Nat
    BY <1>1, <1>6
<1>8. ASSUME NEW c \in rows PROVE c.id < Max(ids) + 1
  <2>1. c.id \in Nat /\ c.id <= Max(ids)
      BY <1>2, <1>6
  <2> QED BY <1>7, <2>1
<1> QED BY <1>3, <1>7, <1>8

(* A step inside the gate that touches, beside its handler, only the disk  *)
(* and the budget.                                                         *)
LEMMA InsideStep ==
    ASSUME IInv, NEW p \in Puts, Moves(p),
           put[p].phase \in Inside, put'[p].phase \in Inside,
           put'[p].object = put[p].object, put'[p].reserve = put[p].reserve,
           put'[p].gate = put[p].gate,
           UNCHANGED <<acknowledged, slotVars, reserved, gateVars>>,
           files' \subseteq Objects, durable' \subseteq files',
           orphans' \in [Objects -> Nat], charges' \subseteq Charge, accepted' \subseteq Objects,
           LocalInv(p)', \A q \in Puts : FileInv(q)', RowInv', BudgetInv', BlocksLeaveMinimum'
    PROVE  IInv'
<1> USE DEF IInv, gateVars
<1>1. put[p].phase # "idle" /\ put'[p].phase # "idle"
    BY DEF Inside
<1>2. TypeOK'
    BY DEF TypeOK, Moves, slotVars
<1>3. AccountsExact'
    BY <1>1, AccountsFrame
<1>4. \A q \in Puts : LocalInv(q)'
    BY LocalFrame
<1>5. GateInv'
    BY GateFrame
<1> QED BY <1>2, <1>3, <1>4, <1>5

LEMMA ChargeBudgetStep ==
    ASSUME IInv, NEW p \in Puts, ChargeBudget(p) PROVE IInv'
<1>0. PICK o, kept, row : /\ o = put[p].object
                          /\ kept = charges \ {c \in ChargesOf(Owner[o]) : c.old}
                          /\ row = NextRow(kept)
    OBVIOUS
<1>1. /\ TypeOK /\ LocalInv(p) /\ FileInv(p) /\ RowInv /\ BudgetInv /\ BlocksLeaveMinimum
      /\ \A q \in Puts : FileInv(q)
    BY DEF IInv
<1>2. put[p].phase = "written" /\ o \in Objects /\ put[p].row = 0
    BY <1>0, <1>1 DEF ChargeBudget, LocalInv, At
<1>3. /\ kept \subseteq charges /\ kept \subseteq Charge
      /\ \A c \in charges : ~ c.old => c \in kept
    BY <1>0, <1>1 DEF TypeOK
<1>4. row \in Nat \ {0} /\ \A c \in kept : c.id < row
    BY <1>0, <1>1, <1>3, NextRowIsFree DEF RowInv
<1>5. CASE Goto(p, "cleanup") /\ UNCHANGED budgetVars
  <2>1. "cleanup" \in Phases \ {"idle"}
      BY DEF Phases
  <2>2. /\ put'[p].phase = "cleanup" /\ put'[p].object = put[p].object
        /\ put'[p].reserve = put[p].reserve /\ put'[p].gate = put[p].gate
        /\ put'[p].bytes = put[p].bytes /\ put'[p].row = put[p].row
        /\ put'[p].ok = put[p].ok
      BY <1>1, <1>5, <2>1, GotoMoves
  <2>3. LocalInv(p)'
      BY <1>1, <1>2, <2>2 DEF LocalInv, At, Holding, Inside
  <2>4. FileInv(p)'
      BY <1>1, <1>2, <2>2 DEF FileInv, ChargeBudget, diskVars
  <2>5. BlockBytes(p)' <= BlockBytes(p)
      BY <1>1, <1>2, <2>2, HandlerType DEF BlockBytes, Unwritten
  <2>6. /\ "cleanup" \in Holding /\ put[p].phase \in Holding
        /\ "cleanup" \in Inside /\ put[p].phase \in Inside
      BY <1>2 DEF Holding, Inside
  <2> QED BY <1>2, <1>5, <2>1, <2>3, <2>4, <2>5, <2>6, QuietGoto DEF ChargeBudget
<1>6. CASE /\ Size[o] <= Budget - Used(Owner[o]) /\ row <= MaxRow
           /\ charges' = kept \cup {[id |-> row, object |-> o, old |-> FALSE]}
           /\ put' = [put EXCEPT ![p].phase = "charged", ![p].row = row]
           /\ UNCHANGED accepted
  <2>1. row \in 1 .. MaxRow
      BY <1>4, <1>6, CapacityType
  <2>2. /\ Moves(p)
        /\ put'[p].phase = "charged" /\ put'[p].object = o
        /\ put'[p].reserve = put[p].reserve /\ put'[p].gate = put[p].gate
        /\ put'[p].bytes = put[p].bytes /\ put'[p].row = row
        /\ put'[p].ok = put[p].ok
    <3>1. put' = [put EXCEPT ![p].phase = "charged", ![p].row = row] /\ row \in 0 .. MaxRow
        BY <1>6, <2>1, CapacityType
    <3> QED BY <1>0, <1>1, <3>1, HandlerType DEF TypeOK, Moves, Handler, Phases
  <2>3. PICK new : new = [id |-> row, object |-> o, old |-> FALSE]
      OBVIOUS
  <2>4. /\ new \in Charge /\ new.id = row /\ new.object = o /\ new.old = FALSE
        /\ charges' = kept \cup {new} /\ charges' \subseteq Charge
    <3>1. charges' = kept \cup {new}
        BY <1>6, <2>3
    <3>2. new \in Charge /\ new.id = row /\ new.object = o /\ new.old = FALSE
        BY <1>2, <2>1, <2>3 DEF Charge
    <3> QED BY <1>3, <3>1, <3>2
  <2>5. \A c \in Charge : c.id \in Nat /\ c.id # 0
      BY ChargeType
  <2>6. \A c, d \in charges' : c.id = d.id => c = d
      BY <1>1, <1>3, <1>4, <2>4, <2>5 DEF RowInv
  <2>7. \A q \in Puts : put'[q].row # 0 =>
            \E c \in charges' : c.id = put'[q].row /\ c.object = put'[q].object /\ ~ c.old
    <3> SUFFICES ASSUME NEW q \in Puts, put'[q].row # 0
                 PROVE  \E c \in charges' :
                           c.id = put'[q].row /\ c.object = put'[q].object /\ ~ c.old
        OBVIOUS
    <3>1. CASE q = p
        BY <2>2, <2>4, <3>1
    <3>2. CASE q # p
      <4>1. put'[q] = put[q]
          BY <2>2, <3>2 DEF Moves
      <4>2. PICK c \in charges : c.id = put[q].row /\ c.object = put[q].object /\ ~ c.old
          BY <1>1, <4>1 DEF RowInv
      <4> QED BY <1>3, <2>4, <4>1, <4>2
    <3> QED BY <3>1, <3>2
  <2>8. \A q \in Puts \ {p} : put[q].row # 0 => put[q].row < row
    <3> SUFFICES ASSUME NEW q \in Puts \ {p}, put[q].row # 0 PROVE put[q].row < row
        OBVIOUS
    <3>1. PICK c \in charges : c.id = put[q].row /\ ~ c.old
        BY <1>1 DEF RowInv
    <3> QED BY <1>3, <1>4, <3>1
  <2>9. \A q, r \in Puts : put'[q].row = put'[r].row /\ put'[q].row # 0 => q = r
    <3>1. \A q \in Puts \ {p} : put'[q].row = put[q].row /\ put[q].row \in Nat
        BY <1>1, <2>2, HandlerType DEF Moves
    <3>2. \A q, r \in Puts \ {p} : put[q].row = put[r].row /\ put[q].row # 0 => q = r
        BY <1>1 DEF RowInv
    <3> QED BY <1>4, <2>2, <2>8, <3>1, <3>2
  <2>10. \A x \in accepted' : \E c \in charges' : c.object = x /\ ~ c.old /\ ~ InFlight(c)'
    <3> SUFFICES ASSUME NEW x \in accepted
                 PROVE  \E c \in charges' : c.object = x /\ ~ c.old /\ ~ InFlight(c)'
        BY <1>6
    <3>1. PICK c \in charges : c.object = x /\ ~ c.old /\ ~ InFlight(c)
        BY <1>1 DEF RowInv
    <3>2. c \in kept /\ c \in charges' /\ c.id < row
        BY <1>3, <1>4, <2>4, <3>1
    <3>3. \A q \in Puts \ {p} : put'[q].row # c.id
        BY <2>2, <3>1 DEF Moves, InFlight
    <3>4. put'[p].row # c.id
        BY <1>3, <1>4, <2>2, <2>5, <3>2
    <3> QED BY <3>1, <3>2, <3>3, <3>4 DEF InFlight
  <2>11. RowInv'
      BY <2>6, <2>7, <2>9, <2>10 DEF RowInv
  <2>12. BudgetInv'
    <3> SUFFICES ASSUME NEW u \in Users PROVE Used(u)' <= Budget
        BY DEF BudgetInv
    <3>1. /\ Used(u)' = SumFunctionOnSet(Weight, FreshOf(u)')
          /\ Used(u) = SumFunctionOnSet(Weight, FreshOf(u))
          /\ IsFiniteSet(FreshOf(u)) /\ FreshOf(u) \subseteq Charge
          /\ Used(u) \in Nat
        BY <1>1, <2>4, <2>6, UsedIs, UsedIsNext
    <3>2. CASE u = Owner[o]
      <4>1. FreshOf(u)' = FreshOf(u) \cup {new}
          BY <1>3, <2>4, <3>2 DEF FreshOf
      <4>2. new \notin FreshOf(u)
        <5>1. new \notin kept
            BY <1>3, <1>4, <2>4, <2>5
        <5> QED BY <1>3, <5>1 DEF FreshOf
      <4>3. \A c \in FreshOf(u) \cup {new} : Weight[c] \in Int
          BY <2>4, <3>1, ChargeType
      <4>4. Used(u)' = Used(u) + Weight[new]
          BY <3>1, <4>1, <4>2, <4>3, SumAdd
      <4>5. Weight[new] = Size[o] /\ Size[o] \in Nat
          BY <1>2, <2>4, ChargeType, SizeType
      <4>6. Size[o] <= Budget - Used(u)
          BY <1>6, <3>2
      <4> QED BY <3>1, <4>4, <4>5, <4>6, CapacityType
    <3>3. CASE u # Owner[o]
      <4>1. FreshOf(u)' = FreshOf(u)
          BY <1>3, <2>4, <3>3 DEF FreshOf
      <4> QED BY <1>1, <3>1, <4>1 DEF BudgetInv
    <3> QED BY <3>2, <3>3
  <2>13. LocalInv(p)'
      BY <1>0, <1>1, <1>2, <1>4, <2>2 DEF LocalInv, At, Holding, Inside
  <2>14. \A q \in Puts : FileInv(q)'
    <3>1. FileInv(p)'
        BY <1>0, <1>1, <1>2, <2>2 DEF FileInv, ChargeBudget, diskVars
    <3> QED BY <1>1, <2>2, <3>1, FileFrame DEF FileInv, ChargeBudget, diskVars
  <2>15. BlocksLeaveMinimum'
    <3>1. BlockBytes(p)' <= BlockBytes(p)
        BY <1>0, <1>1, <1>2, <2>2, HandlerType DEF BlockBytes, Unwritten
    <3> QED BY <1>1, <2>2, <3>1, SpaceFrame DEF ChargeBudget, diskVars
  <2>16. /\ files' \subseteq Objects /\ durable' \subseteq files'
         /\ orphans' \in [Objects -> Nat] /\ accepted' \subseteq Objects
      BY <1>1, <1>6 DEF TypeOK, ChargeBudget, diskVars
  <2>17. put[p].phase \in Inside /\ put'[p].phase \in Inside
      BY <1>2, <2>2 DEF Inside
  <2> QED
      BY <1>0, <2>2, <2>4, <2>11, <2>12, <2>13, <2>14, <2>15, <2>16, <2>17, InsideStep
         DEF ChargeBudget
<1> QED BY <1>0, <1>5, <1>6 DEF ChargeBudget

-----------------------------------------------------------------------------
(* Installation and cleanup.                                               *)

(* Two handlers past the gate are never about the same object.             *)
LEMMA InsideAlone ==
    ASSUME IInv, NEW p \in Puts, NEW q \in Puts, put[p].phase \in Inside,
           put[q].phase \in Inside, put[p].object = put[q].object
    PROVE  p = q
<1>1. /\ put[p].gate = locks[put[p].object] /\ put[p].gate # NoGate
      /\ put[q].gate = locks[put[q].object]
    BY GateTypes DEF Holding
<1> QED BY <1>1 DEF IInv, GateInv

LEMMA InstallStep ==
    ASSUME IInv, NEW p \in Puts, Install(p) PROVE IInv'
<1>0. PICK o : o = put[p].object
    OBVIOUS
<1>1. /\ TypeOK /\ LocalInv(p) /\ FileInv(p) /\ RowInv /\ BudgetInv /\ BlocksLeaveMinimum
      /\ \A q \in Puts : FileInv(q)
    BY DEF IInv
<1>2. /\ put[p].phase = "flushed" /\ o \in Objects /\ put[p].row # 0
      /\ put[p].bytes = Size[o] /\ o \notin files
    BY <1>0, <1>1 DEF Install, LocalInv, FileInv, At
<1>3. /\ files' = files \cup {o} /\ durable' = durable /\ charges' = charges
      /\ orphans' = orphans
      /\ accepted' = IF \E c \in charges : c.object = o /\ ~ c.old
                     THEN accepted \cup {o} ELSE accepted
      /\ put' = [put EXCEPT ![p].phase = "linked", ![p].bytes = 0, ![p].row = 0]
      /\ UNCHANGED <<acknowledged, slotVars, reserved, gateVars>>
    BY <1>0, <1>2 DEF Install, Publish
<1>4. /\ Moves(p)
      /\ put'[p].phase = "linked" /\ put'[p].object = o
      /\ put'[p].reserve = put[p].reserve /\ put'[p].gate = put[p].gate
      /\ put'[p].bytes = 0 /\ put'[p].row = 0 /\ put'[p].ok = put[p].ok
  <2>1. put' = [put EXCEPT ![p].phase = "linked", ![p].bytes = 0, ![p].row = 0]
      BY <1>3
  <2>2. PICK h : h = [put[p] EXCEPT !.phase = "linked", !.bytes = 0, !.row = 0]
      OBVIOUS
  <2>3. put[p] \in Handler /\ 0 \in 0 .. MaxRow /\ 0 \in Nat /\ "linked" \in Phases
      BY <1>1, CapacityType, HandlerType DEF Phases
  <2>4. h \in Handler
      BY <2>2, <2>3 DEF Handler
  <2>5. put' = [put EXCEPT ![p] = h]
      BY <1>1, <2>1, <2>2 DEF TypeOK
  <2>6. Moves(p) /\ put'[p] = h
      BY <1>1, <2>4, <2>5, MovesTo
  <2> QED BY <1>0, <2>2, <2>3, <2>6 DEF Handler
<1>5. put[p].phase \in Inside /\ put'[p].phase \in Inside
    BY <1>2, <1>4 DEF Inside
<1>6. LocalInv(p)'
    BY <1>0, <1>1, <1>2, <1>4 DEF LocalInv, At, Holding, Inside
<1>7. \A q \in Puts : FileInv(q)'
  <2>1. FileInv(p)'
      BY <1>0, <1>1, <1>2, <1>3, <1>4 DEF FileInv
  <2>2. \A q \in Puts \ {p} :
            put[q].phase \in {"temp", "written", "charged", "flushed"} => put[q].object \notin files'
      BY <1>0, <1>1, <1>3, <1>5, InsideAlone DEF FileInv, Inside
  <2> QED BY <1>1, <1>3, <1>4, <2>1, <2>2, FileFrame
<1>8. RowInv'
  <2>1. \A q \in Puts \ {p} : put'[q] = put[q]
      BY <1>4 DEF Moves
  <2>2. \A q \in Puts : put'[q].row # 0 =>
            \E c \in charges' : c.id = put'[q].row /\ c.object = put'[q].object /\ ~ c.old
    <3>1. \A q \in Puts : put'[q].row # 0 => put'[q] = put[q]
        BY <1>4, <2>1
    <3> QED BY <1>1, <1>3, <3>1 DEF RowInv
  <2>3. \A q, r \in Puts : put'[q].row = put'[r].row /\ put'[q].row # 0 => q = r
      BY <1>1, <1>4, <2>1 DEF RowInv
  <2>4. \A c \in charges : c.id # 0
      BY <1>1, ChargeType DEF TypeOK
  <2>5. \A c \in charges : ~ InFlight(c) => ~ InFlight(c)'
      BY <1>4, <2>1, <2>4 DEF InFlight
  <2>6. PICK d \in charges : d.id = put[p].row /\ d.object = o /\ ~ d.old
      BY <1>0, <1>1, <1>2 DEF RowInv
  <2>7. ~ InFlight(d)'
    <3> SUFFICES ASSUME NEW q \in Puts, put'[q].row = d.id PROVE FALSE
        BY DEF InFlight
    <3>1. q # p
        BY <1>4, <2>4
    <3>2. put[q].row = put[p].row
        BY <2>1, <2>6, <3>1
    <3> QED BY <1>1, <1>2, <3>1, <3>2 DEF RowInv
  <2>8. \A x \in accepted' : \E c \in charges' : c.object = x /\ ~ c.old /\ ~ InFlight(c)'
      BY <1>1, <1>3, <2>5, <2>6, <2>7 DEF RowInv
  <2> QED BY <1>1, <1>3, <2>2, <2>3, <2>8 DEF RowInv
<1>9. BudgetInv'
    BY <1>1, <1>3, BudgetFrame
<1>10. BlocksLeaveMinimum'
  <2>1. /\ Bytes(files \cap Blocks) \in Nat /\ OrphanBytes(Blocks) \in Nat
        /\ OrphanBytes(Blocks)' = OrphanBytes(Blocks)
      BY <1>1, <1>3, BytesType, OrphanBytesType, ObjectAssumption
         DEF ObjectAssumption, TypeOK, OrphanBytes
  <2>2. Size[o] \in Nat
      BY <1>2, SizeType
  <2>3. CASE o \in Blocks
    <3>1. BlockBytes(p) = Size[o] /\ BlockBytes(p)' = 0
        BY <1>0, <1>2, <1>4, <2>2, <2>3 DEF BlockBytes, Unwritten
    <3>2. Bytes(files' \cap Blocks) = Bytes(files \cap Blocks) + Size[o]
      <4>1. files' \cap Blocks = (files \cap Blocks) \cup {o} /\ o \notin files \cap Blocks
          BY <1>2, <1>3, <2>3
      <4>2. IsFiniteSet(files \cap Blocks)
          BY <1>1, BytesType DEF TypeOK
      <4>3. \A x \in (files \cap Blocks) \cup {o} : Size[x] \in Int
          BY <1>1, <1>2, SizeType DEF TypeOK
      <4> QED BY <4>1, <4>2, <4>3, SumAdd DEF Bytes
    <3>3. BlockSum' = BlockSum - Size[o] /\ BlockSum \in Nat
        BY <1>1, <1>4, <2>2, <3>1, BlockSumMoves
    <3> QED BY <1>1, <2>1, <2>2, <3>2, <3>3, SpaceIs, CapacityType
  <2>4. CASE o \notin Blocks
    <3>1. BlockBytes(p) = 0 /\ BlockBytes(p)' = 0
        BY <1>0, <1>4, <2>4 DEF BlockBytes
    <3>2. files' \cap Blocks = files \cap Blocks
        BY <1>3, <2>4
    <3>3. BlockSum' = BlockSum /\ BlockSum \in Nat
        BY <1>1, <1>4, <3>1, BlockSumMoves
    <3> QED BY <1>1, <2>1, <3>2, <3>3, SpaceIs, CapacityType
  <2> QED BY <2>3, <2>4
<1>11. /\ files' \subseteq Objects /\ durable' \subseteq files'
       /\ orphans' \in [Objects -> Nat] /\ charges' \subseteq Charge /\ accepted' \subseteq Objects
    BY <1>1, <1>2, <1>3 DEF TypeOK
<1> QED
    BY <1>0, <1>3, <1>4, <1>5, <1>6, <1>7, <1>8, <1>9, <1>10, <1>11, InsideStep

LEMMA CleanupStep ==
    ASSUME IInv, NEW p \in Puts, Cleanup(p) PROVE IInv'
<1>0. PICK o : o = put[p].object
    OBVIOUS
<1>1. /\ TypeOK /\ LocalInv(p) /\ FileInv(p) /\ RowInv /\ BudgetInv /\ BlocksLeaveMinimum
      /\ \A q \in Puts : FileInv(q)
    BY DEF IInv
<1>2. /\ put[p].phase = "cleanup" /\ o \in Objects
      /\ put[p].bytes # 0 => put[p].bytes = Size[o]
    BY <1>0, <1>1 DEF Cleanup, LocalInv, At
<1>3. PICK deleted \in BOOLEAN, removed \in BOOLEAN :
          /\ put[p].row = 0 => deleted
          /\ charges' = IF deleted THEN {c \in charges : c.id # put[p].row} ELSE charges
          /\ orphans' = IF removed \/ put[p].bytes = 0 THEN orphans
                        ELSE [orphans EXCEPT ![o] = @ + 1]
          /\ put' = [put EXCEPT ![p].phase = "unlock", ![p].ok = @ /\ deleted /\ removed,
                                ![p].bytes = 0, ![p].row = 0]
    BY <1>0 DEF Cleanup
<1>4. /\ Moves(p)
      /\ put'[p].phase = "unlock" /\ put'[p].object = o
      /\ put'[p].reserve = put[p].reserve /\ put'[p].gate = put[p].gate
      /\ put'[p].bytes = 0 /\ put'[p].row = 0
      /\ put'[p].ok => put[p].ok
  <2>1. put' = [put EXCEPT ![p].phase = "unlock", ![p].ok = @ /\ deleted /\ removed,
                           ![p].bytes = 0, ![p].row = 0]
      BY <1>3
  <2>2. PICK h : h = [put[p] EXCEPT !.phase = "unlock", !.ok = @ /\ deleted /\ removed,
                                    !.bytes = 0, !.row = 0]
      OBVIOUS
  <2>3. h \in Handler
    <3>1. put[p] \in Handler /\ 0 \in 0 .. MaxRow /\ 0 \in Nat /\ "unlock" \in Phases
        BY <1>1, CapacityType, HandlerType DEF Phases
    <3>2. (put[p].ok /\ deleted /\ removed) \in BOOLEAN
        OBVIOUS
    <3> QED BY <2>2, <3>1, <3>2 DEF Handler
  <2>4. put' = [put EXCEPT ![p] = h]
      BY <1>1, <2>1, <2>2 DEF TypeOK
  <2>5. Moves(p) /\ put'[p] = h
      BY <1>1, <2>3, <2>4, MovesTo
  <2>6. put[p] \in Handler
      BY <1>1, HandlerType
  <2> QED BY <1>0, <2>2, <2>5, <2>6 DEF Handler
<1>5. UNCHANGED <<files, durable, accepted, acknowledged, slotVars, reserved, gateVars>>
    BY DEF Cleanup
<1>6. put[p].phase \in Inside /\ put'[p].phase \in Inside
    BY <1>2, <1>4 DEF Inside
<1>7. LocalInv(p)'
    BY <1>0, <1>1, <1>2, <1>4 DEF LocalInv, At, Holding, Inside
<1>8. \A q \in Puts : FileInv(q)'
  <2>1. FileInv(p)'
      BY <1>0, <1>1, <1>2, <1>4, <1>5 DEF FileInv
  <2> QED BY <1>1, <1>4, <1>5, <2>1, FileFrame DEF FileInv
<1>9. /\ charges' \subseteq charges /\ charges' \subseteq Charge
      /\ \A c \in charges : c.id # put[p].row => c \in charges'
    BY <1>1, <1>3 DEF TypeOK
<1>10. \A c \in charges : c.id # 0
    BY <1>1, ChargeType DEF TypeOK
<1>11. RowInv'
  <2>1. \A q \in Puts \ {p} : put'[q] = put[q]
      BY <1>4 DEF Moves
  <2>2. ASSUME NEW q \in Puts, put'[q].row # 0
        PROVE  \E c \in charges' : c.id = put'[q].row /\ c.object = put'[q].object /\ ~ c.old
    <3>1. q # p /\ put'[q] = put[q] /\ put[q].row # 0
        BY <1>4, <2>1, <2>2
    <3>2. PICK c \in charges : c.id = put[q].row /\ c.object = put[q].object /\ ~ c.old
        BY <1>1, <3>1 DEF RowInv
    <3>3. put[q].row # put[p].row
        BY <1>1, <3>1 DEF RowInv
    <3> QED BY <1>9, <3>1, <3>2, <3>3
  <2>3. \A q, r \in Puts : put'[q].row = put'[r].row /\ put'[q].row # 0 => q = r
      BY <1>1, <1>4, <2>1 DEF RowInv
  <2>4. ASSUME NEW x \in accepted'
        PROVE  \E c \in charges' : c.object = x /\ ~ c.old /\ ~ InFlight(c)'
    <3>1. PICK c \in charges : c.object = x /\ ~ c.old /\ ~ InFlight(c)
        BY <1>1, <1>5, <2>4 DEF RowInv
    <3>2. c \in charges'
        BY <1>9, <3>1 DEF InFlight
    <3>3. ~ InFlight(c)'
        BY <1>4, <1>10, <2>1, <3>1 DEF InFlight
    <3> QED BY <3>1, <3>2, <3>3
  <2>5. \A c, d \in charges' : c.id = d.id => c = d
      BY <1>1, <1>9 DEF RowInv
  <2> QED BY <2>2, <2>3, <2>4, <2>5 DEF RowInv
<1>12. BudgetInv'
    BY <1>1, <1>9, BudgetShrinks DEF RowInv
<1>13. orphans' \in [Objects -> Nat]
    BY <1>1, <1>2, <1>3 DEF TypeOK
<1>14. BlocksLeaveMinimum'
  <2>1. Bytes(files' \cap Blocks) = Bytes(files \cap Blocks) /\ Bytes(files \cap Blocks) \in Nat
      BY <1>1, <1>5, BytesType DEF TypeOK
  <2>2. OrphanBytes(Blocks) \in Nat /\ Size[o] \in Nat
      BY <1>1, <1>2, OrphanBytesType, ObjectAssumption, SizeType DEF ObjectAssumption
  <2>3. BlockBytes(p)' = 0 /\ BlockBytes(p) \in Nat
      BY <1>1, <1>4, BlockBytesType DEF BlockBytes, Unwritten
  <2>4. OrphanBytes(Blocks)' <= OrphanBytes(Blocks) + BlockBytes(p) /\ OrphanBytes(Blocks)' \in Nat
    <3>1. CASE orphans' = orphans
      <4>1. OrphanBytes(Blocks)' = OrphanBytes(Blocks)
          BY <3>1 DEF OrphanBytes
      <4> QED BY <2>2, <2>3, <4>1
    <3>2. CASE put[p].bytes # 0 /\ orphans' = [orphans EXCEPT ![o] = @ + 1]
      <4> DEFINE f == [x \in Objects |-> orphans[x] * Size[x]]
                 g == [x \in Objects |-> orphans'[x] * Size[x]]
      <4>1. \A x \in Objects : f[x] \in Nat /\ g[x] \in Nat
          BY <1>1, <1>13, SizeType DEF TypeOK
      <4>2. \A x \in Objects \ {o} : g[x] = f[x]
          BY <1>1, <3>2 DEF TypeOK
      <4>3. g[o] = f[o] + Size[o]
        <5>1. orphans[o] \in Nat /\ orphans'[o] = orphans[o] + 1
            BY <1>1, <1>2, <3>2 DEF TypeOK
        <5>2. (orphans[o] + 1) * Size[o] = orphans[o] * Size[o] + Size[o]
            BY <2>2, <5>1
        <5> QED BY <1>2, <5>1, <5>2
      <4>4. OrphanBytes(Blocks) = SumFunctionOnSet(f, Blocks)
            /\ OrphanBytes(Blocks)' = SumFunctionOnSet(g, Blocks)
          BY DEF OrphanBytes
      <4>5. IsFiniteSet(Blocks) /\ Blocks \subseteq Objects
          BY ObjectAssumption, BytesType DEF ObjectAssumption
      <4> HIDE DEF f, g
      <4>6. CASE o \in Blocks
        <5>1. SumFunctionOnSet(g, Blocks) = SumFunctionOnSet(f, Blocks) - f[o] + g[o]
            BY <4>1, <4>2, <4>5, <4>6, SumUpdate
        <5>2. BlockBytes(p) = Size[o]
            BY <1>0, <1>2, <2>2, <3>2, <4>6 DEF BlockBytes, Unwritten
        <5>3. f[o] \in Nat
            BY <1>2, <4>1
        <5> QED BY <2>2, <4>3, <4>4, <5>1, <5>2, <5>3
      <4>7. CASE o \notin Blocks
        <5>1. SumFunctionOnSet(g, Blocks) = SumFunctionOnSet(f, Blocks)
            BY <4>2, <4>5, <4>7, SumSame
        <5> QED BY <2>2, <2>3, <4>4, <5>1
      <4> QED BY <4>6, <4>7
    <3> QED BY <1>3, <3>1, <3>2
  <2> QED BY <1>1, <1>4, <2>1, <2>2, <2>3, <2>4, BlockSumMoves, SpaceIs, CapacityType
<1>15. /\ files' \subseteq Objects /\ durable' \subseteq files' /\ accepted' \subseteq Objects
    BY <1>1, <1>5 DEF TypeOK
<1> QED
    BY <1>0, <1>4, <1>5, <1>6, <1>7, <1>8, <1>9, <1>11, <1>12, <1>13, <1>14, <1>15, InsideStep

-----------------------------------------------------------------------------
(* The window moves on.                                                    *)

LEMMA ExpireStep ==
    ASSUME IInv, NEW e \in charges, ~ InFlight(e), Expire(e) PROVE IInv'
<1> DEFINE aged == [e EXCEPT !.old = TRUE]
<1>1. TypeOK /\ RowInv /\ BudgetInv /\ AccountsExact /\ GateInv /\ BlocksLeaveMinimum
    BY DEF IInv
<1>2. aged \in Charge /\ aged.old /\ aged.id = e.id /\ e \in Charge
    BY <1>1 DEF TypeOK, Charge
<1> HIDE DEF aged
<1>3. charges' = (charges \ {e}) \cup {aged} /\ accepted' = accepted \ {e.object}
    BY DEF Expire, aged
<1>4. UNCHANGED <<diskVars, acknowledged, slotVars, reserved, gateVars, put>>
    BY DEF Expire
<1>5. TypeOK'
    BY <1>1, <1>2, <1>3, <1>4 DEF TypeOK, diskVars, slotVars, gateVars
<1>6. AccountsExact'
    BY <1>1, <1>4 DEF AccountsExact, slotVars, gateVars, At
<1>7. \A q \in Puts : LocalInv(q)' /\ FileInv(q)'
    BY <1>4 DEF IInv, LocalInv, FileInv, At, diskVars
<1>8. GateInv'
    BY <1>1, <1>4 DEF GateInv, gateVars
<1>9. \A c, d \in charges' : c.id = d.id => c = d
    BY <1>1, <1>2, <1>3 DEF RowInv
<1>10. RowInv'
  <2>1. ASSUME NEW q \in Puts, put'[q].row # 0
        PROVE  \E c \in charges' : c.id = put'[q].row /\ c.object = put'[q].object /\ ~ c.old
    <3>1. PICK c \in charges : c.id = put[q].row /\ c.object = put[q].object /\ ~ c.old
        BY <1>1, <1>4, <2>1 DEF RowInv
    <3>2. c # e
        BY <3>1 DEF InFlight
    <3> QED BY <1>3, <1>4, <3>1, <3>2
  <2>2. \A q, r \in Puts : put'[q].row = put'[r].row /\ put'[q].row # 0 => q = r
      BY <1>1, <1>4 DEF RowInv
  <2>3. ASSUME NEW x \in accepted'
        PROVE  \E c \in charges' : c.object = x /\ ~ c.old /\ ~ InFlight(c)'
    <3>1. PICK c \in charges : c.object = x /\ ~ c.old /\ ~ InFlight(c)
        BY <1>1, <1>3, <2>3 DEF RowInv
    <3>2. c # e
        BY <1>3, <2>3, <3>1
    <3>3. ~ InFlight(c)'
        BY <1>4, <3>1 DEF InFlight
    <3> QED BY <1>3, <3>1, <3>2, <3>3
  <2> QED BY <1>9, <2>1, <2>2, <2>3 DEF RowInv
<1>11. BudgetInv'
  <2>1. charges' \subseteq Charge
      BY <1>5 DEF TypeOK
  <2>2. \A c \in charges' : ~ c.old => c \in charges
      BY <1>2, <1>3
  <2> QED BY <1>1, <1>9, <2>1, <2>2, BudgetShrinks
<1>12. BlocksLeaveMinimum'
    BY <1>1, <1>4 DEF BlocksLeaveMinimum, diskVars, OrphanBytes, BlockBytes, Unwritten
<1> QED BY <1>5, <1>6, <1>7, <1>8, <1>10, <1>11, <1>12 DEF IInv

-----------------------------------------------------------------------------
(* A crash.                                                                *)

(* The handlers of a set that leave a temporary file of an object behind.  *)
LeftBy(T, o) == {q \in T : put[q].object = o /\ put[q].bytes # 0}

Left(T) == [o \in Objects |-> Cardinality(LeftBy(T, o)) * Size[o]]

Held == [q \in Puts |-> BlockBytes(q)]

(* Counting by object or by handler gives the same bytes.                  *)
LEMMA LeftIsHeld ==
    ASSUME IInv
    PROVE  /\ \A o \in Objects : Left(Puts)[o] \in Nat /\ Cardinality(LeftBy(Puts, o)) \in Nat
           /\ SumFunctionOnSet(Left(Puts), Blocks) <= BlockSum
<1>1. TypeOK /\ (\A q \in Puts : LocalInv(q)) /\ IsFiniteSet(Puts)
    BY ObjectAssumption DEF IInv, ObjectAssumption
<1>2. IsFiniteSet(Blocks) /\ Blocks \subseteq Objects
    BY BytesType, ObjectAssumption DEF ObjectAssumption
<1>3. \A T \in SUBSET Puts, o \in Objects :
          /\ IsFiniteSet(LeftBy(T, o)) /\ Cardinality(LeftBy(T, o)) \in Nat
          /\ Left(T)[o] \in Nat
  <2> SUFFICES ASSUME NEW T \in SUBSET Puts, NEW o \in Objects
               PROVE  /\ IsFiniteSet(LeftBy(T, o)) /\ Cardinality(LeftBy(T, o)) \in Nat
                      /\ Left(T)[o] \in Nat
      OBVIOUS
  <2>1. LeftBy(T, o) \in SUBSET Puts
      BY DEF LeftBy
  <2>2. IsFiniteSet(LeftBy(T, o)) /\ Cardinality(LeftBy(T, o)) \in Nat
      BY <1>1, <2>1, FS_Subset, FS_CardinalityType
  <2>3. Left(T)[o] = Cardinality(LeftBy(T, o)) * Size[o] /\ Size[o] \in Nat
      BY SizeType DEF Left
  <2> QED BY <2>2, <2>3
<1>4. \A q \in Puts : Held[q] \in Nat
    BY <1>1, BlockBytesType DEF Held
<1> DEFINE Fair(T) == SumFunctionOnSet(Left(T), Blocks) <= SumFunctionOnSet(Held, T)
<1>5. \A T \in SUBSET Puts : Fair(T)
  <2> SUFFICES ASSUME {T \in SUBSET Puts : ~ Fair(T)} # {} PROVE FALSE
      OBVIOUS
  <2>1. PICK T \in SUBSET Puts :
            ~ Fair(T) /\ \A U \in SUBSET Puts : ~ Fair(U) /\ U \subseteq T => U = T
    <3> DEFINE bad == {T \in SUBSET Puts : ~ Fair(T)}
    <3>1. bad \in SUBSET SUBSET Puts /\ bad # {}
        OBVIOUS
    <3>2. \A T \in bad : T \in SUBSET Puts /\ ~ Fair(T)
        OBVIOUS
    <3>3. \A T \in SUBSET Puts : ~ Fair(T) => T \in bad
        OBVIOUS
    <3> HIDE DEF bad, Fair
    <3>4. \E T \in bad : \A U \in bad : U \subseteq T => U = T
        BY <1>1, <3>1, Smallest
    <3> QED BY <3>2, <3>3, <3>4
  <2>2. T # {}
    <3>1. \A o \in Objects : LeftBy({}, o) = {}
        BY DEF LeftBy
    <3>2. \A o \in Objects : Left({})[o] = 0
        BY <3>1, FS_EmptySet, SizeType DEF Left
    <3>3. SumFunctionOnSet(Left({}), Blocks) = 0
        BY <1>2, <3>2, SumOfZeros
    <3>4. SumFunctionOnSet(Held, {}) = 0
        BY SumEmpty
    <3>5. Fair({})
        BY <3>3, <3>4
    <3> QED BY <2>1, <3>5
  <2>3. PICK x \in T : TRUE
      BY <2>2
  <2>4. PICK U : U = T \ {x}
      OBVIOUS
  <2>5. U \in SUBSET Puts /\ x \in Puts /\ x \notin U /\ T = U \cup {x} /\ IsFiniteSet(U)
      BY <1>1, <2>3, <2>4, FS_Subset
  <2>6. Fair(U)
      BY <2>1, <2>4, <2>5
  <2>7. SumFunctionOnSet(Held, T) = SumFunctionOnSet(Held, U) + Held[x]
      BY <1>4, <2>5, SumAdd
  <2>8. /\ SumFunctionOnSet(Held, U) \in Nat /\ Held[x] \in Nat
        /\ SumFunctionOnSet(Left(U), Blocks) \in Nat
      BY <1>2, <1>3, <1>4, <2>5, SumIsNat
  <2>9. CASE put[x].bytes # 0 /\ put[x].object \in Blocks
    <3>1. PICK b : b = put[x].object
        OBVIOUS
    <3>2. b \in Objects /\ b \in Blocks /\ Size[b] \in Nat
        BY <1>2, <2>9, <3>1, SizeType
    <3>3. \A o \in Objects \ {b} : LeftBy(T, o) = LeftBy(U, o)
        BY <2>5, <3>1 DEF LeftBy
    <3>4. LeftBy(T, b) = LeftBy(U, b) \cup {x} /\ x \notin LeftBy(U, b)
        BY <2>5, <2>9, <3>1 DEF LeftBy
    <3>5. Cardinality(LeftBy(T, b)) = Cardinality(LeftBy(U, b)) + 1
        BY <1>3, <2>5, <3>2, <3>4, FS_AddElement
    <3>6. Left(T)[b] = Left(U)[b] + Size[b]
      <4>1. Cardinality(LeftBy(U, b)) \in Nat
          BY <1>3, <2>5, <3>2
      <4>2. (Cardinality(LeftBy(U, b)) + 1) * Size[b] = Cardinality(LeftBy(U, b)) * Size[b] + Size[b]
          BY <3>2, <4>1
      <4> QED BY <3>2, <3>5, <4>2 DEF Left
    <3>7. \A o \in Blocks \ {b} : Left(T)[o] = Left(U)[o]
        BY <1>2, <3>3 DEF Left
    <3>8. \A o \in Blocks : Left(T)[o] \in Int /\ Left(U)[o] \in Int
        BY <1>2, <1>3, <2>5
    <3>9. SumFunctionOnSet(Left(T), Blocks)
            = SumFunctionOnSet(Left(U), Blocks) - Left(U)[b] + Left(T)[b]
        BY <1>2, <3>2, <3>7, <3>8, SumUpdate
    <3>10. Held[x] >= Size[b]
      <4>1. put[x].bytes = Size[b]
          BY <1>1, <2>5, <2>9, <3>1 DEF LocalInv
      <4>2. Held[x] = put[x].bytes + Unwritten(x) /\ Unwritten(x) \in Nat
          BY <1>1, <2>5, <2>9, HandlerType DEF Held, BlockBytes, Unwritten
      <4> QED BY <3>2, <4>1, <4>2
    <3>11. Left(U)[b] \in Nat
        BY <1>3, <2>5, <3>2
    <3> QED BY <2>1, <2>6, <2>7, <2>8, <3>2, <3>6, <3>9, <3>10, <3>11
  <2>10. CASE ~ (put[x].bytes # 0 /\ put[x].object \in Blocks)
    <3>1. \A o \in Blocks : LeftBy(T, o) = LeftBy(U, o)
        BY <2>5, <2>10 DEF LeftBy
    <3>2. \A o \in Blocks : Left(T)[o] = Left(U)[o]
        BY <1>2, <3>1 DEF Left
    <3>3. SumFunctionOnSet(Left(T), Blocks) = SumFunctionOnSet(Left(U), Blocks)
        BY <1>2, <3>2, SumSame
    <3> QED BY <2>1, <2>6, <2>7, <2>8, <3>3
  <2> QED BY <2>9, <2>10
<1>6. BlockSum = SumFunctionOnSet(Held, Puts)
    BY DEF BlockSum, SumFunction, Held
<1>7. Fair(Puts)
    BY <1>5
<1> QED BY <1>3, <1>6, <1>7

LEMMA IdleSum ==
    ASSUME NEW f, \A q \in Puts : f[q] = 0, DOMAIN f = Puts PROVE SumFunction(f) = 0
    BY SumOfZeros, ObjectAssumption DEF SumFunction, ObjectAssumption

(* With every handler idle and the counters at zero nothing is left over.  *)
LEMMA AllIdle ==
    ASSUME put' = [q \in Puts |-> Idle],
           global' = 0, users' = [u \in Users |-> 0], reserved' = 0,
           locks' = [o \in Objects |-> NoGate],
           gates' = [g \in Gates |-> [token |-> TRUE, refs |-> 0]]
    PROVE  /\ AccountsExact' /\ GateInv' /\ BlockSum' = 0
           /\ \A q \in Puts : LocalInv(q)' /\ FileInv(q)'
<1>1. \A q \in Puts : /\ put'[q] = Idle /\ put'[q].phase = "idle" /\ put'[q].gate = NoGate
                      /\ put'[q].reserve = 0 /\ put'[q].bytes = 0 /\ put'[q].row = 0
                      /\ put'[q].ok = FALSE /\ put'[q].object = NoObject
    BY DEF Idle
<1>2. NoGate \notin Gates
    BY GateAssumption DEF GateAssumption
<1>3. Active' = {} /\ (\A u \in Users : ActiveOf(u)' = {}) /\ \A g \in Gates : HoldersOf(g)' = {}
    BY <1>1, <1>2 DEF Active, ActiveOf, HoldersOf, At
<1>4. ReservedSum' = 0
  <2> DEFINE f == [q \in Puts |-> put'[q].reserve]
  <2>1. (\A q \in Puts : f[q] = 0) /\ DOMAIN f = Puts /\ ReservedSum' = SumFunction(f)
      BY <1>1 DEF ReservedSum
  <2> HIDE DEF f
  <2> QED BY <2>1, IdleSum
<1>5. BlockSum' = 0
  <2> DEFINE f == [q \in Puts |-> BlockBytes(q)']
  <2>1. \A q \in Puts : f[q] = 0
      BY <1>1 DEF BlockBytes, Unwritten
  <2>2. DOMAIN f = Puts /\ BlockSum' = SumFunction(f)
      BY DEF BlockSum
  <2> HIDE DEF f
  <2> QED BY <2>1, <2>2, IdleSum
<1>6. TokensExact'
    BY <1>1, <1>2 DEF TokensExact
<1>7. AccountsExact'
    BY <1>3, <1>4, <1>6, FS_EmptySet, AccountsAreNext
<1>8. GateInv'
    BY <1>1 DEF GateInv
<1>9. \A q \in Puts : LocalInv(q)' /\ FileInv(q)'
    BY <1>1 DEF LocalInv, FileInv, At, Holding, Inside
<1> QED BY <1>5, <1>7, <1>8, <1>9

LEMMA ForgetStep ==
    ASSUME IInv, Forget, files' \subseteq files, durable' \subseteq files'
    PROVE  IInv'
<1>1. TypeOK /\ RowInv /\ BudgetInv /\ BlocksLeaveMinimum
    BY DEF IInv
<1>2. /\ AccountsExact' /\ GateInv' /\ BlockSum' = 0
      /\ \A q \in Puts : LocalInv(q)' /\ FileInv(q)'
    BY AllIdle DEF Forget
<1>3. UNCHANGED <<charges, accepted, acknowledged>>
    BY DEF Forget, budgetVars
<1>4. \A o \in Objects : orphans'[o] = orphans[o] + Cardinality(LeftBy(Puts, o))
    BY DEF Forget, LeftBy
<1>5. orphans' \in [Objects -> Nat]
  <2>1. \A o \in Objects : orphans[o] + Cardinality(LeftBy(Puts, o)) \in Nat
      BY <1>1, LeftIsHeld DEF TypeOK
  <2>2. orphans' = [o \in Objects |-> orphans[o] + Cardinality(LeftBy(Puts, o))]
      BY DEF Forget, LeftBy
  <2> QED BY <2>1, <2>2
<1>6. TypeOK'
  <2>1. /\ global' \in 0 .. GlobalConcurrency /\ users' \in [Users -> 0 .. UserConcurrency]
        /\ reserved' \in Nat
      BY LimitTypes DEF Forget
  <2>2. /\ locks' \in [Objects -> Gates \cup {NoGate}]
        /\ gates' \in [Gates -> [token : BOOLEAN, refs : Nat]]
        /\ put' \in [Puts -> Handler]
      BY IdleIsHandler DEF Forget
  <2> QED BY <1>1, <1>3, <1>5, <2>1, <2>2 DEF TypeOK
<1>7. RowInv'
  <2>1. \A q \in Puts : put'[q].row = 0
      BY DEF Forget, Idle
  <2>2. \A c \in charges : c.id # 0
      BY <1>1, ChargeType DEF TypeOK
  <2>3. \A c \in charges : ~ InFlight(c)'
      BY <2>1, <2>2 DEF InFlight
  <2> QED BY <1>1, <1>3, <2>1, <2>3 DEF RowInv
<1>8. BudgetInv'
    BY <1>1, <1>3, BudgetFrame
<1>9. BlocksLeaveMinimum'
  <2> DEFINE f == [o \in Objects |-> orphans[o] * Size[o]]
             h == [o \in Objects |-> orphans'[o] * Size[o]]
  <2>1. IsFiniteSet(Blocks) /\ Blocks \subseteq Objects
      BY BytesType, ObjectAssumption DEF ObjectAssumption
  <2>2. \A o \in Objects : f[o] \in Nat /\ h[o] = f[o] + Left(Puts)[o]
    <3> SUFFICES ASSUME NEW o \in Objects
                 PROVE  f[o] \in Nat /\ h[o] = f[o] + Left(Puts)[o]
        OBVIOUS
    <3>1. PICK c \in Nat : c = Cardinality(LeftBy(Puts, o))
        BY LeftIsHeld
    <3>2. /\ orphans[o] \in Nat /\ Size[o] \in Nat /\ orphans'[o] = orphans[o] + c
          /\ Left(Puts)[o] = c * Size[o]
        BY <1>1, <1>4, <3>1, SizeType DEF TypeOK, Left
    <3>3. (orphans[o] + c) * Size[o] = orphans[o] * Size[o] + c * Size[o]
        BY <3>2
    <3> QED BY <3>2, <3>3
  <2>3. OrphanBytes(Blocks) = SumFunctionOnSet(f, Blocks)
        /\ OrphanBytes(Blocks)' = SumFunctionOnSet(h, Blocks)
      BY DEF OrphanBytes
  <2>4. \A o \in Blocks : f[o] \in Int /\ Left(Puts)[o] \in Int /\ h[o] = f[o] + Left(Puts)[o]
      BY <2>1, <2>2, LeftIsHeld
  <2> HIDE DEF f, h
  <2>5. SumFunctionOnSet(h, Blocks)
          = SumFunctionOnSet(f, Blocks) + SumFunctionOnSet(Left(Puts), Blocks)
      BY <2>1, <2>4, SumPlus
  <2>6. /\ SumFunctionOnSet(f, Blocks) \in Nat /\ SumFunctionOnSet(Left(Puts), Blocks) \in Nat
        /\ SumFunctionOnSet(Left(Puts), Blocks) <= BlockSum
      BY <2>1, <2>2, LeftIsHeld, SumIsNat
  <2>7. BlockSum \in Nat
    <3>1. \A q \in Puts : Held[q] \in Nat
        BY <1>1, BlockBytesType DEF Held
    <3>2. BlockSum = SumFunctionOnSet(Held, Puts)
        BY DEF BlockSum, SumFunction, Held
    <3> QED BY <3>1, <3>2, SumIsNat, ObjectAssumption DEF ObjectAssumption
  <2>8. /\ Bytes(files' \cap Blocks) <= Bytes(files \cap Blocks)
        /\ Bytes(files' \cap Blocks) \in Nat /\ Bytes(files \cap Blocks) \in Nat
    <3>1. files \cap Blocks \in SUBSET Objects /\ files' \cap Blocks \in SUBSET (files \cap Blocks)
        BY <1>1 DEF TypeOK
    <3> QED BY <3>1, BytesMonotone, BytesType
  <2> QED BY <1>1, <1>2, <2>3, <2>5, <2>6, <2>7, <2>8, SpaceIs, CapacityType
<1> QED BY <1>2, <1>6, <1>7, <1>8, <1>9 DEF IInv

-----------------------------------------------------------------------------
(* The invariant.                                                          *)

LEMMA InitIInv == Init => IInv
<1> SUFFICES ASSUME Init PROVE IInv
    OBVIOUS
<1> USE DEF Init
<1>1. \A q \in Puts : /\ put[q] = Idle /\ put[q].phase = "idle" /\ put[q].gate = NoGate
                      /\ put[q].reserve = 0 /\ put[q].bytes = 0 /\ put[q].row = 0
                      /\ put[q].ok = FALSE /\ put[q].object = NoObject
    BY DEF Idle
<1>2. TypeOK
    BY LimitTypes, IdleIsHandler DEF TypeOK
<1>3. AccountsExact
  <2>1. NoGate \notin Gates
      BY GateAssumption DEF GateAssumption
  <2>2. Active = {} /\ (\A u \in Users : ActiveOf(u) = {}) /\ \A g \in Gates : HoldersOf(g) = {}
      BY <1>1, <2>1 DEF Active, ActiveOf, HoldersOf, At
  <2>3. ReservedSum = 0
    <3> DEFINE f == [q \in Puts |-> put[q].reserve]
    <3>1. (\A q \in Puts : f[q] = 0) /\ DOMAIN f = Puts /\ ReservedSum = SumFunction(f)
        BY <1>1 DEF ReservedSum
    <3> HIDE DEF f
    <3> QED BY <3>1, IdleSum
  <2>4. TokensExact
      BY <1>1, <2>1 DEF TokensExact
  <2> QED BY <2>2, <2>3, <2>4, FS_EmptySet, AccountsAre
<1>4. \A q \in Puts : LocalInv(q) /\ FileInv(q)
    BY <1>1 DEF LocalInv, FileInv, At, Holding, Inside
<1>5. GateInv /\ RowInv
    BY <1>1 DEF GateInv, RowInv
<1>6. BudgetInv
  <2> SUFFICES ASSUME NEW u \in Users PROVE Used(u) <= Budget
      BY DEF BudgetInv
  <2>1. FreshOf(u) = {}
      BY DEF FreshOf
  <2>2. Used(u) = 0
      BY <1>2, <1>5, <2>1, UsedIs, SumEmpty
  <2> QED BY <2>2, CapacityType
<1>7. BlocksLeaveMinimum
  <2> DEFINE f == [o \in Objects |-> orphans[o] * Size[o]]
             h == [q \in Puts |-> BlockBytes(q)]
  <2>1. IsFiniteSet(Blocks) /\ \A o \in Blocks : f[o] = 0
      BY BytesType, ObjectAssumption, SizeType DEF ObjectAssumption
  <2>2. OrphanBytes(Blocks) = SumFunctionOnSet(f, Blocks)
      BY DEF OrphanBytes
  <2>3. (\A q \in Puts : h[q] = 0) /\ DOMAIN h = Puts /\ BlockSum = SumFunction(h)
      BY <1>1 DEF BlockBytes, Unwritten, BlockSum
  <2> HIDE DEF f, h
  <2>4. OrphanBytes(Blocks) = 0
      BY <2>1, <2>2, SumOfZeros
  <2>5. BlockSum = 0
      BY <2>3, IdleSum
  <2>6. Bytes(files \cap Blocks) = 0
    <3>1. files \cap Blocks = {}
        OBVIOUS
    <3> QED BY <3>1, SumEmpty DEF Bytes
  <2> QED BY <2>4, <2>5, <2>6, SpaceIs, CapacityType
<1> QED BY <1>2, <1>3, <1>4, <1>5, <1>6, <1>7 DEF IInv

LEMMA HandleKeepsIInv ==
    ASSUME IInv, NEW p \in Puts, Handle(p) PROVE IInv'
<1>1. CASE \E o \in Objects : AcquireUpload(p, o)
    BY <1>1, AcquireUploadStep
<1>2. CASE Advance(p)
    BY <1>2, ReserveUploadStep, JoinStep, StatStep, ReplayStep, WriteTemporaryStep,
       ChargeBudgetStep, SyncTemporaryStep, InstallStep, SyncParentStep, CleanupStep,
       UnlockStep, LeaveStep, FinishStep
       DEF Advance
<1>3. CASE TakeGate(p)
    BY <1>3, TakeGateStep
<1>4. CASE GiveUp(p)
    BY <1>4, GiveUpStep
<1>5. CASE Fail(p)
    BY <1>5, FailStep
<1> QED BY <1>1, <1>2, <1>3, <1>4, <1>5 DEF Handle

LEMMA CrashStep ==
    ASSUME IInv, Crash \/ PowerLoss PROVE IInv'
<1>1. files' \subseteq files /\ durable' \subseteq files' /\ Forget
    BY DEF IInv, TypeOK, Crash, PowerLoss
<1> QED BY <1>1, ForgetStep

LEMMA StutterKeepsIInv ==
    ASSUME IInv, UNCHANGED vars PROVE IInv'
<1>1. UNCHANGED <<files, durable, orphans, charges, accepted, acknowledged, global, users,
                  reserved, locks, gates, put>>
    BY DEF vars, diskVars, budgetVars, slotVars, gateVars
<1>2. TypeOK'
    BY <1>1 DEF IInv, TypeOK
<1>3. AccountsExact'
    BY <1>1 DEF IInv, AccountsExact, At
<1>4. \A q \in Puts : LocalInv(q)' /\ FileInv(q)'
    BY <1>1 DEF IInv, LocalInv, FileInv, At
<1>5. GateInv'
    BY <1>1 DEF IInv, GateInv
<1>6. RowInv'
    BY <1>1 DEF IInv, RowInv, InFlight
<1>7. BudgetInv'
    BY <1>1, BudgetFrame DEF IInv
<1>8. BlocksLeaveMinimum'
    BY <1>1 DEF IInv, BlocksLeaveMinimum, OrphanBytes, BlockBytes, Unwritten
<1> QED BY <1>2, <1>3, <1>4, <1>5, <1>6, <1>7, <1>8 DEF IInv

LEMMA NextKeepsIInv == IInv /\ [Next]_vars => IInv'
<1> SUFFICES ASSUME IInv, [Next]_vars PROVE IInv'
    OBVIOUS
<1>1. CASE \E p \in Puts : Handle(p)
    BY <1>1, HandleKeepsIInv
<1>2. CASE \E c \in charges : ~ InFlight(c) /\ Expire(c)
    BY <1>2, ExpireStep
<1>3. CASE Crash \/ PowerLoss
    BY <1>3, CrashStep
<1>4. CASE UNCHANGED vars
    BY <1>4, StutterKeepsIInv
<1> QED BY <1>1, <1>2, <1>3, <1>4 DEF Next

LEMMA Invariance == Spec => []IInv
    BY InitIInv, NextKeepsIInv, PTL DEF Spec

-----------------------------------------------------------------------------
(* The theorems.                                                           *)

(* Every variable keeps its type; in particular no limit of the            *)
(* configuration is exceeded and a synced entry is that of a file.         *)
THEOREM TypeCorrect == Spec => []TypeOK
<1>1. IInv => TypeOK
    BY DEF IInv
<1> QED BY <1>1, Invariance, PTL

(* The counters in memory are the sums of what the handlers hold: however  *)
(* a PUT ends, by success, refusal, error, deadline or crash, it gives     *)
(* back its slot, its reservation, its token and its reference once.       *)
THEOREM AccountsStayExact == Spec => []AccountsExact
<1>1. IInv => AccountsExact
    BY DEF IInv
<1> QED BY <1>1, Invariance, PTL

(* An object that a handler found absent past the gate is absent when it   *)
(* links its file, so no PUT sees another one's file appear.               *)
THEOREM AbsentUntilLinked == Spec => []StillAbsent
<1>1. IInv => StillAbsent
    BY DEF IInv, FileInv, StillAbsent
<1> QED BY <1>1, Invariance, PTL

(* Each accepted object of an owner has a charge in the window, so their   *)
(* bytes are at most those of the charges, and these fit the budget.       *)
LEMMA AcceptedAreCharged == IInv => AcceptedWithinBudget
<1> SUFFICES ASSUME IInv, NEW u \in Users
             PROVE  Bytes({o \in accepted : Owner[o] = u}) <= Budget
    BY DEF AcceptedWithinBudget
<1> DEFINE A == {o \in accepted : Owner[o] = u}
           w == [o \in A |-> CHOOSE c \in charges : c.object = o /\ ~ c.old]
<1>1. TypeOK /\ RowInv /\ BudgetInv
    BY DEF IInv
<1>2. A \in SUBSET Objects
    BY <1>1 DEF TypeOK
<1>3. \A o \in A : w[o] \in charges /\ w[o].object = o /\ ~ w[o].old
    BY <1>1 DEF RowInv
<1>4. \A o \in A : w[o] \in FreshOf(u)
    BY <1>3 DEF FreshOf
<1>5. \A o, x \in A : w[o] = w[x] => o = x
    BY <1>3
<1>6. Used(u) = SumFunctionOnSet(Weight, FreshOf(u)) /\ IsFiniteSet(FreshOf(u))
      /\ FreshOf(u) \subseteq Charge /\ Used(u) \in Nat
    BY <1>1, UsedIs
<1>7. \A o \in A : Size[o] \in Nat /\ Size[o] <= Weight[w[o]]
  <2> SUFFICES ASSUME NEW o \in A PROVE Size[o] \in Nat /\ Size[o] <= Weight[w[o]]
      OBVIOUS
  <2>1. w[o] \in Charge /\ w[o].object = o
      BY <1>3, <1>4, <1>6
  <2>2. Weight[w[o]] = Size[o]
      BY <2>1, ChargeType
  <2>3. Size[o] \in Nat
      BY <1>2, SizeType
  <2> QED BY <2>2, <2>3
<1>8. \A c \in FreshOf(u) : Weight[c] \in Nat
    BY <1>6, ChargeType
<1>9. IsFiniteSet(A) /\ Bytes(A) \in Nat
    BY <1>2, BytesType
<1> HIDE DEF A, w
<1>10. SumFunctionOnSet(Size, A) <= SumFunctionOnSet(Weight, FreshOf(u))
    BY <1>4, <1>5, <1>6, <1>7, <1>8, <1>9, SumInjection
<1>11. Bytes(A) <= Used(u) /\ Used(u) <= Budget
    BY <1>1, <1>6, <1>10 DEF Bytes, BudgetInv
<1>12. Bytes(A) <= Budget
    BY <1>6, <1>9, <1>11, CapacityType
<1> QED BY <1>12 DEF A

(* The bytes that uploads of one user install in a window stay within the  *)
(* budget, whatever is refunded, pruned or left by a crash meanwhile.      *)
THEOREM BudgetHolds == Spec => []AcceptedWithinBudget
    BY AcceptedAreCharged, Invariance, PTL

(* Installed blocks, temporary files of blocks, those a crash left behind  *)
(* and the reservations not yet written fit above the minimum kept free.   *)
THEOREM MinimumStaysFree == Spec => []BlocksLeaveMinimum
<1>1. IInv => BlocksLeaveMinimum
    BY DEF IInv
<1> QED BY <1>1, Invariance, PTL

-----------------------------------------------------------------------------
(* The handlers implement the store.                                       *)

LEMMA InitIsStoreInit == Init => Store!Init
    BY DEF Init, Store!Init

(* Each step links, syncs or acknowledges one object, loses what was not   *)
(* synced, or is invisible to the users of the store.                      *)
LEMMA StepIsStoreStep == IInv /\ [Next]_vars => [Store!Next]_(Store!vars)
<1> SUFFICES ASSUME IInv, [Next]_vars PROVE [Store!Next]_(Store!vars)
    OBVIOUS
<1>1. TypeOK /\ \A q \in Puts : LocalInv(q) /\ FileInv(q)
    BY DEF IInv
<1>2. ASSUME UNCHANGED <<files, durable, acknowledged>> PROVE [Store!Next]_(Store!vars)
    BY <1>2 DEF Store!vars
<1>3. ASSUME NEW p \in Puts, Handle(p) PROVE [Store!Next]_(Store!vars)
  <2>1. ~ At(p, "idle") => put[p].object \in Objects
      BY <1>1 DEF LocalInv
  <2>2. CASE Install(p)
    <3>1. put[p].object \notin files /\ put[p].object \in Objects
        BY <1>1, <2>1, <2>2 DEF Install, FileInv, At
    <3>2. Store!Link(put[p].object)
        BY <2>2, <3>1 DEF Install, Store!Link
    <3> QED BY <3>1, <3>2 DEF Store!Next
  <2>3. CASE Replay(p) \/ SyncParent(p)
    <3>1. put[p].object \in files /\ put[p].object \in Objects
        BY <1>1, <2>1, <2>3 DEF Replay, SyncParent, FileInv, At
    <3>2. Store!Sync(put[p].object)
        BY <2>3, <3>1 DEF Replay, SyncParent, budgetVars, Store!Sync
    <3> QED BY <3>1, <3>2 DEF Store!Next
  <2>4. CASE Finish(p)
    <3>1. CASE put[p].ok
      <4>1. put[p].object \in durable /\ put[p].object \in Objects
          BY <1>1, <2>1, <2>4, <3>1 DEF Finish, FileInv, At
      <4>2. Store!Acknowledge(put[p].object)
          BY <2>4, <3>1, <4>1 DEF Finish, diskVars, Store!Acknowledge
      <4> QED BY <4>1, <4>2 DEF Store!Next
    <3>2. CASE ~ put[p].ok
        BY <1>2, <2>4, <3>2 DEF Finish, diskVars
    <3> QED BY <3>1, <3>2
  <2>5. CASE \/ \E o \in Objects : AcquireUpload(p, o)
             \/ ReserveUpload(p) \/ Join(p) \/ TakeGate(p) \/ GiveUp(p) \/ Stat(p)
             \/ WriteTemporary(p) \/ ChargeBudget(p) \/ SyncTemporary(p) \/ Fail(p)
             \/ Cleanup(p) \/ Unlock(p) \/ Leave(p)
      BY <1>2, <2>5
         DEF AcquireUpload, ReserveUpload, Join, TakeGate, GiveUp, Stat, WriteTemporary,
             ChargeBudget, SyncTemporary, Fail, Cleanup, Unlock, Leave, diskVars
  <2> QED BY <1>3, <2>2, <2>3, <2>4, <2>5 DEF Handle, Advance
<1>4. CASE \E c \in charges : ~ InFlight(c) /\ Expire(c)
    BY <1>2, <1>4 DEF Expire, diskVars
<1>5. CASE Crash
    BY <1>2, <1>5 DEF Crash, Forget
<1>6. CASE PowerLoss
  <2>1. Store!PowerLoss
      BY <1>6 DEF PowerLoss, Forget, Store!PowerLoss
  <2> QED BY <2>1 DEF Store!Next
<1>7. CASE UNCHANGED vars
    BY <1>2, <1>7 DEF vars, diskVars
<1> QED BY <1>3, <1>4, <1>5, <1>6, <1>7 DEF Next

(* An object appears once, whole, under its id, is never replaced, and is  *)
(* there for good once a PUT of it has been answered with success: the     *)
(* handlers implement ObjectStore.                                         *)
THEOREM HandlersStoreObjects == Spec => StoresObjects
<1>1. Init => Store!Init
    BY InitIsStoreInit
<1>2. IInv /\ [Next]_vars => [Store!Next]_(Store!vars)
    BY StepIsStoreStep
<1> QED BY <1>1, <1>2, Invariance, PTL DEF Spec, StoresObjects, Store!Spec
=============================================================================
