---------------------- MODULE GarbageCollectionProofs ----------------------
(***************************************************************************)
(* Proofs about GarbageCollection: what the collector and losses of power  *)
(* leave of the published history, for every history and every number of   *)
(* handlers.  The server's own steps are those of HeadPublication, and its *)
(* inductive invariant, which says nothing of the objects of the history,  *)
(* is kept by the steps added here.                                        *)
(***************************************************************************)
EXTENDS GarbageCollection, HeadPublicationProofs

(* A server that is down has forgotten its handlers; the collector works   *)
(* only while it is down.                                                  *)
LockInv ==
    /\ gc.phase # "closed" => ~ running
    /\ ~ running => \A r \in Requests : req[r] = Idle

(* A run starts from every published commit, so each of them is marked or  *)
(* still waits, whatever the links between them; and a marked commit has   *)
(* its snapshot marked.                                                    *)
MarkInv ==
    gc.phase = "mark" =>
        /\ published \subseteq gc.work \cup gc.marked
        /\ \A c \in gc.marked \cap Commits : graph.snapshot[c] \subseteq gc.marked

CollectorInv ==
    /\ gc \in Collector
    /\ aged \subseteq stored
    /\ gc.phase # "delete" => gc.victims = {}
    /\ MarkInv
    /\ PlanSparesHistory

DirectoryInv == IInv /\ LockInv /\ CollectorInv

LEMMA ClosedInv ==
    ASSUME gc' = Closed, aged' \subseteq stored'
    PROVE  CollectorInv'
    BY DEF Closed, Collector, CollectorInv, MarkInv, PlanSparesHistory

LEMMA DirectoryInitInv == DirectoryInit => DirectoryInv
<1> SUFFICES ASSUME DirectoryInit PROVE DirectoryInv
    OBVIOUS
<1>1. IInv
    BY InitInv DEF DirectoryInit
<1>2. LockInv
    BY DEF DirectoryInit, Init, Closed, LockInv
<1>3. CollectorInv
    BY DEF DirectoryInit, Closed, Collector, CollectorInv, MarkInv, PlanSparesHistory
<1> QED BY <1>1, <1>2, <1>3 DEF DirectoryInv

(* The server.                                                             *)
LEMMA ServeInv ==
    ASSUME DirectoryInv, Serve
    PROVE  DirectoryInv'
<1>1. IInv' /\ PublishesStored
    BY StepInv, StepPublishesStored DEF DirectoryInv, Serve
<1>2. LockInv'
  <2>1. CASE Crash \/ Start
      BY <2>1 DEF Serve, Crash, Start, DirectoryInv, LockInv
  <2>2. CASE ~ (Crash \/ Start)
    <3>1. running /\ running' = running /\ gc' = gc
        BY <2>2 DEF Serve, Next, Begin, Handle, At, Admit, ValidateCandidate, VisitSource,
                    CheckSource, UpdateHead, Respond, Abandon, OtherLibrary, LinkObject,
                    SyncObject
    <3> QED BY <3>1 DEF DirectoryInv, LockInv
  <2> QED BY <2>1, <2>2
<1>3. CollectorInv'
    BY <1>1 DEF Serve, DirectoryInv, CollectorInv, MarkInv, PlanSparesHistory, PublishesStored
<1> QED BY <1>1, <1>2, <1>3 DEF DirectoryInv

(* What the collector does to the invariant of the server: while it works  *)
(* there is no handler that could miss an object.                          *)
LEMMA OfflineInv ==
    ASSUME DirectoryInv, ~ running, UNCHANGED serverVars,
           stored' \subseteq stored, durable' \subseteq stored'
    PROVE  IInv' /\ LockInv'
<1>1. /\ UNCHANGED <<graph, historyVars, running, limiterVars, req>>
      /\ \A r \in Requests : req[r] = Idle
    BY DEF serverVars, DirectoryInv, LockInv
<1>2. TypeOK' /\ LimiterInv'
  <2>1. LimiterInv'
      BY <1>1, SlotsKept DEF DirectoryInv, IInv
  <2> QED BY <1>1, <2>1 DEF DirectoryInv, IInv, TypeOK, historyVars, limiterVars, Acyclic
<1>3. HistoryInv'
    BY <1>1, HistoryFrame DEF DirectoryInv, IInv
<1>4. \A r \in Requests : RequestInv(r)'
    BY <1>1, IdleRequest
<1>5. LockInv'
    BY <1>1 DEF LockInv
<1> QED BY <1>2, <1>3, <1>4, <1>5 DEF IInv

(* The steps that leave the whole server and its objects alone.            *)
LEMMA BesideInv ==
    ASSUME DirectoryInv, UNCHANGED vars, gc'.phase # "closed" => ~ running
    PROVE  IInv' /\ LockInv'
<1>1. IInv'
    BY StepInv DEF DirectoryInv
<1>2. LockInv'
    BY DEF DirectoryInv, LockInv, vars
<1> QED BY <1>1, <1>2

LEMMA OpenInv ==
    ASSUME DirectoryInv, Open
    PROVE  DirectoryInv'
<1>1. /\ ~ running /\ UNCHANGED vars /\ UNCHANGED aged
      /\ gc' = [phase |-> "mark", work |-> Roots, marked |-> {}, victims |-> {}]
    BY DEF Open, Closed, serverVars, vars
<1>2. Roots \subseteq Commits
    BY DEF Roots, DirectoryInv, IInv, TypeOK, CommitOrNone
<1>3. CollectorInv'
    BY <1>1, <1>2 DEF DirectoryInv, CollectorInv, Collector, MarkInv, PlanSparesHistory,
                      Roots, vars, objectVars, historyVars
<1> QED BY <1>1, <1>3, BesideInv DEF DirectoryInv

LEMMA MarkCommitInv ==
    ASSUME DirectoryInv, MarkCommit
    PROVE  DirectoryInv'
<1>1. UNCHANGED vars /\ UNCHANGED aged /\ ~ running
    BY DEF MarkCommit, serverVars, vars, DirectoryInv, LockInv
<1>2. CASE gc' = Closed
  <2>1. CollectorInv'
      BY <1>1, <1>2, ClosedInv DEF DirectoryInv, CollectorInv, vars, objectVars
  <2> QED BY <1>1, <2>1, BesideInv DEF DirectoryInv
<1>3. ASSUME NEW c \in gc.work, gc.phase = "mark",
             gc' = [gc EXCEPT !.marked = gc.marked \cup Marks(c),
                              !.work = (gc.work \cup Parents(c))
                                          \ (gc.marked \cup Marks(c))]
      PROVE  DirectoryInv'
  <2>1. gc \in Collector /\ graph' = graph /\ published' = published /\ stored' = stored
      BY <1>1 DEF DirectoryInv, CollectorInv, vars, objectVars, historyVars
  <2>2. /\ c \in Commits /\ Parents(c) \subseteq Commits
        /\ graph.snapshot[c] \subseteq Contents
        /\ Contents \cap Commits = {}
    <3>1. c \in Commits
        BY <1>3, <2>1 DEF Collector
    <3> QED BY <3>1, FirstParentIsCommit, CommitAssumption
            DEF CommitAssumption, Parents, CommitOrNone, DirectoryInv, IInv
  <2>3. /\ gc'.phase = "mark" /\ gc'.victims = gc.victims
        /\ gc'.marked = gc.marked \cup {c} \cup graph.snapshot[c]
        /\ gc'.work = (gc.work \cup Parents(c)) \ gc'.marked
        /\ gc' \in Collector
      BY <1>3, <2>1, <2>2 DEF Collector, Marks, Objects
  <2>4. /\ published \subseteq gc.work \cup gc.marked
        /\ \A d \in gc.marked \cap Commits : graph.snapshot[d] \subseteq gc.marked
        /\ gc.victims = {}
      BY <1>3 DEF DirectoryInv, CollectorInv, MarkInv
  <2>5. CollectorInv'
    <3>1. MarkInv'
        BY <2>1, <2>2, <2>3, <2>4 DEF MarkInv
    <3> QED BY <1>1, <2>1, <2>3, <2>4, <3>1
            DEF DirectoryInv, CollectorInv, PlanSparesHistory, vars, objectVars
  <2> QED BY <1>1, <2>5, BesideInv DEF DirectoryInv
<1> QED BY <1>2, <1>3 DEF MarkCommit

LEMMA PlanInv ==
    ASSUME DirectoryInv, Plan
    PROVE  DirectoryInv'
<1>1. UNCHANGED vars /\ UNCHANGED aged /\ ~ running
    BY DEF Plan, serverVars, vars, DirectoryInv, LockInv
<1>2. /\ gc \in Collector /\ gc.phase = "mark" /\ gc.work = {}
      /\ gc' = [gc EXCEPT !.phase = "delete", !.victims = (stored \ gc.marked) \cap aged]
      /\ stored \subseteq Objects
    BY DEF Plan, DirectoryInv, CollectorInv, IInv, TypeOK
<1>3. /\ gc'.phase = "delete" /\ gc'.victims = (stored \ gc.marked) \cap aged
      /\ gc' \in Collector
    BY <1>2 DEF Collector
<1>4. Needed \subseteq gc.marked
  <2>1. published \subseteq gc.marked /\ published \subseteq Commits
      BY <1>2 DEF DirectoryInv, CollectorInv, MarkInv, IInv, TypeOK
  <2>2. \A c \in published : graph.snapshot[c] \subseteq gc.marked
      BY <1>2, <2>1 DEF DirectoryInv, CollectorInv, MarkInv
  <2> QED BY <2>1, <2>2 DEF Needed
<1>5. Needed' = Needed
    BY <1>1 DEF Needed, vars, historyVars
<1>6. CollectorInv'
    BY <1>1, <1>3, <1>4, <1>5
    DEF DirectoryInv, CollectorInv, MarkInv, PlanSparesHistory, vars, objectVars
<1> QED BY <1>1, <1>6, BesideInv DEF DirectoryInv

LEMMA DeleteInv ==
    ASSUME DirectoryInv, Delete
    PROVE  DirectoryInv'
<1>1. PICK o \in gc.victims :
          /\ stored' = stored \ {o} /\ durable' = durable \ {o} /\ aged' = aged \ {o}
          /\ gc' = [gc EXCEPT !.victims = @ \ {o}]
    BY DEF Delete
<1>2. gc.phase = "delete" /\ ~ running /\ UNCHANGED serverVars
    BY DEF Delete, DirectoryInv, LockInv
<1>3. IInv' /\ LockInv'
    BY <1>1, <1>2, OfflineInv DEF DirectoryInv, IInv, TypeOK
<1>4. Needed' = Needed
    BY <1>2 DEF Needed, serverVars, historyVars
<1>5. CollectorInv'
  <2>1. /\ gc' \in Collector /\ gc'.phase = "delete"
        /\ gc'.victims = gc.victims \ {o}
      BY <1>1, <1>2 DEF DirectoryInv, CollectorInv, Collector
  <2> QED BY <1>1, <1>4, <2>1
          DEF DirectoryInv, CollectorInv, MarkInv, PlanSparesHistory
<1> QED BY <1>3, <1>5 DEF DirectoryInv

LEMMA CloseInv ==
    ASSUME DirectoryInv, Close
    PROVE  DirectoryInv'
<1>1. UNCHANGED vars /\ UNCHANGED aged /\ gc' = Closed /\ gc'.phase = "closed"
    BY DEF Close, serverVars, vars, Closed
<1>2. CollectorInv'
    BY <1>1, ClosedInv DEF DirectoryInv, CollectorInv, vars, objectVars
<1> QED BY <1>1, <1>2, BesideInv DEF DirectoryInv

LEMMA AgeInv ==
    ASSUME DirectoryInv, NEW o \in Objects, Age(o)
    PROVE  DirectoryInv'
<1>1. CollectorInv'
    BY DEF Age, vars, objectVars, historyVars, DirectoryInv, CollectorInv, MarkInv,
           PlanSparesHistory, Needed
<1> QED BY <1>1, BesideInv DEF Age, DirectoryInv, LockInv

LEMMA PowerLossInv ==
    ASSUME DirectoryInv, PowerLoss
    PROVE  DirectoryInv'
<1>1. PICK lost \in SUBSET (stored \ durable) :
          stored' = stored \ lost /\ durable' = stored \ lost /\ aged' = aged \ lost
    BY DEF PowerLoss
<1>2. /\ running' = FALSE /\ global' = 0 /\ validating' = FALSE /\ others' = 0
      /\ req' = [r \in Requests |-> Idle]
      /\ gc' = Closed /\ UNCHANGED <<graph, historyVars>>
    BY DEF PowerLoss
<1>3. TypeOK'
  <2>1. 0 \in 0 .. GlobalConcurrency
      BY LimitAssumption DEF LimitAssumption
  <2>2. req' \in [Requests -> Request]
      BY <1>2, IdleIsRequest
  <2> QED BY <1>1, <1>2, <2>1, <2>2
          DEF DirectoryInv, IInv, TypeOK, historyVars, Acyclic
<1>4. LimiterInv'
  <2>1. \A r \in Requests : req'[r].phase \notin Slotted
      BY <1>2 DEF Idle, Slotted
  <2> QED BY <1>2, <2>1 DEF LimiterInv
<1>5. HistoryInv'
    BY <1>2, HistoryFrame DEF DirectoryInv, IInv
<1>6. \A r \in Requests : req'[r] = Idle /\ RequestInv(r)'
    BY <1>2, IdleRequest
<1>7. LockInv'
    BY <1>2, <1>6 DEF LockInv, Closed
<1>8. CollectorInv'
    BY <1>1, <1>2, ClosedInv DEF DirectoryInv, CollectorInv
<1> QED BY <1>3, <1>4, <1>5, <1>6, <1>7, <1>8 DEF DirectoryInv, IInv

LEMMA DirectoryStutter ==
    ASSUME DirectoryInv, UNCHANGED allVars
    PROVE  DirectoryInv'
<1>1. UNCHANGED vars /\ gc' = gc /\ aged' = aged
    BY DEF allVars
<1>2. CollectorInv'
    BY <1>1 DEF DirectoryInv, CollectorInv, MarkInv, PlanSparesHistory, Needed,
                vars, objectVars, historyVars
<1> QED BY <1>1, <1>2, BesideInv DEF DirectoryInv, LockInv

LEMMA DirectoryStep == DirectoryInv /\ [DirectoryNext \/ PowerLoss]_allVars => DirectoryInv'
    BY ServeInv, OpenInv, MarkCommitInv, PlanInv, DeleteInv, CloseInv, AgeInv,
       PowerLossInv, DirectoryStutter
    DEF DirectoryNext, Collect

LEMMA DirectoryInvariance == PowerSpec => []DirectoryInv
    BY DirectoryInitInv, DirectoryStep, PTL DEF PowerSpec

-----------------------------------------------------------------------------
(* Steps.                                                                  *)

(* Short of a loss of power, what the history needs and lacks only shrinks:*)
(* a publication brings objects that are stored, and a deletion spares     *)
(* what is needed.                                                         *)
LEMMA StepMakesNoHole ==
    ASSUME DirectoryInv, [DirectoryNext]_allVars
    PROVE  Needed' \ stored' \subseteq Needed \ stored
<1>1. CASE Serve
  <2>1. PublishesStored
      BY <1>1, StepPublishesStored DEF Serve, DirectoryInv
  <2> QED BY <2>1 DEF PublishesStored, Needed
<1>2. CASE Delete
  <2>1. PICK o \in gc.victims : stored' = stored \ {o}
      BY <1>2 DEF Delete
  <2>2. o \notin Needed
      BY <2>1 DEF DirectoryInv, CollectorInv, PlanSparesHistory
  <2>3. Needed' = Needed
      BY <1>2 DEF Delete, Needed, serverVars, historyVars
  <2> QED BY <2>1, <2>2, <2>3
<1>3. CASE UNCHANGED vars
    BY <1>3 DEF vars, historyVars, objectVars, Needed
<1> QED BY <1>1, <1>2, <1>3
        DEF DirectoryNext, Collect, Open, MarkCommit, Plan, Close, Age,
            serverVars, vars, allVars

LEMMA StepKeepsSynced ==
    ASSUME DirectoryInv, [DirectoryNext \/ PowerLoss]_allVars,
           NEW o \in Needed \cap durable
    PROVE  o \in durable'
<1>1. CASE PowerLoss
    BY <1>1 DEF PowerLoss, DirectoryInv, IInv, TypeOK
<1>2. CASE Delete
    BY <1>2 DEF Delete, DirectoryInv, CollectorInv, PlanSparesHistory
<1>3. CASE durable \subseteq durable'
    BY <1>3
<1>4. CASE Serve
    BY <1>3, <1>4
    DEF Serve, Next, Begin, Handle, Admit, ValidateCandidate, VisitSource, CheckSource,
        UpdateHead, Respond, Abandon, OtherLibrary, LinkObject, SyncObject, Crash, Start,
        objectVars
<1> QED BY <1>1, <1>2, <1>3, <1>4
        DEF DirectoryNext, Collect, Open, MarkCommit, Plan, Close, Age,
            objectVars, vars, allVars

-----------------------------------------------------------------------------
(* The server's tables and limiter, the object files and the collector's   *)
(* plan keep their types through collections, crashes and losses of power. *)
THEOREM DirectoryTypeCorrect == PowerSpec => []DirectoryTypeOK
<1>1. DirectoryInv => DirectoryTypeOK
    BY DEF DirectoryInv, IInv, CollectorInv, DirectoryTypeOK
<1> QED BY <1>1, DirectoryInvariance, PTL

(* No object a published commit needs is ever in a plan of the collector,  *)
(* however its run was cut short and whatever it could not read.           *)
THEOREM PlansSpareHistory == PowerSpec => []PlanSparesHistory
<1>1. DirectoryInv => PlanSparesHistory
    BY DEF DirectoryInv, CollectorInv
<1> QED BY <1>1, DirectoryInvariance, PTL

(* Only a loss of power adds to what the published history lacks.          *)
THEOREM OnlyPowerLossMakesHoles == PowerSpec => HistoryComplete
<1>1. ASSUME DirectoryInv, [DirectoryNext \/ PowerLoss]_allVars
      PROVE  [PowerLoss \/ Needed' \ stored' \subseteq Needed \ stored]_allVars
    BY <1>1, StepMakesNoHole
<1> QED BY <1>1, DirectoryInvariance, PTL DEF PowerSpec, HistoryComplete

(* What the history needs and was synced once is never lost.               *)
THEOREM SyncedObjectsSurvive == PowerSpec => SyncedHistorySurvives
<1>1. ASSUME DirectoryInv, [DirectoryNext \/ PowerLoss]_allVars
      PROVE  [\A o \in Needed \cap durable : o \in durable']_allVars
    BY <1>1, StepKeepsSynced
<1> QED BY <1>1, DirectoryInvariance, PTL DEF PowerSpec, SyncedHistorySurvives

(* Without losses of power the published history is complete at all times, *)
(* collections included: HistoryHasNoHole for the whole life of the data   *)
(* directory.                                                              *)
THEOREM CollectionsMakeNoHole == DirectorySpec => []PublishedIsComplete
<1>1. DirectoryInit => DirectoryInv /\ Needed \subseteq stored
    BY DirectoryInitInv DEF DirectoryInit, Init, Needed
<1>2. DirectoryInv /\ Needed \subseteq stored /\ [DirectoryNext]_allVars
          => (DirectoryInv /\ Needed \subseteq stored)'
    BY DirectoryStep, StepMakesNoHole
<1>3. DirectoryInv /\ Needed \subseteq stored => PublishedIsComplete
  <2>1. Needed \subseteq stored => PublishedStored
      BY DEF Needed, PublishedStored
  <2> QED BY <2>1, CompleteIsLinkedAndStored DEF DirectoryInv
<1> QED BY <1>1, <1>2, <1>3, PTL DEF DirectorySpec

(* The rows of the database keep telling the truth about the history when  *)
(* objects are gone: roles, version and conflicts do not depend on them.   *)
THEOREM RowsSurvivePowerLoss ==
    PowerSpec => [](RolesSound /\ VersionCountsMainline /\ NoRoleConflict
                       /\ ConflictMeansProgress)
<1>1. DirectoryInv => /\ RolesSound /\ VersionCountsMainline
                      /\ NoRoleConflict /\ ConflictMeansProgress
    BY DEF DirectoryInv, IInv, HistoryInv, RequestInv, ReplyInv, NoRoleConflict,
           ConflictMeansProgress
<1> QED BY <1>1, DirectoryInvariance, PTL
=============================================================================
