------------------------- MODULE GarbageCollection -------------------------
(***************************************************************************)
(* A data directory over its whole life: the server of HeadPublication,    *)
(* the offline collector of internal/storage/gc.go and the machine losing  *)
(* power.                                                                  *)
(*                                                                         *)
(* The data lock keeps server and collector apart (lock_unix.go), so       *)
(* the collector runs only while the server is down; it may be stopped     *)
(* between any two of its steps, and the server that starts next goes on   *)
(* with what it left.                                                      *)
(***************************************************************************)
EXTENDS HeadPublication

CONSTANT Blocks   \* the contents that are blocks: marked, but not read

ASSUME BlockAssumption == Blocks \subseteq Contents

VARIABLES
    gc,    \* the collector
    aged   \* object files whose modification time is before the cutoff

allVars == <<vars, gc, aged>>

Collector ==
    [phase   : {"closed", "mark", "delete"},
     work    : SUBSET Commits,    \* the stack of markCommitGraph and the roots left
     marked  : SUBSET Objects,
     victims : SUBSET Objects]    \* what remains of the plan

Closed == [phase |-> "closed", work |-> {}, marked |-> {}, victims |-> {}]

serverVars == <<graph, historyVars, running, limiterVars, req>>

(* publishedRoots: every Head and every row of published_commits.          *)
Roots == published \cup ({head} \ {NoCommit})

(* OpenGarbageCollector takes the data lock exclusively before it reads.   *)
Open ==
    /\ ~ running
    /\ gc.phase = "closed"
    /\ gc' = [Closed EXCEPT !.phase = "mark", !.work = Roots]
    /\ UNCHANGED <<serverVars, objectVars, aged>>

(* One turn of markCommitGraph.  Metadata that cannot be read ends the run *)
(* before anything is deleted; a block is marked by its name alone.        *)
Unreadable(c) == ~ ({c} \cup (graph.snapshot[c] \ Blocks) \subseteq stored)

(* Mutant of Parents: an absent parent is not left out.                    *)
ParentsOrNone(c) == {graph.first[c], graph.second[c]}

Parents(c) == {graph.first[c], graph.second[c]} \ {NoCommit}

(* Mutant of Marks: the blocks of a file are not marked.                   *)
MarksMetadata(c) == {c} \cup (graph.snapshot[c] \ Blocks)

Marks(c) == {c} \cup graph.snapshot[c]

(* Mutant of MarkCommit: a commit that cannot be read is passed over.      *)
MarkReadable ==
    /\ gc.phase = "mark"
    /\ \E c \in gc.work :
          IF Unreadable(c)
          THEN gc' = [gc EXCEPT !.work = @ \ {c}]
          ELSE LET marked == gc.marked \cup Marks(c)
               IN  gc' = [gc EXCEPT !.marked = marked,
                                    !.work = (@ \cup Parents(c)) \ marked]
    /\ UNCHANGED <<serverVars, objectVars, aged>>

MarkCommit ==
    /\ gc.phase = "mark"
    /\ \E c \in gc.work :
          \/ Unreadable(c) /\ gc' = Closed
          \/ /\ ~ Unreadable(c)
             /\ LET marked == gc.marked \cup Marks(c)
                IN  gc' = [gc EXCEPT !.marked = marked,
                                     !.work = (@ \cup Parents(c)) \ marked]
    /\ UNCHANGED <<serverVars, objectVars, aged>>

(* plan: the object files that are neither marked nor too young.           *)
Plan ==
    /\ gc.phase = "mark"
    /\ gc.work = {}
    /\ gc' = [gc EXCEPT !.phase = "delete",
                        !.victims = (stored \ gc.marked) \cap aged]
    /\ UNCHANGED <<serverVars, objectVars, aged>>

(* Remove one file of the plan and sync its directory.                     *)
Delete ==
    /\ gc.phase = "delete"
    /\ \E o \in gc.victims :
          /\ stored' = stored \ {o}
          /\ durable' = durable \ {o}
          /\ aged' = aged \ {o}
          /\ gc' = [gc EXCEPT !.victims = @ \ {o}]
    /\ UNCHANGED serverVars

(* The run is over, was a dry run, failed, or was killed.                  *)
Close ==
    /\ gc.phase # "closed"
    /\ gc' = Closed
    /\ UNCHANGED <<serverVars, objectVars, aged>>

(* The grace period of a file passes.                                      *)
Age(o) ==
    /\ o \in stored \ aged
    /\ gc.phase = "closed"
    /\ aged' = aged \cup {o}
    /\ UNCHANGED <<vars, gc>>

(* The machine stops: files whose directory entry was never synced may be  *)
(* gone when it comes back, and what is still there is on disk.            *)
PowerLoss ==
    /\ \E lost \in SUBSET (stored \ durable) :
          /\ stored' = stored \ lost
          /\ durable' = stored \ lost
          /\ aged' = aged \ lost
    /\ running' = FALSE
    /\ global' = 0 /\ validating' = FALSE /\ others' = 0
    /\ req' = [r \in Requests |-> Idle]
    /\ gc' = Closed
    /\ UNCHANGED <<graph, historyVars>>

DirectoryInit == Init /\ gc = Closed /\ aged = {}

(* Mutant of Serve: the data lock does not keep server and collector apart.*)
ServeUnlocked == Next /\ UNCHANGED <<gc, aged>>

(* The server runs under the shared data lock: not beside the collector.   *)
Serve == gc.phase = "closed" /\ Next /\ UNCHANGED <<gc, aged>>

Collect == Open \/ MarkCommit \/ Plan \/ Delete \/ Close

DirectoryNext == Serve \/ Collect \/ \E o \in Objects : Age(o)

DirectorySpec == DirectoryInit /\ [][DirectoryNext]_allVars

(* The same with a machine that may lose power.                            *)
PowerSpec == DirectoryInit /\ [][DirectoryNext \/ PowerLoss]_allVars

-----------------------------------------------------------------------------
(* Types of the collector's state.                                         *)
DirectoryTypeOK ==
    /\ TypeOK
    /\ gc \in Collector
    /\ aged \subseteq stored

(* What the published history needs: its commits and their snapshots.      *)
Needed == published \cup UNION {graph.snapshot[c] : c \in published}

(* The plan of a run never holds an object the history needs, although a   *)
(* run reads the history through commits it may find unreadable, shares    *)
(* contents with unpublished uploads, and follows runs that were cut short.*)
PlanSparesHistory == gc.victims \cap Needed = {}

(* Nothing but a loss of power makes a hole in the published history: an   *)
(* acknowledged upload may be collected before it is published, and then   *)
(* the commit that names it is not published until it is back.             *)
HistoryComplete ==
    [][PowerLoss \/ Needed' \ stored' \subseteq Needed \ stored]_allVars

(* An object the history needs and whose directory entry was synced stays, *)
(* whatever crashes, collections and power losses follow.                  *)
SyncedHistorySurvives ==
    [][\A o \in Needed \cap durable : o \in durable']_allVars
=============================================================================
