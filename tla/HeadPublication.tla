-------------------------- MODULE HeadPublication --------------------------
(***************************************************************************)
(* Publication of the Head of one library by the server                    *)
(* (internal/library/head.go over internal/storage/libraries.go).          *)
(*                                                                         *)
(* A PUT of the Head is not one step of the server.  The handler reads the *)
(* current Head, takes a validation slot, walks the candidate commit and   *)
(* the commits its second parent introduces while other requests upload    *)
(* objects and publish Heads, gives the slot back, and only then runs the  *)
(* transaction that compares Head and version with what it read at first.  *)
(* Each of these is an action here; a crash may fall between any two.      *)
(*                                                                         *)
(* Commits are natural numbers.  A commit id is the digest of bytes that   *)
(* name its parents, so a parent always exists before its child: its       *)
(* number is smaller.  Directories, files and blocks are the members of    *)
(* Contents; what a commit needs of them is a set (its snapshot).          *)
(***************************************************************************)
EXTENDS Integers, FiniteSets

CONSTANTS
    Commits,               \* commit ids
    Contents,              \* ids of directories, files and blocks
    Graphs,                \* the contents the commit objects may have
    Requests,              \* handlers of PUT /head that may run at once
    Uploaded,              \* objects uploaded before the behaviour begins
    MaxCommitDepth,        \* bound on the length of the second-parent chain
    MaxIntroducedCommits,  \* bound on the commits one publication introduces
    GlobalConcurrency      \* validation slots shared by all libraries

NoCommit == 0              \* SQL NULL, or an absent parent

Objects == Commits \cup Contents

CommitOrNone == Commits \cup {NoCommit}

(* The content of every commit object.  refused holds the commits whose    *)
(* author is another user or whose snapshot breaks a structural rule.      *)
CommitGraph ==
    [first    : [Commits -> CommitOrNone],
     second   : [Commits -> CommitOrNone],
     snapshot : [Commits -> SUBSET Contents],
     refused  : SUBSET Commits]

(* Parents are older than their child, and only a commit with a first      *)
(* parent has a second one (a decoded parent list has at most two entries).*)
Acyclic(g) ==
    \A c \in Commits :
        /\ g.first[c] < c
        /\ g.second[c] < c
        /\ g.first[c] = NoCommit => g.second[c] = NoCommit

ASSUME CommitAssumption ==
    /\ Commits \subseteq Nat \ {NoCommit}
    /\ IsFiniteSet(Commits)
    /\ Contents \cap CommitOrNone = {}

ASSUME GraphAssumption ==
    \A g \in Graphs : g \in CommitGraph /\ Acyclic(g)

ASSUME LimitAssumption ==
    /\ IsFiniteSet(Requests)
    /\ Uploaded \subseteq Objects
    /\ MaxCommitDepth \in Nat \ {0}
    /\ MaxIntroducedCommits \in Nat \ {0}
    /\ GlobalConcurrency \in Nat \ {0}

VARIABLES
    graph,       \* content of the commit objects; fixed, since ids are digests
    head,        \* libraries.head_commit_id
    version,     \* libraries.head_version
    published,   \* table published_commits
    role,        \* table published_commit_roles
    stored,      \* object files a reader of the data directory sees
    durable,     \* those whose directory entry has been synced
    running,     \* the server process is up
    global,      \* headValidationLimiter.global
    validating,  \* this library is in headValidationLimiter.libraries
    others,      \* slots held by validations of other libraries
    req          \* the handlers of PUT /head

historyVars == <<head, version, published, role>>
objectVars  == <<stored, durable>>
limiterVars == <<global, validating, others>>
vars == <<graph, historyVars, objectVars, running, limiterVars, req>>

-----------------------------------------------------------------------------
(* Roles of published commits.                                             *)

Unpublished    == [kind |-> "none", mainline |-> NoCommit]
Mainline(c)    == [kind |-> "mainline", mainline |-> c]
MergeSource(c) == [kind |-> "merge-source", mainline |-> c]

Roles == {Unpublished} \cup {Mainline(c) : c \in Commits}
                       \cup {MergeSource(c) : c \in Commits}

(* Mutant of IntroducedRoles: the sources name the old Head, not the new.  *)
RolesOfOldHead(c, S) ==
    [x \in S \cup {c} |-> IF x = c THEN Mainline(c) ELSE MergeSource(head)]

(* The role rows a publication of c that introduces the commits S inserts. *)
IntroducedRoles(c, S) ==
    [x \in S \cup {c} |-> IF x = c THEN Mainline(c) ELSE MergeSource(c)]

-----------------------------------------------------------------------------
(* Handlers.                                                               *)

Replies == {"none", "ok", "conflict", "busy", "invalid", "missing",
            "too_large", "unavailable", "internal"}

Phases == {"idle", "read", "admitted", "walk", "check", "validated",
           "committed", "done"}

Request ==
    [phase     : Phases,
     candidate : CommitOrNone,   \* CommitId of the body
     expected  : CommitOrNone,   \* current.HeadCommitID as first read
     version   : Nat,            \* current.HeadVersion as first read
     current   : CommitOrNone,   \* commit the second-parent walk stands on
     depth     : Nat,            \* iterations of the walk so far
     sources   : SUBSET Commits, \* commits given the role merge-source
     missing   : BOOLEAN,        \* some object of a visited commit is absent
     reply     : Replies]

Idle == [phase |-> "idle", candidate |-> NoCommit, expected |-> NoCommit,
         version |-> 0, current |-> NoCommit, depth |-> 0, sources |-> {},
         missing |-> FALSE, reply |-> "none"]

(* The phases during which a handler holds its validation slot.            *)
Slotted == {"admitted", "walk", "check"}

Holders == {r \in Requests : req[r].phase \in Slotted}

At(r, phase) == running /\ req[r].phase = phase

(* The handler answers and forgets what it worked on.                      *)
Answer(r, reply) ==
    req' = [req EXCEPT ![r] = [Idle EXCEPT !.phase = "done",
                                           !.version = req[r].version,
                                           !.reply = reply]]

(* Mutant of Release: the library stays in the map.                        *)
ReleaseSlotOnly == global' = global - 1 /\ UNCHANGED <<validating, others>>

(* releaseValidation: the slot goes back exactly once.                     *)
Release ==
    /\ global' = global - 1
    /\ validating' = FALSE
    /\ UNCHANGED others

Refuse(r, reply) == Release /\ Answer(r, reply)

(* Mutants of Conclude: what merge sources miss is forgotten, or the last  *)
(* source of the chain is not recorded.                                    *)
ConcludeForgetting(r, S, missing) ==
    /\ Release
    /\ IF missing /\ S = {}
       THEN Answer(r, "missing")
       ELSE req' = [req EXCEPT ![r].phase = "validated",
                               ![r].sources = S,
                               ![r].current = NoCommit,
                               ![r].depth = 0,
                               ![r].missing = FALSE]

ConcludeOneShort(r, S, missing) ==
    /\ Release
    /\ IF missing
       THEN Answer(r, "missing")
       ELSE req' = [req EXCEPT ![r].phase = "validated",
                               ![r].sources = S \ {req[r].current},
                               ![r].current = NoCommit,
                               ![r].depth = 0,
                               ![r].missing = FALSE]

(* validateCandidate returns: the slot goes back before the transaction.   *)
Conclude(r, S, missing) ==
    /\ Release
    /\ IF missing
       THEN Answer(r, "missing")
       ELSE req' = [req EXCEPT ![r].phase = "validated",
                               ![r].sources = S,
                               ![r].current = NoCommit,
                               ![r].depth = 0,
                               ![r].missing = FALSE]

-----------------------------------------------------------------------------
Init ==
    /\ graph \in Graphs
    /\ head = NoCommit
    /\ version = 0
    /\ published = {}
    /\ role = [c \in Commits |-> Unpublished]
    /\ stored = Uploaded
    /\ durable = Uploaded
    /\ running = TRUE
    /\ global = 0
    /\ validating = FALSE
    /\ others = 0
    /\ req = [r \in Requests |-> Idle]

(* headLibrary reads Head and version; If-Match names version v.           *)
Begin(r, c, v) ==
    /\ running
    /\ req[r].phase \in {"idle", "done"}
    /\ \/ /\ v = version
          /\ req' = [req EXCEPT ![r] = [Idle EXCEPT !.phase = "read",
                                                     !.candidate = c,
                                                     !.expected = head,
                                                     !.version = version]]
       \/ /\ v # version
          /\ req' = [req EXCEPT ![r] = [Idle EXCEPT !.phase = "done",
                                                     !.version = v,
                                                     !.reply = "conflict"]]
    /\ UNCHANGED <<graph, historyVars, objectVars, running, limiterVars>>

(* Mutants of Admit: the global limit is not tested, or a request waits    *)
(* for a slot.                                                             *)
AdmitBeyondLimit(r) ==
    /\ At(r, "read")
    /\ IF ~ validating
       THEN /\ global' = global + 1
            /\ validating' = TRUE
            /\ UNCHANGED others
            /\ req' = [req EXCEPT ![r].phase = "admitted"]
       ELSE UNCHANGED limiterVars /\ Answer(r, "busy")
    /\ UNCHANGED <<graph, historyVars, objectVars, running>>

AdmitWaiting(r) ==
    /\ At(r, "read")
    /\ global < GlobalConcurrency /\ ~ validating
    /\ global' = global + 1
    /\ validating' = TRUE
    /\ req' = [req EXCEPT ![r].phase = "admitted"]
    /\ UNCHANGED <<graph, historyVars, objectVars, running, others>>

(* admitHeadValidation: a slot if one is free and no other request of this *)
(* library holds one; no request waits.                                    *)
Admit(r) ==
    /\ At(r, "read")
    /\ IF global < GlobalConcurrency /\ ~validating
       THEN /\ global' = global + 1
            /\ validating' = TRUE
            /\ UNCHANGED others
            /\ req' = [req EXCEPT ![r].phase = "admitted"]
       ELSE /\ UNCHANGED limiterVars
            /\ Answer(r, "busy")
    /\ UNCHANGED <<graph, historyVars, objectVars, running>>

(* A slot taken and given back for another library.                        *)
OtherLibrary ==
    /\ running
    /\ \/ global < GlobalConcurrency /\ global' = global + 1 /\ others' = others + 1
       \/ others > 0 /\ global' = global - 1 /\ others' = others - 1
    /\ UNCHANGED <<graph, historyVars, objectVars, running, validating, req>>

(* Mutant of ValidCommitParents: the Head may be any of the parents.       *)
HeadIsAParent(c, expected) == expected \in {graph.first[c], graph.second[c]}

(* validCommitParents: the first commit of a library has no parent, every  *)
(* later one has the Head as its first parent.                             *)
ValidCommitParents(c, expected) == graph.first[c] = expected

AcceptableCandidate(r) ==
    LET c == req[r].candidate
        h == req[r].expected
    IN  /\ c \notin graph.refused
        /\ ValidCommitParents(c, h)
        /\ h # NoCommit => role[h] = Mainline(h)

Incomplete(c) == ~ (graph.snapshot[c] \subseteq stored)

(* validateCandidate up to the loop over the second-parent chain.          *)
ValidateCandidate(r) ==
    LET c == req[r].candidate
    IN  /\ At(r, "admitted")
        /\ \/ c \notin stored /\ Refuse(r, "missing")
           \/ c \in stored /\ ~ AcceptableCandidate(r) /\ Refuse(r, "invalid")
           \/ /\ c \in stored /\ AcceptableCandidate(r)
              /\ graph.second[c] = NoCommit
              /\ Conclude(r, {}, Incomplete(c))
           \/ /\ c \in stored /\ AcceptableCandidate(r)
              /\ graph.second[c] # NoCommit
              /\ req' = [req EXCEPT ![r].phase = "walk",
                                    ![r].current = graph.second[c],
                                    ![r].depth = 1,
                                    ![r].missing = Incomplete(c)]
              /\ UNCHANGED limiterVars
        /\ UNCHANGED <<graph, historyVars, objectVars, running>>

(* Mutant of FreshSource: only this walk is looked at, not the history.    *)
FreshInWalk(r) == req[r].current \notin req[r].sources

(* One iteration of the loop, up to loading the commit it stands on.  The  *)
(* commit must be new to the published history.                            *)
FreshSource(r) ==
    LET s == req[r].current
    IN  s \notin req[r].sources /\ role[s] = Unpublished /\ s \notin published

ShapedSource(s) == s \notin graph.refused /\ graph.first[s] # NoCommit

VisitSource(r) ==
    LET s == req[r].current
    IN  /\ At(r, "walk")
        /\ \/ req[r].depth > MaxCommitDepth /\ Refuse(r, "too_large")
           \/ /\ req[r].depth <= MaxCommitDepth
              /\ ~ FreshSource(r)
              /\ Refuse(r, "invalid")
           \/ /\ req[r].depth <= MaxCommitDepth /\ FreshSource(r)
              /\ s \notin stored
              /\ Refuse(r, "missing")
           \/ /\ req[r].depth <= MaxCommitDepth /\ FreshSource(r)
              /\ s \in stored /\ ~ ShapedSource(s)
              /\ Refuse(r, "invalid")
           \/ /\ req[r].depth <= MaxCommitDepth /\ FreshSource(r)
              /\ s \in stored /\ ShapedSource(s)
              /\ Cardinality(req[r].sources) = MaxIntroducedCommits
              /\ Refuse(r, "too_large")
           \/ /\ req[r].depth <= MaxCommitDepth /\ FreshSource(r)
              /\ s \in stored /\ ShapedSource(s)
              /\ Cardinality(req[r].sources) # MaxIntroducedCommits
              /\ req' = [req EXCEPT ![r].phase = "check"]
              /\ UNCHANGED limiterVars
        /\ UNCHANGED <<graph, historyVars, objectVars, running>>

(* The rest of the iteration: the first parent of the source must already  *)
(* be a mainline commit of the library; then its snapshot is visited, the  *)
(* source gets its role and the walk goes on to its second parent.         *)
CheckSource(r) ==
    LET s == req[r].current
        p == graph.first[s]
    IN  /\ At(r, "check")
        /\ \/ /\ role[p] = Unpublished /\ p \notin published /\ p \notin stored
              /\ Refuse(r, "missing")
           \/ /\ role[p] # Mainline(p)
              /\ role[p] = Unpublished => p \in published \cup stored
              /\ Refuse(r, "invalid")
           \/ /\ role[p] = Mainline(p)
              /\ graph.second[s] = NoCommit
              /\ Conclude(r, req[r].sources \cup {s},
                          req[r].missing \/ Incomplete(s))
           \/ /\ role[p] = Mainline(p)
              /\ graph.second[s] # NoCommit
              /\ req' = [req EXCEPT ![r].phase = "walk",
                                    ![r].current = graph.second[s],
                                    ![r].depth = @ + 1,
                                    ![r].sources = @ \cup {s},
                                    ![r].missing = @ \/ Incomplete(s)]
              /\ UNCHANGED limiterVars
        /\ UNCHANGED <<graph, historyVars, objectVars, running>>

(* The request times out, its client goes away, or a read fails: the       *)
(* deferred release returns the slot.                                      *)
Abandon(r) ==
    /\ running
    /\ \/ req[r].phase \in Slotted /\ Refuse(r, "unavailable")
       \/ /\ req[r].phase = "validated"
          /\ Answer(r, "unavailable")
          /\ UNCHANGED limiterVars
    /\ UNCHANGED <<graph, historyVars, objectVars, running>>

(* Mutants of SameHead: a candidate that is the Head counts as unapplied,  *)
(* or NULL is compared with = and the first publication never matches.     *)
SameHeadOrRetry(r) ==
    \/ version = req[r].version /\ head = req[r].expected
    \/ head = req[r].candidate

SameHeadNull(r) ==
    head # NoCommit /\ version = req[r].version /\ head = req[r].expected

(* UpdateLibraryHeadWithRoles: one transaction.  A row that exists already *)
(* is kept (ON CONFLICT DO NOTHING) and must equal the new one, otherwise  *)
(* the whole transaction rolls back.                                       *)
SameHead(r) == version = req[r].version /\ head = req[r].expected

RoleConflict(r) ==
    LET c == req[r].candidate
        new == IntroducedRoles(c, req[r].sources)
    IN  \/ c \in req[r].sources
        \/ \E x \in DOMAIN new : role[x] \notin {Unpublished, new[x]}

UpdateHead(r) ==
    LET c == req[r].candidate
        new == IntroducedRoles(c, req[r].sources)
    IN  /\ At(r, "validated")
        /\ \/ /\ ~ SameHead(r)
              /\ Answer(r, "conflict")
              /\ UNCHANGED historyVars
           \/ /\ SameHead(r) /\ RoleConflict(r)
              /\ Answer(r, "internal")
              /\ UNCHANGED historyVars
           \/ /\ SameHead(r) /\ ~ RoleConflict(r)
              /\ head' = c
              /\ version' = version + 1
              /\ published' = published \cup DOMAIN new
              /\ role' = [x \in Commits |-> IF x \in DOMAIN new THEN new[x]
                                                                ELSE role[x]]
              /\ req' = [req EXCEPT ![r].phase = "committed"]
        /\ UNCHANGED <<graph, objectVars, running, limiterVars>>

(* The transaction is durable; the answer may still fail.                  *)
Respond(r) ==
    /\ At(r, "committed")
    /\ \E reply \in {"ok", "unavailable"} : Answer(r, reply)
    /\ UNCHANGED <<graph, historyVars, objectVars, running, limiterVars>>

(* PutObject, seen from the library: the file appears under its id, then   *)
(* its directory entry is made durable and the upload is acknowledged.     *)
LinkObject(o) ==
    /\ running
    /\ o \notin stored
    /\ stored' = stored \cup {o}
    /\ UNCHANGED <<graph, historyVars, durable, running, limiterVars, req>>

SyncObject(o) ==
    /\ running
    /\ o \in stored \ durable
    /\ durable' = durable \cup {o}
    /\ UNCHANGED <<graph, historyVars, stored, running, limiterVars, req>>

(* The process stops or is killed: handlers and limiter live in memory.    *)
Crash ==
    /\ running
    /\ running' = FALSE
    /\ global' = 0 /\ validating' = FALSE /\ others' = 0
    /\ req' = [r \in Requests |-> Idle]
    /\ UNCHANGED <<graph, historyVars, objectVars>>

Start ==
    /\ ~ running
    /\ running' = TRUE
    /\ UNCHANGED <<graph, historyVars, objectVars, limiterVars, req>>

Handle(r) ==
    \/ Admit(r)
    \/ ValidateCandidate(r)
    \/ VisitSource(r)
    \/ CheckSource(r)
    \/ UpdateHead(r)
    \/ Respond(r)

Next ==
    \/ \E r \in Requests :
          \/ \E c \in Commits, v \in 0 .. version : Begin(r, c, v)
          \/ Handle(r)
          \/ Abandon(r)
    \/ OtherLibrary
    \/ \E o \in Objects : LinkObject(o) \/ SyncObject(o)
    \/ Crash
    \/ Start

Spec == Init /\ [][Next]_vars

(* net/http runs a goroutine per request and none of the steps of a        *)
(* handler waits for another one: a step that can run is run in the end.   *)
Fairness == \A r \in Requests : WF_vars(Handle(r))

FairSpec == Spec /\ Fairness

-----------------------------------------------------------------------------
(* Types of the tables, of the object store and of the handlers.           *)
TypeOK ==
    /\ graph \in CommitGraph /\ Acyclic(graph)
    /\ head \in CommitOrNone
    /\ version \in Nat
    /\ published \subseteq Commits
    /\ role \in [Commits -> Roles]
    /\ stored \subseteq Objects
    /\ durable \subseteq stored
    /\ running \in BOOLEAN
    /\ global \in 0 .. GlobalConcurrency
    /\ validating \in BOOLEAN
    /\ others \in Nat
    /\ req \in [Requests -> Request]

(* Every published commit can be read back in full: its commit object, its *)
(* snapshot and its parents are there, and the parents are published too.  *)
(* Validation looked at the objects and at the published rows at several   *)
(* instants before the transaction ran.                                    *)
PublishedIsComplete ==
    /\ head # NoCommit => head \in published
    /\ \A c \in published :
          /\ c \in stored
          /\ graph.snapshot[c] \subseteq stored
          /\ {graph.first[c], graph.second[c]} \subseteq published \cup {NoCommit}

(* The role rows tell the shape of the history: a mainline commit follows  *)
(* a mainline commit, a merge source hangs off one and was introduced by a *)
(* later one, and the Head is the mainline commit no other one follows.    *)
RolesSound ==
    /\ \A c \in Commits : role[c] = Unpublished <=> c \notin published
    /\ head # NoCommit => role[head] = Mainline(head)
    /\ \A c \in published :
          /\ graph.first[c] # NoCommit =>
                role[graph.first[c]] = Mainline(graph.first[c])
          /\ role[c] # Mainline(c) =>
                /\ graph.first[c] # NoCommit
                /\ role[role[c].mainline] = Mainline(role[c].mainline)
                /\ c < role[c].mainline
    /\ \A c, d \in published :
          /\ role[c] = Mainline(c) /\ role[d] = Mainline(d)
          /\ graph.first[c] = graph.first[d]
          => c = d

(* The version number counts the mainline: no update of the Head was lost, *)
(* none counted twice, whatever answers were lost.                         *)
VersionCountsMainline ==
    version = Cardinality({c \in Commits : role[c] = Mainline(c)})

(* The rollback on unequal role rows in UpdateLibraryHeadWithRoles is      *)
(* never taken: a validated candidate that still meets the Head it was     *)
(* validated against introduces only commits that are new to the history.  *)
NoRoleConflict == \A r \in Requests : req[r].reply # "internal"

(* The limiter's counter and map agree with the handlers that hold slots,  *)
(* over every way a validation ends: two handlers never validate for the   *)
(* library at once and no slot leaks.                                      *)
LimiterExact ==
    /\ global = others + Cardinality(Holders)
    /\ validating <=> Holders # {}
    /\ Cardinality(Holders) <= 1

(* A handler that answers "library head changed" names a version that some *)
(* other publication has really passed.                                    *)
ConflictMeansProgress ==
    \A r \in Requests : req[r].reply = "conflict" => req[r].version < version

(* A handler comes to an end: it answers, or the process dies.             *)
HandlersEnd ==
    \A r \in Requests : (req[r].phase = "read") ~> (req[r].phase \in {"done", "idle"})

(* Publication as clients may think of it: one atomic step.                *)
Atomic == INSTANCE AtomicPublication

PublishesAtomically == Atomic!Spec
============================================================================
