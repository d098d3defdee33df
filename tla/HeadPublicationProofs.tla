----------------------- MODULE HeadPublicationProofs -----------------------
(***************************************************************************)
(* Proofs about HeadPublication and PublishedRoles, for every set of        *)
(* commits, every graph and every number of handlers.                      *)
(***************************************************************************)
EXTENDS PublishedRoles, FiniteSums

(* The records the actions write into req are requests.                    *)
LEMMA IdleIsRequest ==
    /\ Idle \in Request
    /\ \A v \in Nat, reply \in Replies :
          [Idle EXCEPT !.phase = "done", !.version = v, !.reply = reply] \in Request
    /\ \A v \in Nat, c, h \in CommitOrNone :
          [Idle EXCEPT !.phase = "read", !.candidate = c, !.expected = h,
                       !.version = v] \in Request
    BY DEF Idle, Request, Phases, Replies, CommitOrNone

LEMMA AnswerType ==
    ASSUME req \in [Requests -> Request], NEW r \in Requests,
           NEW reply \in Replies, Answer(r, reply)
    PROVE  req' \in [Requests -> Request]
    BY IdleIsRequest DEF Answer, Request

LEMMA ReleaseType ==
    ASSUME TypeOK, global > 0, Release
    PROVE  /\ global' \in 0 .. GlobalConcurrency
           /\ validating' \in BOOLEAN
           /\ others' \in Nat
<1>1. global \in 0 .. GlobalConcurrency /\ others \in Nat
    BY DEF TypeOK
<1>2. GlobalConcurrency \in Nat
    BY LimitAssumption DEF LimitAssumption
<1>3. global' \in 0 .. GlobalConcurrency
    BY <1>1, <1>2 DEF Release
<1>4. validating' \in BOOLEAN /\ others' \in Nat
    BY <1>1 DEF Release
<1> QED BY <1>3, <1>4

(* The slot of a handler is counted: what the limiter's counter, its map   *)
(* and the handlers that validate have in common.                          *)
LimiterInv ==
    /\ global = others + (IF validating THEN 1 ELSE 0)
    /\ ~ validating => \A r \in Requests : req[r].phase \notin Slotted
    /\ validating => \E r \in Requests :
          /\ req[r].phase \in Slotted
          /\ \A s \in Requests \ {r} : req[s].phase \notin Slotted

LEMMA SlotCounted ==
    ASSUME TypeOK, LimiterInv, NEW r \in Requests, req[r].phase \in Slotted
    PROVE  validating /\ global > 0
    BY DEF TypeOK, LimiterInv

LEMMA ConcludeType ==
    ASSUME TypeOK, NEW r \in Requests, NEW S \in SUBSET Commits,
           NEW missing \in BOOLEAN, Conclude(r, S, missing)
    PROVE  req' \in [Requests -> Request]
<1>1. CASE missing
    BY <1>1, AnswerType DEF Conclude, TypeOK, Replies
<1>2. CASE ~ missing
    BY <1>2 DEF Conclude, TypeOK, Request, Phases, CommitOrNone
<1> QED BY <1>1, <1>2

LEMMA TypeInit == Init => TypeOK
<1> SUFFICES ASSUME Init PROVE TypeOK
    OBVIOUS
<1>1. graph \in CommitGraph /\ Acyclic(graph)
    BY GraphAssumption DEF GraphAssumption, Init
<1>2. role \in [Commits -> Roles]
    BY DEF Init, Roles
<1>3. /\ stored \subseteq Objects /\ durable \subseteq stored
      /\ global \in 0 .. GlobalConcurrency
    BY LimitAssumption DEF Init, LimitAssumption
<1>4. req \in [Requests -> Request]
    BY IdleIsRequest DEF Init
<1> QED BY <1>1, <1>2, <1>3, <1>4 DEF Init, TypeOK, CommitOrNone

-----------------------------------------------------------------------------
(* Types.                                                                  *)

LEMMA TypeFrame ==
    ASSUME TypeOK, UNCHANGED <<graph, historyVars, objectVars, running>>,
           global' \in 0 .. GlobalConcurrency, validating' \in BOOLEAN,
           others' \in Nat, req' \in [Requests -> Request]
    PROVE  TypeOK'
    BY DEF TypeOK, historyVars, objectVars, Acyclic

LEMMA RefuseType ==
    ASSUME TypeOK, LimiterInv, NEW r \in Requests, req[r].phase \in Slotted,
           NEW reply \in Replies, Refuse(r, reply),
           UNCHANGED <<graph, historyVars, objectVars, running>>
    PROVE  TypeOK'
<1>1. global > 0
    BY SlotCounted
<1>2. req' \in [Requests -> Request]
    BY AnswerType DEF Refuse, TypeOK
<1>3. /\ global' \in 0 .. GlobalConcurrency
      /\ validating' \in BOOLEAN
      /\ others' \in Nat
    BY <1>1, ReleaseType DEF Refuse
<1> QED BY <1>2, <1>3, TypeFrame

LEMMA ConcludeKeepsType ==
    ASSUME TypeOK, LimiterInv, NEW r \in Requests, req[r].phase \in Slotted,
           NEW S \in SUBSET Commits, NEW missing \in BOOLEAN,
           Conclude(r, S, missing),
           UNCHANGED <<graph, historyVars, objectVars, running>>
    PROVE  TypeOK'
<1>1. global > 0
    BY SlotCounted
<1>2. req' \in [Requests -> Request]
    BY ConcludeType
<1>3. /\ global' \in 0 .. GlobalConcurrency
      /\ validating' \in BOOLEAN
      /\ others' \in Nat
    BY <1>1, ReleaseType DEF Conclude
<1> QED BY <1>2, <1>3, TypeFrame

LEMMA QuietType ==
    ASSUME TypeOK, UNCHANGED <<graph, historyVars, objectVars, running, limiterVars>>,
           req' \in [Requests -> Request]
    PROVE  TypeOK'
<1>1. /\ global' \in 0 .. GlobalConcurrency
      /\ validating' \in BOOLEAN
      /\ others' \in Nat
    BY DEF limiterVars, TypeOK
<1> QED BY <1>1, TypeFrame

LEMMA SourceType ==
    ASSUME TypeOK, NEW r \in Requests
    PROVE  /\ req[r] \in Request
           /\ req[r].sources \subseteq Commits
           /\ req[r].missing \in BOOLEAN
           /\ req[r].version \in Nat
           /\ req[r].depth \in Nat
           /\ req[r].candidate \in CommitOrNone
           /\ req[r].current \in CommitOrNone
           /\ req[r].expected \in CommitOrNone
    BY DEF TypeOK, Request

LEMMA BeginType ==
    ASSUME TypeOK, NEW r \in Requests, NEW c \in Commits,
           NEW v \in 0 .. version, Begin(r, c, v)
    PROVE  TypeOK'
<1>1. [Idle EXCEPT !.phase = "read", !.candidate = c, !.expected = head,
                   !.version = version] \in Request
  <2>1. head \in CommitOrNone /\ version \in Nat /\ c \in CommitOrNone
      BY DEF TypeOK, CommitOrNone
  <2> QED BY <2>1, IdleIsRequest
<1>2. [Idle EXCEPT !.phase = "done", !.version = v,
                   !.reply = "conflict"] \in Request
  <2>1. version \in Nat
      BY DEF TypeOK
  <2>2. v \in Nat /\ "conflict" \in Replies
      BY <2>1 DEF Replies
  <2> QED BY <2>2, IdleIsRequest
<1>3. req' \in [Requests -> Request]
    BY <1>1, <1>2 DEF TypeOK, Begin
<1> QED BY <1>3, QuietType DEF Begin

LEMMA AdmitType ==
    ASSUME TypeOK, NEW r \in Requests, Admit(r)
    PROVE  TypeOK'
<1>1. CASE global < GlobalConcurrency /\ ~ validating
  <2>1. req' \in [Requests -> Request]
      BY <1>1 DEF Admit, TypeOK, Request, Phases
  <2>2. global' \in 0 .. GlobalConcurrency
      BY <1>1, LimitAssumption DEF LimitAssumption, Admit, TypeOK
  <2>3. validating' \in BOOLEAN /\ others' \in Nat
      BY <1>1 DEF Admit, TypeOK
  <2> QED BY <2>1, <2>2, <2>3, TypeFrame DEF Admit
<1>2. CASE ~ (global < GlobalConcurrency /\ ~ validating)
  <2>1. req' \in [Requests -> Request]
      BY <1>2, AnswerType DEF Admit, TypeOK, Replies
  <2> QED BY <1>2, <2>1, QuietType DEF Admit
<1> QED BY <1>1, <1>2

LEMMA ValidateType ==
    ASSUME TypeOK, LimiterInv, NEW r \in Requests, ValidateCandidate(r)
    PROVE  TypeOK'
<1>1. /\ req[r].phase = "admitted" /\ req[r].phase \in Slotted
      /\ UNCHANGED <<graph, historyVars, objectVars, running>>
    BY DEF ValidateCandidate, At, Slotted
<1>2. CASE Refuse(r, "missing") \/ Refuse(r, "invalid")
    BY <1>1, <1>2, RefuseType DEF Replies
<1>3. CASE Conclude(r, {}, Incomplete(req[r].candidate))
    BY <1>1, <1>3, ConcludeKeepsType DEF Incomplete
<1>4. CASE /\ req' = [req EXCEPT ![r].phase = "walk",
                                 ![r].current = graph.second[req[r].candidate],
                                 ![r].depth = 1,
                                 ![r].missing = Incomplete(req[r].candidate)]
           /\ req[r].candidate \in Commits
           /\ UNCHANGED limiterVars
  <2>1. graph.second[req[r].candidate] \in CommitOrNone
      BY <1>4 DEF TypeOK, CommitGraph
  <2>2. Incomplete(req[r].candidate) \in BOOLEAN
      BY DEF Incomplete
  <2>3. req' \in [Requests -> Request]
    <3> DEFINE q == [req[r] EXCEPT !.phase = "walk",
                                   !.current = graph.second[req[r].candidate],
                                   !.depth = 1,
                                   !.missing = Incomplete(req[r].candidate)]
    <3>1. q \in Request
        BY <2>1, <2>2, SourceType DEF Request, Phases
    <3>2. req \in [Requests -> Request] /\ req' = [req EXCEPT ![r] = q]
        BY <1>4 DEF TypeOK
    <3> QED BY <3>1, <3>2
  <2> QED BY <1>1, <1>4, <2>3, QuietType
<1>5. req[r].candidate \in Commits \/ graph.second[req[r].candidate] = NoCommit
         \/ req[r].candidate \notin stored
    BY SourceType, CommitAssumption DEF CommitAssumption, TypeOK, Objects, CommitOrNone
<1> QED BY <1>1, <1>2, <1>3, <1>4, <1>5 DEF ValidateCandidate

LEMMA VisitType ==
    ASSUME TypeOK, LimiterInv, NEW r \in Requests, VisitSource(r)
    PROVE  TypeOK'
<1>1. /\ req[r].phase = "walk" /\ req[r].phase \in Slotted
      /\ UNCHANGED <<graph, historyVars, objectVars, running>>
    BY DEF VisitSource, At, Slotted
<1>2. CASE \E reply \in Replies : Refuse(r, reply)
    BY <1>1, <1>2, RefuseType
<1>3. CASE req' = [req EXCEPT ![r].phase = "check"] /\ UNCHANGED limiterVars
  <2>1. req' \in [Requests -> Request]
      BY <1>3 DEF TypeOK, Request, Phases
  <2> QED BY <1>1, <1>3, <2>1, QuietType
<1> QED BY <1>1, <1>2, <1>3 DEF VisitSource, Replies

LEMMA CheckType ==
    ASSUME TypeOK, LimiterInv, NEW r \in Requests, CheckSource(r),
           req[r].current \in Commits
    PROVE  TypeOK'
<1> DEFINE s == req[r].current
<1>1. /\ req[r].phase = "check" /\ req[r].phase \in Slotted
      /\ UNCHANGED <<graph, historyVars, objectVars, running>>
    BY DEF CheckSource, At, Slotted
<1>2. CASE \E reply \in Replies : Refuse(r, reply)
    BY <1>1, <1>2, RefuseType
<1>3. req[r].missing \/ Incomplete(s) \in BOOLEAN
    BY SourceType DEF Incomplete
<1>4. req[r].sources \cup {s} \in SUBSET Commits
    BY SourceType
<1>5. CASE Conclude(r, req[r].sources \cup {s}, req[r].missing \/ Incomplete(s))
    BY <1>1, <1>3, <1>4, <1>5, ConcludeKeepsType
<1>6. CASE /\ req' = [req EXCEPT ![r].phase = "walk",
                                 ![r].current = graph.second[s],
                                 ![r].depth = @ + 1,
                                 ![r].sources = @ \cup {s},
                                 ![r].missing = @ \/ Incomplete(s)]
           /\ UNCHANGED limiterVars
  <2>1. graph.second[s] \in CommitOrNone
      BY DEF TypeOK, CommitGraph
  <2>2. req' \in [Requests -> Request]
      BY <1>3, <1>4, <1>6, <2>1, SourceType DEF TypeOK, Request, Phases
  <2> QED BY <1>1, <1>6, <2>2, QuietType
<1> QED BY <1>1, <1>2, <1>5, <1>6 DEF CheckSource, Replies

LEMMA AbandonType ==
    ASSUME TypeOK, LimiterInv, NEW r \in Requests, Abandon(r)
    PROVE  TypeOK'
<1>1. UNCHANGED <<graph, historyVars, objectVars, running>>
    BY DEF Abandon
<1>2. CASE req[r].phase \in Slotted /\ Refuse(r, "unavailable")
    BY <1>1, <1>2, RefuseType DEF Replies
<1>3. CASE Answer(r, "unavailable") /\ UNCHANGED limiterVars
    BY <1>1, <1>3, AnswerType, QuietType DEF TypeOK, Replies
<1> QED BY <1>2, <1>3 DEF Abandon

LEMMA UpdateType ==
    ASSUME TypeOK, NEW r \in Requests, UpdateHead(r), req[r].candidate \in Commits
    PROVE  TypeOK'
<1> DEFINE c == req[r].candidate
           new == IntroducedRoles(c, req[r].sources)
<1>1. UNCHANGED <<graph, objectVars, running, limiterVars>>
    BY DEF UpdateHead
<1>2. CASE \E reply \in Replies : Answer(r, reply) /\ UNCHANGED historyVars
    BY <1>1, <1>2, AnswerType, QuietType DEF TypeOK
<1>3. CASE /\ head' = c
           /\ version' = version + 1
           /\ published' = published \cup DOMAIN new
           /\ role' = [x \in Commits |-> IF x \in DOMAIN new THEN new[x] ELSE role[x]]
           /\ req' = [req EXCEPT ![r].phase = "committed"]
  <2>1. DOMAIN new \subseteq Commits /\ \A x \in DOMAIN new : new[x] \in Roles
      BY SourceType DEF IntroducedRoles, Roles
  <2>2. role' \in [Commits -> Roles]
      BY <1>3, <2>1 DEF TypeOK
  <2>3. req' \in [Requests -> Request]
      BY <1>3 DEF TypeOK, Request, Phases
  <2>4. head' \in CommitOrNone /\ version' \in Nat /\ published' \subseteq Commits
      BY <1>3, <2>1 DEF TypeOK, CommitOrNone
  <2>5. graph' \in CommitGraph /\ Acyclic(graph)'
      BY <1>1 DEF TypeOK, Acyclic
  <2>6. /\ stored' \subseteq Objects /\ durable' \subseteq stored'
        /\ running' \in BOOLEAN /\ validating' \in BOOLEAN
      BY <1>1 DEF TypeOK, objectVars, limiterVars
  <2>7. global' \in 0 .. GlobalConcurrency /\ others' \in Nat
      BY <1>1 DEF TypeOK, limiterVars
  <2> QED BY <2>2, <2>3, <2>4, <2>5, <2>6, <2>7 DEF TypeOK
<1> QED BY <1>2, <1>3 DEF UpdateHead, Replies

LEMMA RespondType ==
    ASSUME TypeOK, NEW r \in Requests, Respond(r)
    PROVE  TypeOK'
    BY AnswerType, QuietType DEF Respond, TypeOK, Replies

LEMMA EnvironmentType ==
    ASSUME TypeOK, LimiterInv,
           \/ OtherLibrary
           \/ \E o \in Objects : LinkObject(o) \/ SyncObject(o)
           \/ Crash
           \/ Start
    PROVE  TypeOK'
<1>1. CASE OtherLibrary
  <2>1. global' \in 0 .. GlobalConcurrency /\ others' \in Nat
    <3>1. /\ global \in 0 .. GlobalConcurrency /\ others \in Nat
          /\ global = others + (IF validating THEN 1 ELSE 0)
        BY DEF TypeOK, LimiterInv
    <3>2. GlobalConcurrency \in Nat
        BY LimitAssumption DEF LimitAssumption
    <3> QED BY <1>1, <3>1, <3>2 DEF OtherLibrary
  <2>2. validating' \in BOOLEAN /\ req' \in [Requests -> Request]
      BY <1>1 DEF OtherLibrary, TypeOK
  <2> QED BY <1>1, <2>1, <2>2, TypeFrame DEF OtherLibrary
<1>2. ASSUME NEW o \in Objects, LinkObject(o)
      PROVE  TypeOK'
    BY <1>2 DEF LinkObject, TypeOK, historyVars, limiterVars, Acyclic
<1>3. ASSUME NEW o \in Objects, SyncObject(o)
      PROVE  TypeOK'
    BY <1>3 DEF SyncObject, TypeOK, historyVars, limiterVars, Acyclic
<1>4. CASE Crash
  <2>1. 0 \in 0 .. GlobalConcurrency
      BY LimitAssumption DEF LimitAssumption
  <2>2. req' \in [Requests -> Request]
      BY <1>4, IdleIsRequest DEF Crash
  <2>3. /\ head' \in CommitOrNone /\ version' \in Nat /\ published' \subseteq Commits
        /\ role' \in [Commits -> Roles] /\ stored' \subseteq Objects
        /\ durable' \subseteq stored'
      BY <1>4 DEF Crash, TypeOK, historyVars, objectVars
  <2>4. graph' \in CommitGraph /\ Acyclic(graph)'
      BY <1>4 DEF Crash, TypeOK, Acyclic
  <2>5. running' \in BOOLEAN /\ validating' \in BOOLEAN
      BY <1>4 DEF Crash
  <2>6. global' \in 0 .. GlobalConcurrency /\ others' \in Nat
      BY <1>4, <2>1 DEF Crash
  <2> QED BY <2>2, <2>3, <2>4, <2>5, <2>6 DEF TypeOK
<1>5. CASE Start
    BY <1>5 DEF Start, TypeOK, historyVars, objectVars, limiterVars, Acyclic
<1> QED BY <1>1, <1>2, <1>3, <1>4, <1>5

-----------------------------------------------------------------------------
(* The limiter.                                                            *)

(* A step that leaves the limiter alone and moves no handler into or out   *)
(* of the slotted phases.                                                  *)
LEMMA SlotsKept ==
    ASSUME LimiterInv, UNCHANGED limiterVars,
           \A s \in Requests : req'[s].phase \in Slotted <=> req[s].phase \in Slotted
    PROVE  LimiterInv'
    BY DEF LimiterInv, limiterVars

(* The one handler with a slot gives it back.                              *)
LEMMA SlotReleased ==
    ASSUME TypeOK, LimiterInv, NEW r \in Requests, req[r].phase \in Slotted,
           Release, req'[r].phase \notin Slotted,
           \A s \in Requests \ {r} : req'[s] = req[s]
    PROVE  LimiterInv'
<1>1. validating /\ \A s \in Requests \ {r} : req[s].phase \notin Slotted
    BY DEF LimiterInv
<1>2. global = others + 1 /\ global \in Int /\ others \in Nat
    BY <1>1 DEF LimiterInv, TypeOK
<1>3. global' = others' /\ ~ validating'
    BY <1>2 DEF Release
<1>4. \A s \in Requests : req'[s].phase \notin Slotted
    BY <1>1
<1>5. others' + 0 = others'
    BY <1>2 DEF Release
<1> QED BY <1>3, <1>4, <1>5 DEF LimiterInv

LEMMA AnswerPhase ==
    ASSUME req \in [Requests -> Request], NEW r \in Requests,
           NEW reply \in Replies, Answer(r, reply)
    PROVE  /\ req'[r].phase = "done"
           /\ req'[r].reply = reply
           /\ req'[r].version = req[r].version
           /\ \A s \in Requests \ {r} : req'[s] = req[s]
    BY DEF Answer, Idle

LEMMA RefuseLimiter ==
    ASSUME TypeOK, LimiterInv, NEW r \in Requests, req[r].phase \in Slotted,
           NEW reply \in Replies, Refuse(r, reply)
    PROVE  LimiterInv'
<1>1. req'[r].phase = "done" /\ \A s \in Requests \ {r} : req'[s] = req[s]
    BY AnswerPhase DEF Refuse, TypeOK
<1> QED BY <1>1, SlotReleased DEF Refuse, Slotted

LEMMA ConcludeLimiter ==
    ASSUME TypeOK, LimiterInv, NEW r \in Requests, req[r].phase \in Slotted,
           NEW S, NEW missing \in BOOLEAN, Conclude(r, S, missing)
    PROVE  LimiterInv'
<1>1. CASE missing
    BY <1>1, RefuseLimiter DEF Conclude, Refuse, Replies
<1>2. CASE ~ missing
  <2>1. req'[r].phase = "validated" /\ \A s \in Requests \ {r} : req'[s] = req[s]
      BY <1>2 DEF Conclude, TypeOK, Request
  <2> QED BY <1>2, <2>1, SlotReleased DEF Conclude, Slotted
<1> QED BY <1>1, <1>2

(* An answer given without a slot.                                         *)
LEMMA AnswerLimiter ==
    ASSUME TypeOK, LimiterInv, NEW r \in Requests, req[r].phase \notin Slotted,
           NEW reply \in Replies, Answer(r, reply), UNCHANGED limiterVars
    PROVE  LimiterInv'
<1>1. req'[r].phase = "done" /\ \A s \in Requests \ {r} : req'[s] = req[s]
    BY AnswerPhase DEF TypeOK
<1> QED BY <1>1, SlotsKept DEF Slotted

(* A handler that moves on between two phases of the same kind.            *)
LEMMA PhaseLimiter ==
    ASSUME LimiterInv, NEW r \in Requests, UNCHANGED limiterVars,
           \A s \in Requests \ {r} : req'[s] = req[s],
           req'[r].phase \in Slotted <=> req[r].phase \in Slotted
    PROVE  LimiterInv'
    BY SlotsKept

LEMMA AdmitLimiter ==
    ASSUME TypeOK, LimiterInv, NEW r \in Requests, Admit(r)
    PROVE  LimiterInv'
<1>1. CASE global < GlobalConcurrency /\ ~ validating
  <2>1. /\ global' = global + 1 /\ validating' = TRUE /\ others' = others
        /\ req' = [req EXCEPT ![r].phase = "admitted"]
      BY <1>1 DEF Admit
  <2>2. req'[r].phase \in Slotted /\ \A s \in Requests \ {r} : req'[s] = req[s]
      BY <2>1 DEF TypeOK, Request, Slotted
  <2>3. \A s \in Requests : req[s].phase \notin Slotted
      BY <1>1 DEF LimiterInv
  <2>4. global = others + 0 /\ others \in Nat
      BY <1>1 DEF LimiterInv, TypeOK
  <2>5. global' = others' + 1
      BY <2>1, <2>4
  <2> QED BY <2>1, <2>2, <2>3, <2>5 DEF LimiterInv
<1>2. CASE ~ (global < GlobalConcurrency /\ ~ validating)
    BY <1>2, AnswerLimiter DEF Admit, At, Slotted, Replies
<1> QED BY <1>1, <1>2

LEMMA HandlerLimiter ==
    ASSUME TypeOK, LimiterInv, NEW r \in Requests,
           \/ \E c \in Commits, v \in 0 .. version : Begin(r, c, v)
           \/ Handle(r)
           \/ Abandon(r)
    PROVE  LimiterInv'
<1>1. ASSUME NEW c \in Commits, NEW v \in 0 .. version, Begin(r, c, v)
      PROVE  LimiterInv'
  <2>1. req'[r].phase \notin Slotted /\ \A s \in Requests \ {r} : req'[s] = req[s]
      BY <1>1 DEF Begin, TypeOK, Idle, Slotted
  <2>2. req[r].phase \notin Slotted
      BY <1>1 DEF Begin, Slotted
  <2> QED BY <1>1, <2>1, <2>2, PhaseLimiter DEF Begin
<1>2. CASE Admit(r)
    BY <1>2, AdmitLimiter
<1>3. CASE ValidateCandidate(r)
  <2>1. req[r].phase \in Slotted
      BY <1>3 DEF ValidateCandidate, At, Slotted
  <2>2. CASE \E reply \in Replies : Refuse(r, reply)
      BY <2>1, <2>2, RefuseLimiter
  <2>3. CASE Conclude(r, {}, Incomplete(req[r].candidate))
      BY <2>1, <2>3, ConcludeLimiter DEF Incomplete
  <2>4. CASE /\ req' = [req EXCEPT ![r].phase = "walk",
                                   ![r].current = graph.second[req[r].candidate],
                                   ![r].depth = 1,
                                   ![r].missing = Incomplete(req[r].candidate)]
             /\ UNCHANGED limiterVars
    <3>1. req'[r].phase = "walk" /\ \A s \in Requests \ {r} : req'[s] = req[s]
        BY <2>4 DEF TypeOK, Request
    <3> QED BY <2>1, <2>4, <3>1, PhaseLimiter DEF Slotted
  <2> QED BY <1>3, <2>2, <2>3, <2>4 DEF ValidateCandidate, Replies
<1>4. CASE VisitSource(r)
  <2>1. req[r].phase \in Slotted
      BY <1>4 DEF VisitSource, At, Slotted
  <2>2. CASE \E reply \in Replies : Refuse(r, reply)
      BY <2>1, <2>2, RefuseLimiter
  <2>3. CASE req' = [req EXCEPT ![r].phase = "check"] /\ UNCHANGED limiterVars
    <3>1. req'[r].phase = "check" /\ \A s \in Requests \ {r} : req'[s] = req[s]
        BY <2>3 DEF TypeOK, Request
    <3> QED BY <2>1, <2>3, <3>1, PhaseLimiter DEF Slotted
  <2> QED BY <1>4, <2>2, <2>3 DEF VisitSource, Replies
<1>5. CASE CheckSource(r)
  <2> DEFINE s == req[r].current
  <2>1. req[r].phase \in Slotted
      BY <1>5 DEF CheckSource, At, Slotted
  <2>2. CASE \E reply \in Replies : Refuse(r, reply)
      BY <2>1, <2>2, RefuseLimiter
  <2>3. CASE Conclude(r, req[r].sources \cup {s}, req[r].missing \/ Incomplete(s))
      BY <2>1, <2>3, ConcludeLimiter, SourceType DEF Incomplete
  <2>4. CASE /\ req' = [req EXCEPT ![r].phase = "walk",
                                   ![r].current = graph.second[s],
                                   ![r].depth = @ + 1,
                                   ![r].sources = @ \cup {s},
                                   ![r].missing = @ \/ Incomplete(s)]
             /\ UNCHANGED limiterVars
    <3>1. req'[r].phase = "walk" /\ \A t \in Requests \ {r} : req'[t] = req[t]
        BY <2>4 DEF TypeOK, Request
    <3> QED BY <2>1, <2>4, <3>1, PhaseLimiter DEF Slotted
  <2> QED BY <1>5, <2>2, <2>3, <2>4 DEF CheckSource, Replies
<1>6. CASE UpdateHead(r)
  <2>1. req[r].phase \notin Slotted /\ UNCHANGED limiterVars
      BY <1>6 DEF UpdateHead, At, Slotted
  <2>2. CASE \E reply \in Replies : Answer(r, reply)
      BY <2>1, <2>2, AnswerLimiter
  <2>3. CASE req' = [req EXCEPT ![r].phase = "committed"]
    <3>1. req'[r].phase = "committed" /\ \A s \in Requests \ {r} : req'[s] = req[s]
        BY <2>3 DEF TypeOK, Request
    <3> QED BY <2>1, <3>1, PhaseLimiter DEF Slotted
  <2> QED BY <1>6, <2>2, <2>3 DEF UpdateHead, Replies
<1>7. CASE Respond(r)
    BY <1>7, AnswerLimiter DEF Respond, At, Slotted, Replies
<1>8. CASE Abandon(r)
  <2>1. CASE req[r].phase \in Slotted /\ Refuse(r, "unavailable")
      BY <2>1, RefuseLimiter DEF Replies
  <2>2. CASE /\ req[r].phase = "validated"
             /\ Answer(r, "unavailable") /\ UNCHANGED limiterVars
      BY <2>2, AnswerLimiter DEF Slotted, Replies
  <2> QED BY <1>8, <2>1, <2>2 DEF Abandon
<1> QED BY <1>1, <1>2, <1>3, <1>4, <1>5, <1>6, <1>7, <1>8 DEF Handle

LEMMA EnvironmentLimiter ==
    ASSUME TypeOK, LimiterInv,
           \/ OtherLibrary
           \/ \E o \in Objects : LinkObject(o) \/ SyncObject(o)
           \/ Crash
           \/ Start
    PROVE  LimiterInv'
<1>1. CASE OtherLibrary
  <2>1. UNCHANGED <<validating, req>>
      BY <1>1 DEF OtherLibrary
  <2>2. /\ global \in Int /\ others \in Nat
        /\ global = others + (IF validating THEN 1 ELSE 0)
      BY DEF TypeOK, LimiterInv
  <2>3. global' = others' + (IF validating' THEN 1 ELSE 0)
      BY <1>1, <2>1, <2>2 DEF OtherLibrary
  <2> QED BY <2>1, <2>3 DEF LimiterInv
<1>2. CASE \/ \E o \in Objects : LinkObject(o) \/ SyncObject(o)
           \/ Start
    BY <1>2, SlotsKept DEF LinkObject, SyncObject, Start
<1>3. CASE Crash
  <2>1. global' = 0 /\ others' = 0 /\ validating' = FALSE
      BY <1>3 DEF Crash
  <2>2. \A r \in Requests : req'[r].phase \notin Slotted
      BY <1>3 DEF Crash, Idle, Slotted
  <2> QED BY <2>1, <2>2 DEF LimiterInv
<1> QED BY <1>1, <1>2, <1>3

-----------------------------------------------------------------------------
(* The invariant of the history and of the handlers.                       *)

(* Ids grow along parents, so the Head is newer than all it descends from. *)
HeadIsNewest == \A x \in published : x <= head

(* Parents are published with their children.  This and what follows says *)
(* nothing of the objects: it holds too after a loss of power.             *)
HistoryLinked ==
    /\ head # NoCommit => head \in published
    /\ \A c \in published :
          {graph.first[c], graph.second[c]} \subseteq published \cup {NoCommit}

HistoryInv ==
    /\ HistoryLinked
    /\ RolesSound
    /\ VersionCountsMainline
    /\ HeadIsNewest

(* S is the chain of second parents from c as far as e, exclusive.         *)
Chain(c, S, e) ==
    /\ \A x \in S \cup {c} : graph.second[x] \in S \cup {e}
    /\ \A y \in S \cup ({e} \ {NoCommit}) :
          \E x \in S \cup {c} : graph.second[x] = y

(* Before the transaction: what the handler read first is still the Head   *)
(* if the version is still the version it read.                            *)
PendingInv(r) ==
    req[r].phase \in {"read", "admitted", "walk", "check", "validated"} =>
        /\ req[r].candidate \in Commits
        /\ req[r].version <= version
        /\ req[r].version = version => req[r].expected = head
        /\ req[r].phase \in {"read", "admitted"} => req[r].sources = {}

(* What validation has established of the candidate and of the sources it  *)
(* has gone through.  Facts about objects, contents and mainline roles can *)
(* not be undone; that a source is unpublished holds for as long as the    *)
(* version has not moved.                                                  *)
SourceInv(r, x) ==
    /\ x \in stored /\ x \notin graph.refused
    /\ x < req[r].candidate
    /\ graph.first[x] # NoCommit
    /\ role[graph.first[x]] = Mainline(graph.first[x])
    /\ req[r].version = version => x \notin published

ValidatedInv(r) ==
    req[r].phase \in {"walk", "check", "validated"} =>
        /\ req[r].candidate \in stored
        /\ req[r].candidate \notin graph.refused
        /\ graph.first[req[r].candidate] = req[r].expected
        /\ \A x \in req[r].sources : SourceInv(r, x)
        /\ ~ req[r].missing =>
              \A x \in req[r].sources \cup {req[r].candidate} :
                  graph.snapshot[x] \subseteq stored

WalkInv(r) ==
    /\ req[r].phase \in {"walk", "check"} =>
          /\ req[r].current \in Commits
          /\ req[r].current < req[r].candidate
          /\ Chain(req[r].candidate, req[r].sources, req[r].current)
    /\ req[r].phase = "check" =>
          /\ req[r].current \in stored
          /\ ShapedSource(req[r].current)
          /\ req[r].version = version => req[r].current \notin published
    /\ req[r].phase = "validated" =>
          /\ ~ req[r].missing
          /\ Chain(req[r].candidate, req[r].sources, NoCommit)

ReplyInv(r) ==
    /\ req[r].reply # "internal"
    /\ req[r].reply = "conflict" => req[r].version < version

RequestInv(r) == PendingInv(r) /\ ValidatedInv(r) /\ WalkInv(r) /\ ReplyInv(r)

IInv ==
    /\ TypeOK
    /\ LimiterInv
    /\ HistoryInv
    /\ \A r \in Requests : RequestInv(r)

(* What every step but a crash does to the facts handlers rely on.         *)
Progress ==
    /\ graph' = graph
    /\ stored \subseteq stored'
    /\ version <= version'
    /\ version' = version => head' = head /\ published' = published
    /\ \A x \in Commits : role[x] = Mainline(x) => role'[x] = Mainline(x)

LEMMA FirstParentIsCommit ==
    ASSUME TypeOK, NEW x \in Commits
    PROVE  /\ graph.first[x] \in CommitOrNone /\ graph.second[x] \in CommitOrNone
           /\ graph.first[x] < x /\ graph.second[x] < x
           /\ graph.snapshot[x] \subseteq Contents
           /\ x \in Nat /\ x # NoCommit
    BY CommitAssumption DEF CommitAssumption, TypeOK, CommitGraph, Acyclic

LEMMA RequestFrame ==
    ASSUME TypeOK, Progress, NEW r \in Requests, req'[r] = req[r],
           RequestInv(r), version' \in Nat
    PROVE  RequestInv(r)'
<1>0. version \in Nat /\ req[r].version \in Nat /\ req[r].sources \subseteq Commits
    BY SourceType DEF TypeOK
<1>1. PendingInv(r)'
    BY <1>0 DEF RequestInv, PendingInv, Progress
<1>2. ValidatedInv(r)'
  <2> SUFFICES ASSUME req[r].phase \in {"walk", "check", "validated"}
               PROVE  ValidatedInv(r)'
      BY DEF ValidatedInv
  <2>1. req[r].version <= version
      BY DEF RequestInv, PendingInv
  <2>2. ASSUME NEW x \in req[r].sources
        PROVE  SourceInv(r, x)'
    <3>1. SourceInv(r, x)
        BY <2>2 DEF RequestInv, ValidatedInv
    <3>2. graph.first[x] \in Commits
        BY <1>0, <2>2, <3>1, FirstParentIsCommit DEF SourceInv, CommitOrNone
    <3>3. role'[graph.first[x]] = Mainline(graph.first[x])
        BY <3>1, <3>2 DEF SourceInv, Progress
    <3>4. req[r].version = version' => x \notin published'
        BY <1>0, <2>1, <3>1 DEF SourceInv, Progress
    <3> QED BY <3>1, <3>3, <3>4 DEF SourceInv, Progress, Mainline
  <2> QED BY <2>2 DEF RequestInv, ValidatedInv, Progress
<1>3. WalkInv(r)'
  <2>1. req[r].phase = "check" => req[r].version <= version
      BY DEF RequestInv, PendingInv
  <2>2. req[r].phase = "check" =>
           (req[r].version = version' => req[r].current \notin published')
      BY <1>0, <2>1 DEF RequestInv, WalkInv, Progress
  <2> QED BY <2>2 DEF RequestInv, WalkInv, Progress, Chain, ShapedSource
<1>4. ReplyInv(r)'
    BY <1>0 DEF RequestInv, ReplyInv, Progress
<1> QED BY <1>1, <1>2, <1>3, <1>4 DEF RequestInv

(* An answer ends every obligation but the one about the answer itself.    *)
LEMMA AnswerRequest ==
    ASSUME TypeOK, NEW r \in Requests, NEW reply \in Replies, Answer(r, reply),
           reply # "internal",
           reply = "conflict" => req[r].version < version'
    PROVE  RequestInv(r)'
<1>1. /\ req'[r].phase = "done" /\ req'[r].reply = reply
      /\ req'[r].version = req[r].version
    BY AnswerPhase DEF TypeOK
<1> QED BY <1>1 DEF RequestInv, PendingInv, ValidatedInv, WalkInv, ReplyInv

LEMMA IdleRequest ==
    ASSUME NEW r \in Requests, req'[r] = Idle
    PROVE  RequestInv(r)'
    BY DEF Idle, RequestInv, PendingInv, ValidatedInv, WalkInv, ReplyInv

LEMMA OthersOfAnswer ==
    ASSUME TypeOK, NEW r \in Requests, NEW reply \in Replies, Answer(r, reply)
    PROVE  \A s \in Requests \ {r} : req'[s] = req[s]
    BY AnswerPhase DEF TypeOK

LEMMA BeginRequest ==
    ASSUME TypeOK, NEW r \in Requests, NEW c \in Commits,
           NEW v \in 0 .. version, Begin(r, c, v)
    PROVE  RequestInv(r)'
<1>0. version \in Nat /\ version' = version /\ head' = head
    BY DEF Begin, TypeOK, historyVars
<1>1. CASE v = version
  <2>1. req'[r] = [Idle EXCEPT !.phase = "read", !.candidate = c,
                               !.expected = head, !.version = version]
      BY <1>1 DEF Begin, TypeOK
  <2>2. /\ req'[r].phase = "read" /\ req'[r].candidate = c
        /\ req'[r].expected = head /\ req'[r].version = version
        /\ req'[r].reply = "none" /\ req'[r].sources = {}
      BY <2>1 DEF Idle
  <2> QED BY <1>0, <2>2 DEF RequestInv, PendingInv, ValidatedInv, WalkInv, ReplyInv
<1>2. CASE v # version
  <2>1. req'[r] = [Idle EXCEPT !.phase = "done", !.version = v, !.reply = "conflict"]
      BY <1>2 DEF Begin, TypeOK
  <2>2. /\ req'[r].phase = "done" /\ req'[r].version = v
        /\ req'[r].reply = "conflict"
      BY <2>1 DEF Idle
  <2>3. v < version
      BY <1>0, <1>2
  <2> QED BY <1>0, <2>2, <2>3
          DEF RequestInv, PendingInv, ValidatedInv, WalkInv, ReplyInv
<1> QED BY <1>1, <1>2

LEMMA AdmitRequest ==
    ASSUME TypeOK, NEW r \in Requests, Admit(r), RequestInv(r)
    PROVE  RequestInv(r)'
<1>1. req[r].phase = "read" /\ UNCHANGED <<graph, historyVars, objectVars>>
    BY DEF Admit, At
<1>2. CASE req' = [req EXCEPT ![r].phase = "admitted"]
  <2>1. /\ req'[r].phase = "admitted" /\ req'[r].candidate = req[r].candidate
        /\ req'[r].expected = req[r].expected /\ req'[r].version = req[r].version
        /\ req'[r].reply = req[r].reply /\ req'[r].sources = req[r].sources
      BY <1>2 DEF TypeOK, Request
  <2> QED BY <1>1, <2>1 DEF RequestInv, PendingInv, ValidatedInv, WalkInv,
                            ReplyInv, historyVars
<1>3. CASE Answer(r, "busy")
    BY <1>3, AnswerRequest DEF Replies
<1> QED BY <1>2, <1>3 DEF Admit

LEMMA ValidateRequest ==
    ASSUME TypeOK, NEW r \in Requests, ValidateCandidate(r), RequestInv(r)
    PROVE  RequestInv(r)'
<1> DEFINE c == req[r].candidate
<1>1. req[r].phase = "admitted" /\ UNCHANGED <<graph, historyVars, objectVars>>
    BY DEF ValidateCandidate, At
<1>2. c \in Commits
    BY <1>1 DEF RequestInv, PendingInv
<1>3. CASE \E reply \in {"missing", "invalid"} : Answer(r, reply)
    BY <1>3, AnswerRequest DEF Replies
<1>4. ASSUME c \in stored, AcceptableCandidate(r)
      PROVE  /\ c \notin graph.refused
             /\ graph.first[c] = req[r].expected
             /\ ~ Incomplete(c) => graph.snapshot[c] \subseteq stored
    BY <1>4 DEF AcceptableCandidate, ValidCommitParents, Incomplete
<1>5. CASE /\ c \in stored /\ AcceptableCandidate(r)
           /\ graph.second[c] = NoCommit
           /\ ~ Incomplete(c)
           /\ Conclude(r, {}, Incomplete(c))
  <2>1. /\ req'[r].phase = "validated" /\ req'[r].candidate = c
        /\ req'[r].expected = req[r].expected /\ req'[r].version = req[r].version
        /\ req'[r].reply = req[r].reply /\ req'[r].sources = {}
        /\ req'[r].missing = FALSE
      BY <1>5 DEF Conclude, TypeOK, Request
  <2>2. PendingInv(r)' /\ ReplyInv(r)'
      BY <1>1, <2>1 DEF RequestInv, PendingInv, ReplyInv, historyVars
  <2>3. ValidatedInv(r)'
      BY <1>1, <1>4, <1>5, <2>1 DEF ValidatedInv, historyVars, objectVars
  <2>4. WalkInv(r)'
      BY <1>1, <1>5, <2>1 DEF WalkInv, Chain
  <2> QED BY <2>2, <2>3, <2>4 DEF RequestInv
<1>6. CASE /\ c \in stored /\ AcceptableCandidate(r)
           /\ graph.second[c] # NoCommit
           /\ req' = [req EXCEPT ![r].phase = "walk",
                                 ![r].current = graph.second[c],
                                 ![r].depth = 1,
                                 ![r].missing = Incomplete(c)]
  <2>1. /\ req'[r].phase = "walk" /\ req'[r].candidate = c
        /\ req'[r].expected = req[r].expected /\ req'[r].version = req[r].version
        /\ req'[r].reply = req[r].reply /\ req'[r].sources = req[r].sources
        /\ req'[r].missing = Incomplete(c)
        /\ req'[r].current = graph.second[c]
      BY <1>6 DEF TypeOK, Request
  <2>2. req[r].sources = {}
      BY <1>1 DEF RequestInv, PendingInv
  <2>3. PendingInv(r)' /\ ReplyInv(r)'
      BY <1>1, <2>1 DEF RequestInv, PendingInv, ReplyInv, historyVars
  <2>4. ValidatedInv(r)'
    <3>1. ~ req'[r].missing =>
             \A x \in {c} : graph'.snapshot[x] \subseteq stored'
        BY <1>1, <1>4, <1>6, <2>1 DEF objectVars
    <3>2. /\ c \in stored' /\ c \notin graph'.refused
          /\ graph'.first[c] = req[r].expected
        BY <1>1, <1>4, <1>6 DEF objectVars
    <3> QED BY <2>1, <2>2, <3>1, <3>2 DEF ValidatedInv
  <2>5. WalkInv(r)'
    <3>1. graph.second[c] \in Commits /\ graph.second[c] < c
        BY <1>2, <1>6, FirstParentIsCommit DEF CommitOrNone
    <3>2. Chain(c, {}, graph.second[c])
        BY DEF Chain
    <3> QED BY <1>1, <2>1, <2>2, <3>1, <3>2 DEF WalkInv, Chain
  <2> QED BY <2>3, <2>4, <2>5 DEF RequestInv
<1> QED BY <1>1, <1>3, <1>5, <1>6 DEF ValidateCandidate, Refuse, Conclude

LEMMA VisitRequest ==
    ASSUME TypeOK, RolesSound, NEW r \in Requests, VisitSource(r), RequestInv(r)
    PROVE  RequestInv(r)'
<1> DEFINE s == req[r].current
<1>1. req[r].phase = "walk" /\ UNCHANGED <<graph, historyVars, objectVars>>
    BY DEF VisitSource, At
<1>2. CASE \E reply \in {"missing", "invalid", "too_large"} : Answer(r, reply)
    BY <1>2, AnswerRequest DEF Replies
<1>3. CASE /\ FreshSource(r) /\ s \in stored /\ ShapedSource(s)
           /\ req' = [req EXCEPT ![r].phase = "check"]
  <2>1. /\ req'[r].phase = "check" /\ req'[r].candidate = req[r].candidate
        /\ req'[r].expected = req[r].expected /\ req'[r].version = req[r].version
        /\ req'[r].reply = req[r].reply /\ req'[r].sources = req[r].sources
        /\ req'[r].missing = req[r].missing /\ req'[r].current = s
      BY <1>3 DEF TypeOK, Request
  <2>2. PendingInv(r)' /\ ReplyInv(r)'
      BY <1>1, <2>1 DEF RequestInv, PendingInv, ReplyInv, historyVars
  <2>3. ValidatedInv(r)'
      BY <1>1, <2>1 DEF RequestInv, ValidatedInv, SourceInv, historyVars,
                        objectVars, Mainline
  <2>4. WalkInv(r)'
      BY <1>1, <1>3, <2>1 DEF RequestInv, WalkInv, Chain, FreshSource,
                              ShapedSource, historyVars, objectVars
  <2> QED BY <2>2, <2>3, <2>4 DEF RequestInv
<1> QED BY <1>1, <1>2, <1>3 DEF VisitSource, Refuse

(* One more source lengthens the chain.                                    *)
LEMMA ChainGrows ==
    ASSUME NEW c, NEW S, NEW e \in Commits, Chain(c, S, e), NoCommit \notin Commits
    PROVE  Chain(c, S \cup {e}, graph.second[e])
    BY DEF Chain

LEMMA CheckRequest ==
    ASSUME TypeOK, NEW r \in Requests, CheckSource(r), RequestInv(r)
    PROVE  RequestInv(r)'
<1> DEFINE s == req[r].current
           p == graph.first[s]
           S == req[r].sources \cup {s}
<1>1. req[r].phase = "check" /\ UNCHANGED <<graph, historyVars, objectVars>>
    BY DEF CheckSource, At
<1>2. CASE \E reply \in {"missing", "invalid"} : Answer(r, reply)
    BY <1>2, AnswerRequest DEF Replies
<1>3. ASSUME role[p] = Mainline(p)
      PROVE  \A x \in S : SourceInv(r, x)
  <2>1. \A x \in req[r].sources : SourceInv(r, x)
      BY <1>1 DEF RequestInv, ValidatedInv
  <2>2. SourceInv(r, s)
      BY <1>1, <1>3 DEF RequestInv, WalkInv, SourceInv, ShapedSource
  <2> QED BY <2>1, <2>2
<1>4. ~ (req[r].missing \/ Incomplete(s)) =>
         \A x \in S \cup {req[r].candidate} : graph.snapshot[x] \subseteq stored
    BY <1>1 DEF RequestInv, ValidatedInv, Incomplete
<1>5. /\ s \in Commits /\ s < req[r].candidate /\ req[r].candidate \in Commits
      /\ Chain(req[r].candidate, S, graph.second[s])
    BY <1>1, ChainGrows, CommitAssumption
    DEF CommitAssumption, RequestInv, WalkInv, PendingInv
<1>6. CASE /\ role[p] = Mainline(p) /\ graph.second[s] = NoCommit
           /\ ~ (req[r].missing \/ Incomplete(s))
           /\ Conclude(r, S, req[r].missing \/ Incomplete(s))
  <2>1. /\ req'[r].phase = "validated" /\ req'[r].candidate = req[r].candidate
        /\ req'[r].expected = req[r].expected /\ req'[r].version = req[r].version
        /\ req'[r].reply = req[r].reply /\ req'[r].sources = S
        /\ req'[r].missing = FALSE
      BY <1>6 DEF Conclude, TypeOK, Request
  <2>2. PendingInv(r)' /\ ReplyInv(r)'
      BY <1>1, <2>1 DEF RequestInv, PendingInv, ReplyInv, historyVars
  <2>3. ValidatedInv(r)'
      BY <1>1, <1>3, <1>4, <1>6, <2>1
      DEF RequestInv, ValidatedInv, SourceInv, historyVars, objectVars, Mainline
  <2>4. WalkInv(r)'
      BY <1>1, <1>5, <1>6, <2>1 DEF WalkInv, Chain
  <2> QED BY <2>2, <2>3, <2>4 DEF RequestInv
<1>7. CASE /\ role[p] = Mainline(p) /\ graph.second[s] # NoCommit
           /\ req' = [req EXCEPT ![r].phase = "walk",
                                 ![r].current = graph.second[s],
                                 ![r].depth = @ + 1,
                                 ![r].sources = @ \cup {s},
                                 ![r].missing = @ \/ Incomplete(s)]
  <2>1. /\ req'[r].phase = "walk" /\ req'[r].candidate = req[r].candidate
        /\ req'[r].expected = req[r].expected /\ req'[r].version = req[r].version
        /\ req'[r].reply = req[r].reply /\ req'[r].sources = S
        /\ req'[r].current = graph.second[s]
        /\ req'[r].missing = (req[r].missing \/ Incomplete(s))
      BY <1>7 DEF TypeOK, Request
  <2>2. PendingInv(r)' /\ ReplyInv(r)'
      BY <1>1, <2>1 DEF RequestInv, PendingInv, ReplyInv, historyVars
  <2>3. ValidatedInv(r)'
    <3>1. \A x \in S : SourceInv(r, x)'
        BY <1>1, <1>3, <1>7, <2>1 DEF SourceInv, historyVars, objectVars, Mainline
    <3>2. ~ req'[r].missing =>
             \A x \in S \cup {req[r].candidate} : graph'.snapshot[x] \subseteq stored'
        BY <1>1, <1>4, <2>1 DEF objectVars
    <3>3. /\ req[r].candidate \in stored' /\ req[r].candidate \notin graph'.refused
          /\ graph'.first[req[r].candidate] = req[r].expected
        BY <1>1 DEF RequestInv, ValidatedInv, objectVars
    <3> QED BY <2>1, <3>1, <3>2, <3>3 DEF ValidatedInv
  <2>4. graph.second[s] \in Commits /\ graph.second[s] < req[r].candidate
    <3>1. s \in Nat /\ req[r].candidate \in Nat
        BY <1>5, FirstParentIsCommit
    <3>2. graph.second[s] < s /\ graph.second[s] \in Commits /\ graph.second[s] \in Nat
        BY <1>5, <1>7, FirstParentIsCommit DEF CommitOrNone
    <3> QED BY <1>5, <3>1, <3>2
  <2>5. WalkInv(r)'
      BY <1>1, <1>5, <2>1, <2>4 DEF WalkInv, Chain
  <2> QED BY <2>2, <2>3, <2>5 DEF RequestInv
<1> QED BY <1>1, <1>2, <1>6, <1>7 DEF CheckSource, Refuse, Conclude

-----------------------------------------------------------------------------
(* The transaction.                                                        *)

(* When the transaction finds Head and version as the handler first read   *)
(* them, everything validation saw at its several instants holds at once.  *)
LEMMA ValidatedStillHolds ==
    ASSUME IInv, NEW r \in Requests, At(r, "validated"), SameHead(r),
           NEW c, c = req[r].candidate, NEW S, S = req[r].sources
    PROVE  /\ c \in Commits /\ S \subseteq Commits /\ c \notin S
           /\ graph.first[c] = head
           /\ head < c
           /\ Chain(c, S, NoCommit)
           /\ \A x \in S \cup {c} :
                 /\ x \notin published /\ role[x] = Unpublished
                 /\ x \notin graph.refused
                 /\ x \in stored /\ graph.snapshot[x] \subseteq stored
           /\ \A s \in S :
                 /\ s < c
                 /\ graph.first[s] \in published
                 /\ role[graph.first[s]] = Mainline(graph.first[s])
<1>1. /\ req[r].phase = "validated" /\ RequestInv(r) /\ TypeOK /\ HistoryInv
      /\ req[r].version = version /\ req[r].expected = head
    BY DEF At, SameHead, IInv
<1>2. c \in Commits /\ S \subseteq Commits
    BY <1>1, SourceType DEF RequestInv, PendingInv
<1>3. graph.first[c] = head /\ head < c /\ c \in Nat /\ head \in Int
  <2>1. graph.first[c] = head
      BY <1>1 DEF RequestInv, ValidatedInv
  <2>2. head \in Int
      BY <1>1, CommitAssumption DEF CommitAssumption, TypeOK, CommitOrNone, NoCommit
  <2> QED BY <1>1, <1>2, <2>1, <2>2, FirstParentIsCommit
<1>4. Chain(c, S, NoCommit)
    BY <1>1 DEF RequestInv, WalkInv
<1>5. \A s \in S : SourceInv(r, s)
    BY <1>1 DEF RequestInv, ValidatedInv
<1>6. c \notin published
    BY <1>1, <1>3 DEF HistoryInv, HeadIsNewest
<1>7. \A s \in S : s < c /\ s \notin published
    BY <1>1, <1>5 DEF SourceInv
<1>8. c \notin S
    BY <1>3, <1>7
<1>9. \A x \in S \cup {c} : x \notin published /\ role[x] = Unpublished
    BY <1>1, <1>2, <1>6, <1>7 DEF HistoryInv, RolesSound
<1>10. \A x \in S \cup {c} :
          /\ x \notin graph.refused /\ x \in stored
          /\ graph.snapshot[x] \subseteq stored
    BY <1>1, <1>5 DEF RequestInv, ValidatedInv, WalkInv, SourceInv
<1>11. ASSUME NEW s \in S
       PROVE  /\ graph.first[s] \in published
              /\ role[graph.first[s]] = Mainline(graph.first[s])
  <2>1. graph.first[s] \in Commits /\ role[graph.first[s]] = Mainline(graph.first[s])
      BY <1>1, <1>2, <1>5, <1>11, FirstParentIsCommit DEF SourceInv, CommitOrNone
  <2>2. Mainline(graph.first[s]) # Unpublished
      BY DEF Mainline, Unpublished
  <2> QED BY <1>1, <2>1, <2>2 DEF HistoryInv, RolesSound
<1> QED BY <1>2, <1>3, <1>4, <1>7, <1>8, <1>9, <1>10, <1>11

(* The roll-back on unequal role rows is unreachable.                      *)
LEMMA NoConflictAtCommit ==
    ASSUME IInv, NEW r \in Requests, At(r, "validated"), SameHead(r)
    PROVE  ~ RoleConflict(r)
<1>1. /\ req[r].candidate \notin req[r].sources
      /\ \A x \in req[r].sources \cup {req[r].candidate} : role[x] = Unpublished
    BY ValidatedStillHolds
<1> QED BY <1>1 DEF RoleConflict, IntroducedRoles

(* The publication of c with the sources S.                                *)
Publication(r, c, S) ==
    /\ r \in Requests /\ At(r, "validated") /\ SameHead(r)
    /\ c = req[r].candidate /\ S = req[r].sources
    /\ head' = c
    /\ version' = version + 1
    /\ published' = published \cup S \cup {c}
    /\ role' = [x \in Commits |-> IF x = c THEN Mainline(c)
                                  ELSE IF x \in S THEN MergeSource(c)
                                  ELSE role[x]]
    /\ req' = [req EXCEPT ![r].phase = "committed"]
    /\ UNCHANGED <<graph, objectVars>>

LEMMA UpdateCases ==
    ASSUME IInv, NEW r \in Requests, UpdateHead(r)
    PROVE  \/ Publication(r, req[r].candidate, req[r].sources)
           \/ ~ SameHead(r) /\ Answer(r, "conflict") /\ UNCHANGED historyVars
<1> DEFINE c == req[r].candidate
           S == req[r].sources
           new == IntroducedRoles(c, S)
<1>1. CASE ~ SameHead(r)
    BY <1>1 DEF UpdateHead
<1>2. CASE SameHead(r)
  <2>1. ~ RoleConflict(r)
      BY <1>2, NoConflictAtCommit DEF UpdateHead
  <2>2. /\ head' = c /\ version' = version + 1
        /\ published' = published \cup DOMAIN new
        /\ role' = [x \in Commits |-> IF x \in DOMAIN new THEN new[x] ELSE role[x]]
        /\ req' = [req EXCEPT ![r].phase = "committed"]
        /\ UNCHANGED <<graph, objectVars>>
      BY <1>2, <2>1 DEF UpdateHead
  <2>3. /\ DOMAIN new = S \cup {c}
        /\ \A x \in S \cup {c} : new[x] = IF x = c THEN Mainline(c) ELSE MergeSource(c)
      BY DEF IntroducedRoles
  <2>4. role' = [x \in Commits |-> IF x = c THEN Mainline(c)
                                   ELSE IF x \in S THEN MergeSource(c)
                                   ELSE role[x]]
      BY <2>2, <2>3
  <2> QED BY <1>2, <2>2, <2>3, <2>4 DEF Publication, UpdateHead
<1> QED BY <1>1, <1>2

LEMMA PublicationHistory ==
    ASSUME IInv, NEW r, NEW c, NEW S, Publication(r, c, S)
    PROVE  HistoryInv' /\ Progress
<1>1. /\ c \in Commits /\ S \subseteq Commits /\ c \notin S
      /\ graph.first[c] = head
      /\ head < c
      /\ Chain(c, S, NoCommit)
      /\ \A x \in S \cup {c} :
            /\ x \notin published /\ role[x] = Unpublished
            /\ x \notin graph.refused
            /\ x \in stored /\ graph.snapshot[x] \subseteq stored
      /\ \A s \in S :
            /\ s < c
            /\ graph.first[s] \in published
            /\ role[graph.first[s]] = Mainline(graph.first[s])
    BY ValidatedStillHolds DEF Publication
<1>2. TypeOK /\ HistoryInv
    BY DEF IInv
<1>3. /\ graph' = graph /\ stored' = stored /\ head' = c /\ version' = version + 1
      /\ published' = published \cup S \cup {c}
      /\ \A x \in Commits : role'[x] = IF x = c THEN Mainline(c)
                                       ELSE IF x \in S THEN MergeSource(c)
                                       ELSE role[x]
    BY DEF Publication, objectVars
<1>4. /\ published \subseteq Commits /\ Commits \subseteq Nat /\ NoCommit \notin Commits
      /\ c \in Nat /\ c # NoCommit /\ head \in Nat /\ version \in Nat
    BY <1>1, <1>2, CommitAssumption DEF CommitAssumption, TypeOK, CommitOrNone, NoCommit
<1>5. \A x \in published : role'[x] = role[x] /\ x # c /\ x \notin S
    BY <1>1, <1>3, <1>4
<1>6. head # NoCommit => head \in published /\ role[head] = Mainline(head)
    BY <1>2 DEF HistoryInv, HistoryLinked, RolesSound
<1>7. HistoryLinked'
  <2>1. ASSUME NEW x \in published'
        PROVE  {graph.first[x], graph.second[x]} \subseteq published' \cup {NoCommit}
    <3>1. CASE x \in published
        BY <1>2, <1>3, <3>1 DEF HistoryInv, HistoryLinked
    <3>2. CASE x \in S \cup {c}
      <4>1. graph.second[x] \in S \cup {NoCommit}
          BY <1>1, <3>2 DEF Chain
      <4>2. graph.first[x] \in published \cup {NoCommit}
          BY <1>1, <1>6, <3>2
      <4> QED BY <1>1, <1>3, <3>2, <4>1, <4>2
    <3> QED BY <1>3, <2>1, <3>1, <3>2
  <2> QED BY <1>3, <2>1 DEF HistoryLinked
<1>8. HeadIsNewest'
  <2>1. \A x \in published : x <= head
      BY <1>2 DEF HistoryInv, HeadIsNewest
  <2>2. ASSUME NEW x \in published'
        PROVE  x <= c
    <3>1. CASE x \in published
        BY <1>1, <1>4, <2>1, <3>1
    <3>2. CASE x \in S \cup {c}
        BY <1>1, <1>4, <3>2
    <3> QED BY <1>3, <2>2, <3>1, <3>2
  <2> QED BY <1>3, <2>2 DEF HeadIsNewest
<1>9. \A x \in Commits : /\ role'[x] = Mainline(x) <=> role[x] = Mainline(x) \/ x = c
                         /\ role'[x] = Unpublished <=> x \notin published'
  <2>1. \A x \in Commits : role[x] = Unpublished <=> x \notin published
      BY <1>2 DEF HistoryInv, RolesSound
  <2>2. \A x \in S : MergeSource(c) # Mainline(x) /\ Unpublished # Mainline(x)
      BY DEF MergeSource, Mainline, Unpublished
  <2>3. Mainline(c) # Unpublished /\ MergeSource(c) # Unpublished
      BY DEF MergeSource, Mainline, Unpublished
  <2> QED BY <1>1, <1>3, <1>4, <2>1, <2>2, <2>3
<1>10. RolesSound'
  <2>1. ASSUME NEW x \in published', graph.first[x] # NoCommit
        PROVE  role'[graph.first[x]] = Mainline(graph.first[x])
    <3>1. CASE x \in published
      <4>1. role[graph.first[x]] = Mainline(graph.first[x])
          BY <1>2, <2>1, <3>1 DEF HistoryInv, RolesSound
      <4>2. graph.first[x] \in published
          BY <1>2, <2>1, <3>1 DEF HistoryInv, HistoryLinked
      <4> QED BY <1>5, <4>1, <4>2
    <3>2. CASE x \in S
        BY <1>1, <1>5, <3>2
    <3>3. CASE x = c
        BY <1>1, <1>5, <1>6, <2>1, <3>3
    <3> QED BY <1>3, <2>1, <3>1, <3>2, <3>3
  <2>2. ASSUME NEW x \in published', role'[x] # Mainline(x)
        PROVE  /\ graph.first[x] # NoCommit
               /\ role'[role'[x].mainline] = Mainline(role'[x].mainline)
               /\ x < role'[x].mainline
    <3>1. CASE x \in published
      <4>1. role'[x] = role[x] /\ role[x] # Mainline(x) /\ x \in Commits
          BY <1>4, <1>5, <2>2, <3>1
      <4>2. /\ graph.first[x] # NoCommit
            /\ role[role[x].mainline] = Mainline(role[x].mainline)
            /\ x < role[x].mainline
          BY <1>2, <3>1, <4>1 DEF HistoryInv, RolesSound
      <4>3. role[x].mainline \in Commits
        <5>1. role[x] \in Roles /\ role[x] # Unpublished
            BY <1>2, <3>1, <4>1 DEF TypeOK, HistoryInv, RolesSound
        <5> QED BY <5>1 DEF Roles, Mainline, MergeSource
      <4> QED BY <1>9, <4>1, <4>2, <4>3
    <3>2. CASE x \in S
      <4>1. role'[x] = MergeSource(c)
          BY <1>1, <1>3, <3>2
      <4>2. role'[x].mainline = c
          BY <4>1 DEF MergeSource
      <4>3. graph.first[x] # NoCommit
          BY <1>1, <1>4, <3>2
      <4> QED BY <1>1, <1>9, <3>2, <4>2, <4>3
    <3>3. CASE x = c
        BY <1>1, <1>3, <2>2, <3>3
    <3> QED BY <1>3, <2>2, <3>1, <3>2, <3>3
  <2>3. ASSUME NEW x \in published', NEW y \in published',
               role'[x] = Mainline(x), role'[y] = Mainline(y),
               graph.first[x] = graph.first[y]
        PROVE  x = y
    <3>1. x \in Commits /\ y \in Commits
        BY <1>1, <1>3, <1>4
    <3>2. \A z \in published : z # c /\ graph.first[z] # head
      <4>1. ASSUME NEW z \in published
            PROVE  graph.first[z] # head
        <5>1. z <= head /\ graph.first[z] < z /\ z \in Nat /\ graph.first[z] \in CommitOrNone
            BY <1>2, <1>4, FirstParentIsCommit DEF HistoryInv, HeadIsNewest
        <5> QED BY <1>4, <5>1
      <4> QED BY <1>5, <4>1
    <3>3. CASE x \in published /\ y \in published
      <4>1. role[x] = Mainline(x) /\ role[y] = Mainline(y)
          BY <1>5, <2>3, <3>3
      <4> QED BY <1>2, <2>3, <3>3, <4>1 DEF HistoryInv, RolesSound
    <3>4. (x \in published \/ x = c) /\ (y \in published \/ y = c)
      <4>1. \A z \in S : role'[z] = MergeSource(c)
          BY <1>1, <1>3
      <4>2. \A z \in S : MergeSource(c) # Mainline(z)
          BY DEF MergeSource, Mainline
      <4> QED BY <1>3, <2>3, <4>1, <4>2
    <3> QED BY <1>1, <2>3, <3>2, <3>3, <3>4
  <2>4. /\ \A x \in Commits : role'[x] = Unpublished <=> x \notin published'
        /\ role'[c] = Mainline(c)
      BY <1>1, <1>9
  <2> QED BY <1>3, <2>1, <2>2, <2>3, <2>4 DEF RolesSound, Mainline, Unpublished
<1>11. VersionCountsMainline'
  <2> DEFINE M == {x \in Commits : role[x] = Mainline(x)}
  <2>1. {x \in Commits : role'[x] = Mainline(x)} = M \cup {c}
      BY <1>1, <1>9
  <2>2. role[c] # Mainline(c)
      BY <1>1 DEF Mainline, Unpublished
  <2>3. IsFiniteSet(M) /\ c \notin M
      BY <2>2, CommitAssumption, FS_Subset DEF CommitAssumption
  <2>4. Cardinality(M \cup {c}) = Cardinality(M) + 1
      BY <2>3, FS_AddElement
  <2>5. version = Cardinality(M)
      BY <1>2 DEF HistoryInv, VersionCountsMainline
  <2> QED BY <1>3, <2>1, <2>4, <2>5 DEF VersionCountsMainline, Mainline
<1>12. Progress
    BY <1>1, <1>3, <1>4, <1>9 DEF Progress
<1> QED BY <1>7, <1>8, <1>10, <1>11, <1>12 DEF HistoryInv

-----------------------------------------------------------------------------
(* The invariant is inductive.                                             *)

LEMMA InitInv == Init => IInv
<1> SUFFICES ASSUME Init PROVE IInv
    OBVIOUS
<1>1. TypeOK
    BY TypeInit
<1>2. LimiterInv
    BY DEF Init, LimiterInv, Idle, Slotted
<1>3. HistoryInv
  <2>1. {c \in Commits : role[c] = Mainline(c)} = {}
      BY DEF Init, Mainline, Unpublished
  <2>2. VersionCountsMainline
      BY <2>1, FS_EmptySet DEF Init, VersionCountsMainline
  <2> QED BY <2>2 DEF Init, HistoryInv, HistoryLinked, RolesSound, HeadIsNewest
<1>4. ASSUME NEW r \in Requests PROVE RequestInv(r)
  <2>1. req[r] = Idle
      BY DEF Init
  <2> QED BY <2>1 DEF Idle, RequestInv, PendingInv, ValidatedInv, WalkInv, ReplyInv
<1> QED BY <1>1, <1>2, <1>3, <1>4 DEF IInv

LEMMA HistoryFrame ==
    ASSUME HistoryInv, UNCHANGED <<graph, historyVars>>
    PROVE  HistoryInv'
    BY DEF HistoryInv, historyVars, HistoryLinked, RolesSound,
           VersionCountsMainline, HeadIsNewest, Mainline, Unpublished

LEMMA QuietProgress ==
    ASSUME TypeOK, UNCHANGED <<graph, historyVars>>, stored \subseteq stored'
    PROVE  Progress
    BY DEF TypeOK, Progress, historyVars

(* A step of one handler that leaves the history alone.                    *)
LEMMA HandlerFrame ==
    ASSUME IInv, TypeOK', LimiterInv', UNCHANGED <<graph, historyVars, objectVars>>,
           NEW r \in Requests, RequestInv(r)',
           \A s \in Requests \ {r} : req'[s] = req[s]
    PROVE  IInv'
<1>1. HistoryInv' /\ Progress
    BY HistoryFrame, QuietProgress DEF IInv, objectVars
<1>2. ASSUME NEW s \in Requests \ {r} PROVE RequestInv(s)'
    BY <1>1, <1>2, RequestFrame DEF IInv, TypeOK
<1> QED BY <1>1, <1>2 DEF IInv

LEMMA HandlerInv ==
    ASSUME IInv, NEW r \in Requests,
           \/ \E c \in Commits, v \in 0 .. version : Begin(r, c, v)
           \/ Handle(r)
           \/ Abandon(r)
    PROVE  IInv'
<1>1. TypeOK /\ LimiterInv /\ HistoryInv /\ RequestInv(r)
    BY DEF IInv
<1>2. LimiterInv'
    BY <1>1, HandlerLimiter
<1>3. ASSUME NEW c \in Commits, NEW v \in 0 .. version, Begin(r, c, v)
      PROVE  IInv'
  <2>1. TypeOK' /\ RequestInv(r)'
      BY <1>1, <1>3, BeginType, BeginRequest
  <2>2. \A s \in Requests \ {r} : req'[s] = req[s]
      BY <1>1, <1>3 DEF Begin, TypeOK
  <2> QED BY <1>2, <1>3, <2>1, <2>2, HandlerFrame DEF Begin
<1>4. CASE Admit(r)
  <2>1. TypeOK' /\ RequestInv(r)'
      BY <1>1, <1>4, AdmitType, AdmitRequest
  <2>2. \A s \in Requests \ {r} : req'[s] = req[s]
      BY <1>1, <1>4, OthersOfAnswer DEF Admit, TypeOK, Replies
  <2> QED BY <1>2, <1>4, <2>1, <2>2, HandlerFrame DEF Admit
<1>5. CASE ValidateCandidate(r)
  <2>1. TypeOK' /\ RequestInv(r)'
      BY <1>1, <1>5, ValidateType, ValidateRequest
  <2>2. \A s \in Requests \ {r} : req'[s] = req[s]
      BY <1>1, <1>5, OthersOfAnswer
      DEF ValidateCandidate, Refuse, Conclude, TypeOK, Replies
  <2> QED BY <1>2, <1>5, <2>1, <2>2, HandlerFrame DEF ValidateCandidate
<1>6. CASE VisitSource(r)
  <2>1. TypeOK' /\ RequestInv(r)'
      BY <1>1, <1>6, VisitType, VisitRequest DEF HistoryInv
  <2>2. \A s \in Requests \ {r} : req'[s] = req[s]
      BY <1>1, <1>6, OthersOfAnswer DEF VisitSource, Refuse, TypeOK, Replies
  <2> QED BY <1>2, <1>6, <2>1, <2>2, HandlerFrame DEF VisitSource
<1>7. CASE CheckSource(r)
  <2>1. req[r].current \in Commits
      BY <1>1, <1>7 DEF CheckSource, At, RequestInv, WalkInv
  <2>2. TypeOK' /\ RequestInv(r)'
      BY <1>1, <1>7, <2>1, CheckType, CheckRequest
  <2>3. \A s \in Requests \ {r} : req'[s] = req[s]
      BY <1>1, <1>7, OthersOfAnswer
      DEF CheckSource, Refuse, Conclude, TypeOK, Replies
  <2> QED BY <1>2, <1>7, <2>2, <2>3, HandlerFrame DEF CheckSource
<1>8. CASE UpdateHead(r)
  <2>1. req[r].candidate \in Commits
      BY <1>1, <1>8 DEF UpdateHead, At, RequestInv, PendingInv
  <2>2. TypeOK'
      BY <1>1, <1>8, <2>1, UpdateType
  <2>3. CASE ~ SameHead(r) /\ Answer(r, "conflict") /\ UNCHANGED historyVars
    <3>1. req[r].version < version
      <4>1. /\ req[r].version <= version
            /\ req[r].version = version => req[r].expected = head
          BY <1>1, <1>8 DEF UpdateHead, At, RequestInv, PendingInv
      <4>2. req[r].version \in Nat /\ version \in Nat
          BY <1>1, SourceType DEF TypeOK
      <4> QED BY <2>3, <4>1, <4>2 DEF SameHead
    <3>2. RequestInv(r)'
        BY <1>1, <2>3, <3>1, AnswerRequest DEF historyVars, Replies
    <3>3. \A s \in Requests \ {r} : req'[s] = req[s]
        BY <1>1, <2>3, OthersOfAnswer DEF Replies
    <3> QED BY <1>2, <1>8, <2>2, <2>3, <3>2, <3>3, HandlerFrame DEF UpdateHead
  <2>4. CASE Publication(r, req[r].candidate, req[r].sources)
    <3>1. HistoryInv' /\ Progress
        BY <2>4, PublicationHistory
    <3>2. /\ req'[r].phase = "committed" /\ req'[r].reply = req[r].reply
          /\ req'[r].version = req[r].version
          /\ \A s \in Requests \ {r} : req'[s] = req[s]
        BY <1>1, <2>4 DEF Publication, TypeOK, Request
    <3>3. RequestInv(r)'
      <4>1. req[r].version \in Nat /\ version \in Nat /\ version' \in Nat
          BY <1>1, <2>2, SourceType DEF TypeOK
      <4>2. ReplyInv(r)'
          BY <1>1, <3>1, <3>2, <4>1 DEF RequestInv, ReplyInv, Progress
      <4> QED BY <3>2, <4>2 DEF RequestInv, PendingInv, ValidatedInv, WalkInv
    <3>4. ASSUME NEW s \in Requests \ {r} PROVE RequestInv(s)'
        BY <1>1, <2>2, <3>1, <3>2, <3>4, RequestFrame DEF IInv, TypeOK
    <3> QED BY <1>2, <2>2, <3>1, <3>3, <3>4 DEF IInv
  <2> QED BY <1>8, <2>3, <2>4, UpdateCases
<1>9. CASE Respond(r)
  <2>1. PICK reply \in {"ok", "unavailable"} : Answer(r, reply)
      BY <1>9 DEF Respond
  <2>2. TypeOK' /\ RequestInv(r)'
      BY <1>1, <1>9, <2>1, RespondType, AnswerRequest DEF Replies
  <2>3. \A s \in Requests \ {r} : req'[s] = req[s]
      BY <1>1, <2>1, OthersOfAnswer DEF Replies
  <2> QED BY <1>2, <1>9, <2>2, <2>3, HandlerFrame DEF Respond
<1>10. CASE Abandon(r)
  <2>1. Answer(r, "unavailable")
      BY <1>10 DEF Abandon, Refuse
  <2>2. TypeOK' /\ RequestInv(r)'
      BY <1>1, <1>10, <2>1, AbandonType, AnswerRequest DEF Replies
  <2>3. \A s \in Requests \ {r} : req'[s] = req[s]
      BY <1>1, <2>1, OthersOfAnswer DEF Replies
  <2> QED BY <1>2, <1>10, <2>2, <2>3, HandlerFrame DEF Abandon
<1> QED BY <1>3, <1>4, <1>5, <1>6, <1>7, <1>8, <1>9, <1>10 DEF Handle

LEMMA EnvironmentInv ==
    ASSUME IInv,
           \/ OtherLibrary
           \/ \E o \in Objects : LinkObject(o) \/ SyncObject(o)
           \/ Crash
           \/ Start
    PROVE  IInv'
<1>1. TypeOK /\ LimiterInv /\ HistoryInv
    BY DEF IInv
<1>2. TypeOK' /\ LimiterInv'
    BY <1>1, EnvironmentType, EnvironmentLimiter
<1>3. UNCHANGED <<graph, historyVars>> /\ stored \subseteq stored'
    BY DEF OtherLibrary, LinkObject, SyncObject, Crash, Start, objectVars
<1>4. HistoryInv' /\ Progress
    BY <1>1, <1>3, HistoryFrame, QuietProgress
<1>5. ASSUME NEW r \in Requests PROVE RequestInv(r)'
  <2>1. CASE Crash
      BY <2>1, IdleRequest DEF Crash
  <2>2. CASE ~ Crash
    <3>1. req' = req
        BY <2>2 DEF OtherLibrary, LinkObject, SyncObject, Start
    <3> QED BY <1>1, <1>2, <1>4, <3>1, RequestFrame DEF IInv, TypeOK
  <2> QED BY <2>1, <2>2
<1> QED BY <1>2, <1>4, <1>5 DEF IInv

LEMMA StutterInv ==
    ASSUME IInv, UNCHANGED vars
    PROVE  IInv'
<1>1. TypeOK /\ LimiterInv /\ HistoryInv
    BY DEF IInv
<1>2. TypeOK' /\ LimiterInv'
    BY <1>1, QuietType, SlotsKept DEF vars, TypeOK
<1>3. HistoryInv' /\ Progress
    BY <1>1, HistoryFrame, QuietProgress DEF vars, objectVars
<1>4. \A r \in Requests : RequestInv(r)'
    BY <1>1, <1>2, <1>3, RequestFrame DEF IInv, vars, TypeOK
<1> QED BY <1>2, <1>3, <1>4 DEF IInv

LEMMA StepInv == IInv /\ [Next]_vars => IInv'
<1> SUFFICES ASSUME IInv, [Next]_vars PROVE IInv'
    OBVIOUS
<1>1. CASE UNCHANGED vars
    BY <1>1, StutterInv
<1>2. CASE Next
    BY <1>2, HandlerInv, EnvironmentInv DEF Next
<1> QED BY <1>1, <1>2

LEMMA Invariance == Spec => []IInv
    BY InitInv, StepInv, PTL DEF Spec

(* What a step of the server does to the objects of the history: it takes  *)
(* none away, and publishes only commits whose objects are all there.      *)
PublishedStored ==
    \A c \in published : c \in stored /\ graph.snapshot[c] \subseteq stored

PublishesStored ==
    /\ graph' = graph
    /\ published \subseteq published'
    /\ stored \subseteq stored'
    /\ \A c \in published' \ published :
          c \in stored /\ graph.snapshot[c] \subseteq stored

LEMMA StepPublishesStored ==
    ASSUME IInv, [Next]_vars
    PROVE  PublishesStored
<1>1. CASE UNCHANGED <<graph, historyVars>> /\ stored \subseteq stored'
    BY <1>1 DEF historyVars, PublishesStored
<1>2. ASSUME NEW r \in Requests, UpdateHead(r)
      PROVE  PublishesStored
  <2>1. CASE Publication(r, req[r].candidate, req[r].sources)
    <3> DEFINE c == req[r].candidate
               S == req[r].sources
    <3>1. \A x \in S \cup {c} : x \in stored /\ graph.snapshot[x] \subseteq stored
        BY <2>1, ValidatedStillHolds DEF Publication
    <3>2. /\ published' = published \cup S \cup {c}
          /\ graph' = graph /\ stored' = stored
        BY <2>1 DEF Publication, objectVars
    <3> QED BY <3>1, <3>2 DEF PublishesStored
  <2>2. CASE UNCHANGED historyVars
      BY <1>1, <1>2, <2>2 DEF UpdateHead, objectVars
  <2> QED BY <1>2, <2>1, <2>2, UpdateCases
<1>3. CASE Next
  <2>1. ASSUME NEW r \in Requests,
               \/ \E c \in Commits, v \in 0 .. version : Begin(r, c, v)
               \/ Admit(r) \/ ValidateCandidate(r) \/ VisitSource(r)
               \/ CheckSource(r) \/ Respond(r) \/ Abandon(r)
        PROVE  UNCHANGED <<graph, historyVars, stored>>
      BY <2>1 DEF Begin, Admit, ValidateCandidate, VisitSource, CheckSource,
                  Respond, Abandon, objectVars
  <2>2. ASSUME \/ OtherLibrary \/ Crash \/ Start
               \/ \E o \in Objects : LinkObject(o) \/ SyncObject(o)
        PROVE  UNCHANGED <<graph, historyVars>> /\ stored \subseteq stored'
      BY <2>2 DEF OtherLibrary, Crash, Start, LinkObject, SyncObject, objectVars
  <2> QED BY <1>1, <1>2, <1>3, <2>1, <2>2 DEF Next, Handle
<1>4. CASE UNCHANGED vars
    BY <1>1, <1>4 DEF vars, objectVars
<1> QED BY <1>3, <1>4

LEMMA StoredKept ==
    ASSUME PublishedStored, PublishesStored
    PROVE  PublishedStored'
    BY DEF PublishedStored, PublishesStored

LEMMA CompleteIsLinkedAndStored ==
    ASSUME IInv
    PROVE  PublishedIsComplete <=> PublishedStored
    BY DEF IInv, HistoryInv, HistoryLinked, PublishedStored, PublishedIsComplete

-----------------------------------------------------------------------------
(* The tables, the object store and the handlers keep their types: no      *)
(* interleaving drives the limiter's counter below zero or past its limit, *)
(* and durable objects are always visible.                                 *)
THEOREM TypeCorrect == Spec => []TypeOK
<1>1. IInv => TypeOK
    BY DEF IInv
<1> QED BY <1>1, Invariance, PTL

(* The history a client can reach from the Head has no hole, although the  *)
(* handler looked at objects, roles and Head at different instants.        *)
THEOREM HistoryHasNoHole == Spec => []PublishedIsComplete
<1>1. Init => PublishedStored
    BY DEF Init, PublishedStored
<1>2. IInv /\ PublishedStored /\ [Next]_vars => PublishedStored'
    BY StepPublishesStored, StoredKept
<1>3. IInv /\ PublishedStored => PublishedIsComplete
    BY CompleteIsLinkedAndStored
<1> QED BY <1>1, <1>2, <1>3, Invariance, PTL DEF Spec

(* Role rows always describe the shape of the published history.           *)
THEOREM RolesAreSound == Spec => []RolesSound
<1>1. IInv => RolesSound
    BY DEF IInv, HistoryInv
<1> QED BY <1>1, Invariance, PTL

(* The ETag's number is the length of the mainline.                        *)
THEOREM VersionIsMainlineLength == Spec => []VersionCountsMainline
<1>1. IInv => VersionCountsMainline
    BY DEF IInv, HistoryInv
<1> QED BY <1>1, Invariance, PTL

(* The transaction never rolls back on unequal role rows.                  *)
THEOREM RoleConflictUnreachable == Spec => []NoRoleConflict
<1>1. IInv => NoRoleConflict
    BY DEF IInv, NoRoleConflict, RequestInv, ReplyInv
<1> QED BY <1>1, Invariance, PTL

(* No conflict is reported to a client that was up to date.                *)
THEOREM ConflictsAreReal == Spec => []ConflictMeansProgress
<1>1. IInv => ConflictMeansProgress
    BY DEF IInv, ConflictMeansProgress, RequestInv, ReplyInv
<1> QED BY <1>1, Invariance, PTL

(* One validation per library, a slot for each, and no slot leaks.         *)
THEOREM LimiterIsExact == Spec => []LimiterExact
<1>1. ASSUME IInv PROVE LimiterExact
  <2>1. LimiterInv /\ TypeOK
      BY <1>1 DEF IInv
  <2>2. CASE validating
    <3>1. PICK r \in Requests : Holders = {r}
        BY <2>1, <2>2 DEF LimiterInv, Holders
    <3>2. Cardinality(Holders) = 1 /\ Holders # {}
        BY <3>1, FS_Singleton
    <3>3. global = others + 1
        BY <2>1, <2>2 DEF LimiterInv
    <3> QED BY <2>2, <3>2, <3>3 DEF LimiterExact
  <2>3. CASE ~ validating
    <3>1. Holders = {}
        BY <2>1, <2>3 DEF LimiterInv, Holders
    <3>2. Cardinality(Holders) = 0
        BY <3>1, FS_EmptySet
    <3>3. global = others + 0
        BY <2>1, <2>3 DEF LimiterInv
    <3> QED BY <2>3, <3>1, <3>2, <3>3 DEF LimiterExact
  <2> QED BY <2>2, <2>3 DEF TypeOK
<1> QED BY <1>1, Invariance, PTL

-----------------------------------------------------------------------------
(* Requests that read, validate and compare-and-swap in separate steps     *)
(* implement the atomic publication: at the instant the Head moves, all    *)
(* that validation established is true.                                    *)

LEMMA PublicationIsAtomic ==
    ASSUME IInv, NEW r, NEW c, NEW S, Publication(r, c, S)
    PROVE  Atomic!Next
<1>1. /\ c \in Commits /\ S \in SUBSET Commits
      /\ graph.first[c] = head
      /\ Chain(c, S, NoCommit)
      /\ \A x \in S \cup {c} :
            /\ x \notin published /\ x \notin graph.refused
            /\ x \in stored /\ graph.snapshot[x] \subseteq stored
      /\ \A s \in S : /\ graph.first[s] \in published
                      /\ role[graph.first[s]] = Mainline(graph.first[s])
    BY ValidatedStillHolds DEF Publication
<1>2. Atomic!SecondParentChain(c, S)
    BY <1>1 DEF Chain, Atomic!SecondParentChain, Atomic!NoCommit, NoCommit
<1>3. /\ head' = c /\ version' = version + 1
      /\ published' = published \cup S \cup {c}
      /\ role' = [x \in Commits |-> IF x = c THEN Atomic!Mainline(c)
                                    ELSE IF x \in S THEN Atomic!MergeSource(c)
                                    ELSE role[x]]
      /\ UNCHANGED <<graph, stored>>
    BY DEF Publication, objectVars, Mainline, MergeSource,
           Atomic!Mainline, Atomic!MergeSource
<1>4. Atomic!Publish(c, S)
    BY <1>1, <1>2, <1>3 DEF Atomic!Publish, Atomic!Complete, Mainline, Atomic!Mainline
<1> QED BY <1>1, <1>4 DEF Atomic!Next

LEMMA StepIsAtomic == IInv /\ [Next]_vars => [Atomic!Next]_(Atomic!vars)
<1> SUFFICES ASSUME IInv, [Next]_vars PROVE [Atomic!Next]_(Atomic!vars)
    OBVIOUS
<1>1. CASE UNCHANGED <<graph, historyVars, stored>>
    BY <1>1 DEF historyVars, Atomic!vars
<1>2. ASSUME NEW o \in Objects, LinkObject(o)
      PROVE  Atomic!Next
    BY <1>2 DEF LinkObject, Objects, historyVars, Atomic!Next, Atomic!Upload
<1>3. ASSUME NEW r \in Requests, UpdateHead(r)
      PROVE  [Atomic!Next]_(Atomic!vars)
  <2>1. CASE Publication(r, req[r].candidate, req[r].sources)
      BY <2>1, PublicationIsAtomic
  <2>2. CASE UNCHANGED historyVars
      BY <1>1, <1>3, <2>2 DEF UpdateHead, objectVars
  <2> QED BY <1>3, <2>1, <2>2, UpdateCases
<1>4. CASE Next
  <2>1. ASSUME NEW r \in Requests,
               \/ \E c \in Commits, v \in 0 .. version : Begin(r, c, v)
               \/ Admit(r) \/ ValidateCandidate(r) \/ VisitSource(r)
               \/ CheckSource(r) \/ Respond(r) \/ Abandon(r)
        PROVE  UNCHANGED <<graph, historyVars, stored>>
      BY <2>1 DEF Begin, Admit, ValidateCandidate, VisitSource, CheckSource,
                  Respond, Abandon, objectVars
  <2>2. ASSUME \/ OtherLibrary \/ Crash \/ Start
               \/ \E o \in Objects : SyncObject(o)
        PROVE  UNCHANGED <<graph, historyVars, stored>>
      BY <2>2 DEF OtherLibrary, Crash, Start, SyncObject, objectVars
  <2> QED BY <1>1, <1>2, <1>3, <1>4, <2>1, <2>2 DEF Next, Handle
<1>5. CASE UNCHANGED vars
    BY <1>1, <1>5 DEF vars, objectVars
<1> QED BY <1>4, <1>5

LEMMA InitIsAtomic == Init => Atomic!Init
    BY DEF Init, Atomic!Init, Unpublished, Atomic!Unpublished, NoCommit, Atomic!NoCommit

THEOREM PublicationRefinesAtomic == Spec => PublishesAtomically
    BY InitIsAtomic, StepIsAtomic, Invariance, PTL
    DEF Spec, PublishesAtomically, Atomic!Spec

-------------------------------------------------------------------------------
(***************************************************************************)
(* PublishedRoles: the roles migration 6 finds by reading commit objects   *)
(* back from the Head are the roles the server has written, for every set  *)
(* of commits, every graph and every number of handlers.                   *)
(*                                                                         *)
(* A chain of parents is defined by recursion over commits.  Parents are   *)
(* older than their child, so what holds of a commit if it holds of all    *)
(* older ones holds of every commit.                                       *)
(***************************************************************************)
LEMMA CommitInduction ==
    ASSUME NEW B,
           \A x \in CommitOrNone :
               (\A y \in CommitOrNone : y < x => y \in B) => x \in B
    PROVE  \A x \in CommitOrNone : x \in B
<1> SUFFICES ASSUME NEW z \in CommitOrNone, z \notin B PROVE FALSE
    OBVIOUS
<1> DEFINE UpTo(x) == {y \in CommitOrNone : y <= x}
           T == {t \in SUBSET CommitOrNone : \E x \in CommitOrNone : x \notin B /\ t = UpTo(x)}
<1>1. IsFiniteSet(CommitOrNone) /\ \A x \in CommitOrNone : x \in Nat
  <2>1. IsFiniteSet(Commits) /\ \A x \in Commits : x \in Nat
      BY CommitAssumption DEF CommitAssumption
  <2>2. IsFiniteSet(Commits \cup {NoCommit})
      BY <2>1, FS_AddElement
  <2> QED BY <2>1, <2>2 DEF CommitOrNone, NoCommit
<1>2. \A x \in CommitOrNone : x \notin B => UpTo(x) \in T
    OBVIOUS
<1>3. \A t \in T : \E x \in CommitOrNone : x \notin B /\ t = UpTo(x)
    OBVIOUS
<1>4. PICK t \in T : \A u \in T : u \subseteq t => u = t
  <2>1. T # {} /\ T \in SUBSET SUBSET CommitOrNone
      BY <1>2
  <2> HIDE DEF T
  <2> QED BY <1>1, <2>1, Smallest
<1> HIDE DEF T
<1>5. PICK x \in CommitOrNone : x \notin B /\ t = UpTo(x)
    BY <1>3
<1>6. PICK y \in CommitOrNone : y < x /\ y \notin B
    BY <1>5
<1>7. UpTo(y) \subseteq t /\ x \in t /\ x \notin UpTo(y)
  <2>1. x \in Nat /\ y \in Nat
      BY <1>1
  <2>2. \A u \in UpTo(y) : u \in CommitOrNone /\ u \in Nat /\ u <= x
      BY <1>1, <1>6, <2>1
  <2>3. UpTo(y) \subseteq t
      BY <1>5, <2>2
  <2>4. x \in t /\ x \notin UpTo(y)
      BY <1>5, <1>6, <2>1
  <2> QED BY <2>3, <2>4
<1> QED BY <1>2, <1>4, <1>6, <1>7

-----------------------------------------------------------------------------
(* Chains of parents.                                                      *)

Backward(next) ==
    /\ next \in [Commits -> CommitOrNone]
    /\ \A c \in Commits : next[c] < c

SolvesChains(g, next) ==
    g = [c \in CommitOrNone |-> IF c = NoCommit THEN {} ELSE {c} \cup g[next[c]]]

(* A chain exists: it is what every set closed under parents must hold.    *)
LEMMA ChainsExist ==
    ASSUME NEW next, Backward(next)
    PROVE  \E g : SolvesChains(g, next)
<1> DEFINE Closed(T) == \A x \in T : next[x] \in T \cup {NoCommit}
           In(x, c) == \A T \in SUBSET Commits :
                           Closed(T) /\ c \in T \cup {NoCommit} => x \in T
           h == [c \in CommitOrNone |-> {x \in Commits : In(x, c)}]
<1>1. NoCommit \notin Commits
    BY CommitAssumption DEF CommitAssumption
<1>2. h[NoCommit] = {}
  <2>1. \A x : ~ In(x, NoCommit)
    <3>1. Closed({}) /\ NoCommit \in {} \cup {NoCommit}
        OBVIOUS
    <3> QED BY <3>1
  <2> QED BY <2>1 DEF CommitOrNone
<1>3. ASSUME NEW c \in Commits
      PROVE  h[c] = {c} \cup h[next[c]]
  <2>1. c \in CommitOrNone /\ next[c] \in CommitOrNone
      BY DEF Backward, CommitOrNone
  <2>2. ASSUME NEW x \in Commits
        PROVE  In(x, c) <=> x = c \/ In(x, next[c])
    <3>1. In(c, c)
        BY <1>1
    <3>2. In(x, next[c]) => In(x, c)
      <4>1. \A T \in SUBSET Commits :
                Closed(T) /\ c \in T \cup {NoCommit} => next[c] \in T \cup {NoCommit}
          BY <1>1
      <4> QED BY <4>1
    <3>3. ASSUME In(x, c), x # c PROVE In(x, next[c])
      <4> SUFFICES ASSUME NEW T \in SUBSET Commits, Closed(T), next[c] \in T \cup {NoCommit}
                   PROVE  x \in T
          OBVIOUS
      <4>1. T \cup {c} \in SUBSET Commits /\ Closed(T \cup {c})
          OBVIOUS
      <4>2. x \in T \cup {c}
          BY <3>3, <4>1
      <4> QED BY <3>3, <4>2
    <3> QED BY <3>1, <3>2, <3>3
  <2>3. h[c] = {x \in Commits : In(x, c)} /\ h[next[c]] = {x \in Commits : In(x, next[c])}
      BY <2>1
  <2> HIDE DEF In, h
  <2> QED BY <2>2, <2>3
<1>4. \A c \in CommitOrNone : h[c] = IF c = NoCommit THEN {} ELSE {c} \cup h[next[c]]
  <2> HIDE DEF h
  <2> QED BY <1>2, <1>3 DEF CommitOrNone
<1>5. SolvesChains(h, next)
    BY <1>4 DEF SolvesChains
<1> QED BY <1>5

LEMMA ChainsUnfold ==
    ASSUME NEW next, Backward(next)
    PROVE  /\ Chains(next)[NoCommit] = {}
           /\ \A c \in Commits : Chains(next)[c] = {c} \cup Chains(next)[next[c]]
<1> DEFINE g == Chains(next)
           h == [c \in CommitOrNone |-> IF c = NoCommit THEN {} ELSE {c} \cup g[next[c]]]
<1>1. g = CHOOSE f : SolvesChains(f, next)
    BY DEF Chains, SolvesChains
<1>2. SolvesChains(g, next)
  <2> HIDE DEF g
  <2> QED BY <1>1, ChainsExist
<1>3. g = h
  <2> HIDE DEF g
  <2> QED BY <1>2 DEF SolvesChains
<1>4. \A c \in CommitOrNone : h[c] = IF c = NoCommit THEN {} ELSE {c} \cup g[next[c]]
  <2> HIDE DEF g
  <2> QED OBVIOUS
<1>5. NoCommit \in CommitOrNone /\ \A c \in Commits : c \in CommitOrNone /\ c # NoCommit
    BY CommitAssumption DEF CommitAssumption, CommitOrNone
<1> HIDE DEF g, h
<1> QED BY <1>3, <1>4, <1>5 DEF g

(* A chain holds commits only and the parent of each that has one.         *)
LEMMA ChainsClosed ==
    ASSUME NEW next, Backward(next)
    PROVE  \A c \in CommitOrNone :
               /\ Chains(next)[c] \subseteq Commits
               /\ \A x \in Chains(next)[c] : next[x] \in Chains(next)[c] \cup {NoCommit}
<1> DEFINE g == Chains(next)
           P(c) == /\ g[c] \subseteq Commits
                   /\ \A x \in g[c] : next[x] \in g[c] \cup {NoCommit}
           B == {c \in CommitOrNone : P(c)}
<1>1. /\ g[NoCommit] = {}
      /\ \A c \in Commits : g[c] = {c} \cup g[next[c]]
    BY ChainsUnfold
<1> HIDE DEF g
<1>2. ASSUME NEW c \in CommitOrNone, \A y \in CommitOrNone : y < c => y \in B
      PROVE  c \in B
  <2>1. CASE c = NoCommit
      BY <1>1, <2>1
  <2>2. CASE c # NoCommit
    <3>1. c \in Commits /\ next[c] \in CommitOrNone /\ next[c] < c
        BY <2>2 DEF Backward, CommitOrNone
    <3>2. P(next[c]) /\ g[c] = {c} \cup g[next[c]]
        BY <1>1, <1>2, <3>1
    <3>3. next[c] # NoCommit => next[c] \in g[next[c]]
        BY <1>1, <3>1 DEF CommitOrNone
    <3>4. P(c)
        BY <3>1, <3>2, <3>3
    <3> QED BY <3>4
  <2> QED BY <2>1, <2>2
<1>3. \A c \in CommitOrNone : c \in B
  <2> HIDE DEF B
  <2> QED BY <1>2, CommitInduction
<1> QED BY <1>3 DEF g

(* The sources a walk has collected from c to the end of the chain are the *)
(* chain of the second parent of c.                                        *)
LEMMA SourcesAreChain ==
    ASSUME Backward(graph.second), NEW c \in Commits, NEW S \in SUBSET Commits,
           Chain(c, S, NoCommit)
    PROVE  Chains(graph.second)[graph.second[c]] = S
<1> DEFINE g == Chains(graph.second)
           next == graph.second
           B == {x \in CommitOrNone : x \in S \cup {NoCommit} => g[x] \subseteq S}
           D == S \ g[next[c]]
<1>1. /\ g[NoCommit] = {}
      /\ \A x \in Commits : g[x] = {x} \cup g[next[x]]
    BY ChainsUnfold
<1>2. \A x \in CommitOrNone : \A y \in g[x] : next[y] \in g[x] \cup {NoCommit}
    BY ChainsClosed
<1>3. /\ \A x \in S \cup {c} : next[x] \in S \cup {NoCommit}
      /\ \A y \in S : \E x \in S \cup {c} : next[x] = y
    BY DEF Chain
<1>4. \A x \in Commits : next[x] \in CommitOrNone /\ next[x] < x
    BY DEF Backward
<1>5. Commits \subseteq Nat /\ NoCommit \notin Commits /\ IsFiniteSet(Commits)
    BY CommitAssumption DEF CommitAssumption
<1> HIDE DEF g, next
<1>6. ASSUME NEW x \in CommitOrNone, \A y \in CommitOrNone : y < x => y \in B
      PROVE  x \in B
  <2>1. CASE x \notin S
      BY <1>1, <2>1
  <2>2. CASE x \in S
    <3>1. next[x] \in B /\ next[x] \in S \cup {NoCommit}
        BY <1>3, <1>4, <1>6, <2>2
    <3> QED BY <1>1, <2>2, <3>1
  <2> QED BY <2>1, <2>2
<1>7. \A x \in CommitOrNone : x \in B
  <2> HIDE DEF B
  <2> QED BY <1>6, CommitInduction
<1>8. g[next[c]] \subseteq S
    BY <1>3, <1>4, <1>7
<1>9. D = {}
  <2> SUFFICES ASSUME D # {} PROVE FALSE
      OBVIOUS
  <2>1. D \subseteq Nat /\ IsFiniteSet(D)
      BY <1>5, FS_Subset
  <2> DEFINE y == Max(D)
  <2>2. y \in D /\ \A x \in D : x <= y
    <3> HIDE DEF D
    <3> QED BY <2>1, MaxOfNats
  <2> HIDE DEF y
  <2>3. PICK x \in S \cup {c} : next[x] = y
      BY <1>3, <2>2
  <2>4. y < x /\ x \in Nat /\ y \in Commits /\ y \in Nat
      BY <1>4, <1>5, <2>2, <2>3
  <2>5. CASE x = c
    <3>1. y \in g[y]
        BY <1>1, <2>4
    <3> QED BY <2>2, <2>3, <2>5, <3>1
  <2>6. CASE x # c
    <3>1. x \in g[next[c]]
        BY <2>2, <2>3, <2>4, <2>6
    <3>2. y \in g[next[c]] \cup {NoCommit}
        BY <1>2, <1>4, <2>3, <3>1
    <3> QED BY <1>5, <2>2, <2>4, <3>2
  <2> QED BY <2>5, <2>6
<1> QED BY <1>8, <1>9 DEF g, next

-----------------------------------------------------------------------------
(* How many commits a handler may be about to introduce.                   *)

SourcesBounded(r) ==
    /\ Cardinality(req[r].sources) <= MaxIntroducedCommits
    /\ req[r].phase = "check" => Cardinality(req[r].sources) < MaxIntroducedCommits

LEMMA SourcesCount ==
    ASSUME TypeOK, NEW r \in Requests
    PROVE  /\ IsFiniteSet(req[r].sources)
           /\ Cardinality(req[r].sources) \in Nat
           /\ Cardinality({}) = 0
           /\ MaxIntroducedCommits \in Nat \ {0}
<1>1. IsFiniteSet(req[r].sources)
    BY SourceType, CommitAssumption, FS_Subset DEF CommitAssumption
<1> QED BY <1>1, FS_CardinalityType, FS_EmptySet, LimitAssumption DEF LimitAssumption

LEMMA NoSourcesBounded ==
    ASSUME TypeOK, NEW r \in Requests, req'[r].sources = {}
    PROVE  SourcesBounded(r)'
<1>1. Cardinality({}) = 0 /\ MaxIntroducedCommits \in Nat \ {0}
    BY SourcesCount
<1> QED BY <1>1 DEF SourcesBounded

LEMMA SameSourcesBounded ==
    ASSUME NEW r \in Requests, SourcesBounded(r),
           req'[r].sources = req[r].sources,
           req'[r].phase = "check" => req[r].phase = "check"
    PROVE  SourcesBounded(r)'
    BY DEF SourcesBounded

LEMMA AnswerForgets ==
    ASSUME TypeOK, NEW r \in Requests, NEW reply, Answer(r, reply)
    PROVE  /\ req'[r].sources = {}
           /\ \A s \in Requests \ {r} : req'[s] = req[s]
    BY DEF TypeOK, Answer, Idle

LEMMA HandlerBounded ==
    ASSUME TypeOK, NEW r \in Requests, SourcesBounded(r),
           \/ \E c \in Commits, v \in 0 .. version : Begin(r, c, v)
           \/ Handle(r)
           \/ Abandon(r)
    PROVE  /\ SourcesBounded(r)'
           /\ \A s \in Requests \ {r} : req'[s] = req[s]
<1>0. /\ req \in [Requests -> Request]
      /\ IsFiniteSet(req[r].sources) /\ Cardinality(req[r].sources) \in Nat
      /\ MaxIntroducedCommits \in Nat \ {0}
    BY SourcesCount DEF TypeOK
<1>1. CASE \E reply : Answer(r, reply)
    BY <1>1, AnswerForgets, NoSourcesBounded
<1>2. ASSUME NEW c \in Commits, NEW v \in 0 .. version, Begin(r, c, v)
      PROVE  /\ SourcesBounded(r)'
             /\ \A s \in Requests \ {r} : req'[s] = req[s]
  <2>1. req'[r].sources = {} /\ \A s \in Requests \ {r} : req'[s] = req[s]
      BY <1>0, <1>2 DEF Begin, Idle
  <2> QED BY <2>1, NoSourcesBounded
<1>3. CASE Admit(r)
  <2>1. CASE req' = [req EXCEPT ![r].phase = "admitted"]
    <3>1. /\ req'[r].sources = req[r].sources /\ req'[r].phase # "check"
          /\ \A s \in Requests \ {r} : req'[s] = req[s]
        BY <1>0, <2>1 DEF Request
    <3> QED BY <3>1, SameSourcesBounded
  <2> QED BY <1>1, <1>3, <2>1 DEF Admit
<1>4. CASE ValidateCandidate(r)
  <2>1. CASE /\ ~ Incomplete(req[r].candidate)
             /\ Conclude(r, {}, Incomplete(req[r].candidate))
    <3>1. req'[r].sources = {} /\ \A s \in Requests \ {r} : req'[s] = req[s]
        BY <1>0, <2>1 DEF Conclude, Request
    <3> QED BY <3>1, NoSourcesBounded
  <2>2. CASE req' = [req EXCEPT ![r].phase = "walk",
                                ![r].current = graph.second[req[r].candidate],
                                ![r].depth = 1,
                                ![r].missing = Incomplete(req[r].candidate)]
    <3>1. /\ req'[r].sources = req[r].sources /\ req'[r].phase # "check"
          /\ \A s \in Requests \ {r} : req'[s] = req[s]
        BY <1>0, <2>2 DEF Request
    <3> QED BY <3>1, SameSourcesBounded
  <2> QED BY <1>1, <1>4, <2>1, <2>2 DEF ValidateCandidate, Refuse, Conclude
<1>5. CASE VisitSource(r)
  <2>1. CASE /\ Cardinality(req[r].sources) # MaxIntroducedCommits
             /\ req' = [req EXCEPT ![r].phase = "check"]
    <3>1. /\ req'[r].sources = req[r].sources
          /\ \A s \in Requests \ {r} : req'[s] = req[s]
        BY <1>0, <2>1 DEF Request
    <3>2. Cardinality(req[r].sources) < MaxIntroducedCommits
        BY <1>0, <2>1 DEF SourcesBounded
    <3> QED BY <3>1, <3>2, <1>0 DEF SourcesBounded
  <2> QED BY <1>1, <1>5, <2>1 DEF VisitSource, Refuse
<1>6. CASE CheckSource(r)
  <2> DEFINE s == req[r].current
             S == req[r].sources \cup {s}
  <2>1. Cardinality(S) \in Nat /\ Cardinality(S) <= MaxIntroducedCommits
    <3>1. Cardinality(req[r].sources) < MaxIntroducedCommits
        BY <1>6 DEF CheckSource, At, SourcesBounded
    <3>2. Cardinality(S) = Cardinality(req[r].sources)
             \/ Cardinality(S) = Cardinality(req[r].sources) + 1
        BY <1>0, FS_AddElement
    <3> QED BY <1>0, <3>1, <3>2
  <2>2. CASE /\ ~ (req[r].missing \/ Incomplete(s))
             /\ Conclude(r, S, req[r].missing \/ Incomplete(s))
    <3>1. /\ req'[r].sources = S /\ req'[r].phase # "check"
          /\ \A t \in Requests \ {r} : req'[t] = req[t]
        BY <1>0, <2>2 DEF Conclude, Request
    <3> QED BY <2>1, <3>1 DEF SourcesBounded
  <2>3. CASE req' = [req EXCEPT ![r].phase = "walk",
                                ![r].current = graph.second[s],
                                ![r].depth = @ + 1,
                                ![r].sources = @ \cup {s},
                                ![r].missing = @ \/ Incomplete(s)]
    <3>1. /\ req'[r].sources = S /\ req'[r].phase # "check"
          /\ \A t \in Requests \ {r} : req'[t] = req[t]
        BY <1>0, <2>3 DEF Request
    <3> QED BY <2>1, <3>1 DEF SourcesBounded
  <2> QED BY <1>1, <1>6, <2>2, <2>3 DEF CheckSource, Refuse, Conclude
<1>7. CASE UpdateHead(r)
  <2>1. CASE req' = [req EXCEPT ![r].phase = "committed"]
    <3>1. /\ req'[r].sources = req[r].sources /\ req'[r].phase # "check"
          /\ \A s \in Requests \ {r} : req'[s] = req[s]
        BY <1>0, <2>1 DEF Request
    <3> QED BY <3>1, SameSourcesBounded
  <2> QED BY <1>1, <1>7, <2>1 DEF UpdateHead
<1>8. CASE Respond(r) \/ Abandon(r)
    BY <1>1, <1>8 DEF Respond, Abandon, Refuse
<1> QED BY <1>2, <1>3, <1>4, <1>5, <1>6, <1>7, <1>8 DEF Handle

LEMMA StepBounded ==
    ASSUME TypeOK, \A r \in Requests : SourcesBounded(r), [Next]_vars
    PROVE  \A r \in Requests : SourcesBounded(r)'
<1>1. CASE req' = req
    BY <1>1 DEF SourcesBounded
<1>2. CASE Crash
  <2>1. \A r \in Requests : req'[r].sources = {}
      BY <1>2 DEF Crash, Idle
  <2> QED BY <2>1, NoSourcesBounded
<1>3. ASSUME NEW r \in Requests,
             \/ \E c \in Commits, v \in 0 .. version : Begin(r, c, v)
             \/ Handle(r)
             \/ Abandon(r)
      PROVE  \A s \in Requests : SourcesBounded(s)'
  <2>1. /\ SourcesBounded(r)'
        /\ \A s \in Requests \ {r} : req'[s] = req[s]
      BY <1>3, HandlerBounded
  <2>2. \A s \in Requests \ {r} : SourcesBounded(s)'
      BY <2>1 DEF SourcesBounded
  <2> QED BY <2>1, <2>2
<1>4. CASE OtherLibrary \/ Start \/ \E o \in Objects : LinkObject(o) \/ SyncObject(o)
    BY <1>1, <1>4 DEF OtherLibrary, Start, LinkObject, SyncObject
<1>5. CASE UNCHANGED vars
    BY <1>1, <1>5 DEF vars
<1> QED BY <1>2, <1>3, <1>4, <1>5 DEF Next

-----------------------------------------------------------------------------
(* What the migration would read back.                                     *)

FirstChain(c) == Chains(graph.first)[c]

SourceChain(m) == Chains(graph.second)[graph.second[m]]

(* The checks on one mainline commit and its sources, and the rows that    *)
(* are found for them.                                                     *)
ProvableMainline(m) ==
    /\ m \in published /\ role[m] = Mainline(m) /\ m \notin graph.refused
    /\ Cardinality(SourceChain(m)) <= MaxIntroducedCommits
    /\ \A s \in SourceChain(m) :
          /\ s \in published /\ role[s] = MergeSource(m) /\ ShapedSource(s)
          /\ graph.first[s] \in FirstChain(graph.first[m])

(* The Head leads to provable mainline commits, and they and their sources *)
(* are all that is published.                                              *)
HistoryProvable ==
    /\ \A m \in FirstChain(head) : ProvableMainline(m)
    /\ \A c \in published : \/ c \in FirstChain(head)
                            \/ \E m \in FirstChain(head) : c \in SourceChain(m)

LEMMA GraphIsBackward ==
    ASSUME TypeOK
    PROVE  Backward(graph.first) /\ Backward(graph.second)
    BY DEF TypeOK, CommitGraph, Acyclic, Backward

LEMMA ChainsAt ==
    ASSUME TypeOK
    PROVE  /\ FirstChain(NoCommit) = {}
           /\ \A c \in Commits : FirstChain(c) = {c} \cup FirstChain(graph.first[c])
           /\ \A c \in CommitOrNone : FirstChain(c) \subseteq Commits
           /\ \A m \in Commits : SourceChain(m) \subseteq Commits
<1>1. \A m \in Commits : graph.second[m] \in CommitOrNone
    BY GraphIsBackward DEF Backward
<1> QED BY <1>1, GraphIsBackward, ChainsUnfold, ChainsClosed DEF FirstChain, SourceChain

LEMMA MainlineIsReached ==
    ASSUME HistoryProvable, NEW c \in published, role[c] = Mainline(c)
    PROVE  c \in FirstChain(head)
<1>1. \A m : MergeSource(m) # Mainline(c)
    BY DEF Mainline, MergeSource
<1> QED BY <1>1 DEF HistoryProvable, ProvableMainline

(* A publication appends one provable commit to the mainline.              *)
LEMMA PublicationProvable ==
    ASSUME IInv, \A q \in Requests : SourcesBounded(q), HistoryProvable,
           NEW r, NEW c, NEW S, Publication(r, c, S)
    PROVE  HistoryProvable'
<1>1. TypeOK /\ HistoryInv
    BY DEF IInv
<1>2. /\ c \in Commits /\ S \subseteq Commits /\ c \notin S
      /\ graph.first[c] = head
      /\ head < c
      /\ Chain(c, S, NoCommit)
      /\ \A x \in S \cup {c} : x \notin published /\ x \notin graph.refused
      /\ \A s \in S : /\ graph.first[s] \in published
                      /\ role[graph.first[s]] = Mainline(graph.first[s])
    BY ValidatedStillHolds DEF Publication
<1>3. /\ graph' = graph /\ head' = c
      /\ published' = published \cup S \cup {c}
      /\ \A x \in Commits : role'[x] = IF x = c THEN Mainline(c)
                                       ELSE IF x \in S THEN MergeSource(c)
                                       ELSE role[x]
    BY DEF Publication
<1>4. /\ published \subseteq Commits /\ head \in CommitOrNone /\ NoCommit \notin Commits
      /\ \A x \in published : x # c /\ x \notin S
    BY <1>1, <1>2, CommitAssumption DEF CommitAssumption, TypeOK
<1>5. \A x : FirstChain(x)' = FirstChain(x) /\ SourceChain(x)' = SourceChain(x)
    BY <1>3 DEF FirstChain, SourceChain
<1>6. SourceChain(c) = S
    BY <1>1, <1>2, GraphIsBackward, SourcesAreChain DEF SourceChain
<1>7. FirstChain(c) = {c} \cup FirstChain(head)
    BY <1>1, <1>2, ChainsAt
<1>8. Cardinality(S) <= MaxIntroducedCommits
    BY DEF Publication, SourcesBounded
<1>9. ProvableMainline(c)'
  <2>1. ASSUME NEW s \in S
        PROVE  /\ s \in published' /\ role'[s] = MergeSource(c) /\ ShapedSource(s)
               /\ graph.first[s] \in FirstChain(head)
    <3>1. graph.first[s] # NoCommit
        BY <1>2, <1>4
    <3>2. graph.first[s] \in FirstChain(head)
        BY <1>2, MainlineIsReached
    <3> QED BY <1>2, <1>3, <3>1, <3>2 DEF ShapedSource
  <2> QED BY <1>2, <1>3, <1>5, <1>6, <1>8, <2>1
          DEF ProvableMainline, ShapedSource, Mainline, MergeSource
<1>10. ASSUME NEW m \in FirstChain(head)
       PROVE  ProvableMainline(m)'
  <2>1. ProvableMainline(m)
      BY DEF HistoryProvable
  <2>2. \A x \in published : x \in published' /\ role'[x] = role[x]
      BY <1>3, <1>4
  <2> QED BY <1>3, <1>5, <2>1, <2>2
          DEF ProvableMainline, ShapedSource, Mainline, MergeSource
<1>11. \A x \in published' : \/ x \in FirstChain(c)
                             \/ \E m \in FirstChain(c) : x \in SourceChain(m)
    BY <1>3, <1>6, <1>7 DEF HistoryProvable
<1> QED BY <1>3, <1>5, <1>7, <1>9, <1>10, <1>11 DEF HistoryProvable

LEMMA StepProvable ==
    ASSUME IInv, \A q \in Requests : SourcesBounded(q), HistoryProvable, [Next]_vars
    PROVE  HistoryProvable'
<1>1. CASE UNCHANGED <<graph, historyVars>>
    BY <1>1 DEF historyVars, HistoryProvable, ProvableMainline, FirstChain,
                SourceChain, ShapedSource, Mainline, MergeSource
<1>2. ASSUME NEW r \in Requests, UpdateHead(r)
      PROVE  HistoryProvable'
  <2>1. CASE Publication(r, req[r].candidate, req[r].sources)
      BY <2>1, PublicationProvable
  <2>2. CASE UNCHANGED historyVars
      BY <1>1, <1>2, <2>2 DEF UpdateHead
  <2> QED BY <1>2, <2>1, <2>2, UpdateCases
<1>3. CASE Next
  <2>1. ASSUME NEW r \in Requests,
               \/ \E c \in Commits, v \in 0 .. version : Begin(r, c, v)
               \/ Admit(r) \/ ValidateCandidate(r) \/ VisitSource(r)
               \/ CheckSource(r) \/ Respond(r) \/ Abandon(r)
        PROVE  UNCHANGED <<graph, historyVars>>
      BY <2>1 DEF Begin, Admit, ValidateCandidate, VisitSource, CheckSource,
                  Respond, Abandon
  <2>2. ASSUME \/ OtherLibrary \/ Crash \/ Start
               \/ \E o \in Objects : LinkObject(o) \/ SyncObject(o)
        PROVE  UNCHANGED <<graph, historyVars>>
      BY <2>2 DEF OtherLibrary, Crash, Start, LinkObject, SyncObject
  <2> QED BY <1>1, <1>2, <1>3, <2>1, <2>2 DEF Next, Handle
<1>4. CASE UNCHANGED vars
    BY <1>1, <1>4 DEF vars
<1> QED BY <1>3, <1>4

(* The proof of roles succeeds and finds the rows that are in the tables.  *)
LEMMA ProvableIsProved ==
    ASSUME IInv, PublishedStored, HistoryProvable
    PROVE  RolesProvable
<1> DEFINE F == Chains(graph.first)
           Z == Chains(graph.second)
<1>1. TypeOK /\ RolesSound
    BY DEF IInv, HistoryInv
<1>2. \A m \in F[head] :
          /\ m \in published /\ role[m] = Mainline(m) /\ m \notin graph.refused
          /\ Cardinality(SourcesOf(m, Z)) <= MaxIntroducedCommits
          /\ \A s \in SourcesOf(m, Z) :
                /\ s \in published /\ role[s] = MergeSource(m) /\ ShapedSource(s)
                /\ graph.first[s] \in F[graph.first[m]]
    BY DEF HistoryProvable, ProvableMainline, FirstChain, SourceChain, SourcesOf
<1>3. \A c \in published : \/ c \in F[head]
                           \/ \E m \in F[head] : c \in SourcesOf(m, Z)
    BY DEF HistoryProvable, FirstChain, SourceChain, SourcesOf
<1> HIDE DEF F, Z
<1>4. \A c, d, e : /\ MergeSource(c) # Mainline(d)
                   /\ MergeSource(c) = MergeSource(e) => c = e
    BY DEF MergeSource, Mainline
<1>5. ASSUME NEW m \in F[head]
      PROVE  /\ SourcesOf(m, Z) \cap F[head] = {}
             /\ \A n \in F[head] \ {m} : SourcesOf(m, Z) \cap SourcesOf(n, Z) = {}
    BY <1>2, <1>4
<1>6. published = F[head] \cup UNION {SourcesOf(m, Z) : m \in F[head]}
    BY <1>2, <1>3
<1>7. ProofAccepts(F, Z)
    BY <1>2, <1>5, <1>6 DEF ProofAccepts, PublishedStored, Readable
<1>8. ASSUME NEW c \in Commits
      PROVE  role[c] = ProvenRoles(F, Z)[c]
  <2>1. CASE c \in F[head]
      BY <1>2, <2>1 DEF ProvenRoles
  <2>2. CASE c \notin F[head] /\ \E m \in F[head] : c \in SourcesOf(m, Z)
    <3> DEFINE m == CHOOSE m \in F[head] : c \in SourcesOf(m, Z)
    <3>1. m \in F[head] /\ c \in SourcesOf(m, Z)
        BY <2>2
    <3>2. ProvenRoles(F, Z)[c] = MergeSource(m)
        BY <2>2 DEF ProvenRoles
    <3> HIDE DEF m
    <3> QED BY <1>2, <3>1, <3>2
  <2>3. CASE c \notin F[head] /\ ~ \E m \in F[head] : c \in SourcesOf(m, Z)
    <3>1. role[c] = Unpublished
        BY <1>1, <1>3, <2>3 DEF RolesSound
    <3> QED BY <2>3, <3>1 DEF ProvenRoles
  <2> QED BY <2>1, <2>2, <2>3
<1>9. role = ProvenRoles(F, Z)
  <2>1. role \in [Commits -> Roles]
      BY <1>1 DEF TypeOK
  <2>2. ProvenRoles(F, Z) = [c \in Commits |-> ProvenRoles(F, Z)[c]]
      BY DEF ProvenRoles
  <2> QED BY <1>8, <2>1, <2>2
<1> QED BY <1>7, <1>9 DEF RolesProvable, F, Z

LEMMA InitProvable ==
    ASSUME Init
    PROVE  /\ PublishedStored /\ HistoryProvable
           /\ \A r \in Requests : SourcesBounded(r)
<1>1. TypeOK
    BY TypeInit
<1>2. PublishedStored /\ HistoryProvable
    BY <1>1, ChainsAt DEF Init, PublishedStored, HistoryProvable
<1>3. ASSUME NEW r \in Requests PROVE SourcesBounded(r)
  <2>1. req[r].sources = {} /\ req[r].phase = "idle"
      BY DEF Init, Idle
  <2>2. Cardinality({}) = 0 /\ MaxIntroducedCommits \in Nat \ {0}
      BY <1>1, SourcesCount
  <2> QED BY <2>1, <2>2 DEF SourcesBounded
<1> QED BY <1>2, <1>3

(* Roles recorded one publication at a time, by handlers that interleave   *)
(* and crash, are at every instant the roles the migration proves from the *)
(* Head and the commit objects; it accepts every history the server wrote. *)
THEOREM RolesCanBeProved == Spec => []RolesProvable
<1> DEFINE Bounded == \A r \in Requests : SourcesBounded(r)
           Inv == IInv /\ PublishedStored /\ HistoryProvable /\ Bounded
<1>1. Init => Inv
    BY InitInv, InitProvable
<1>2. Inv /\ [Next]_vars => Inv'
  <2> SUFFICES ASSUME Inv, [Next]_vars PROVE Inv'
      OBVIOUS
  <2>1. IInv' /\ PublishedStored'
      BY StepInv, StepPublishesStored, StoredKept
  <2>2. HistoryProvable'
      BY StepProvable
  <2>3. Bounded'
      BY StepBounded DEF IInv
  <2> QED BY <2>1, <2>2, <2>3
<1>3. Inv => RolesProvable
    BY ProvableIsProved
<1> HIDE DEF Inv
<1> QED BY <1>1, <1>2, <1>3, PTL DEF Spec
===============================================================================
