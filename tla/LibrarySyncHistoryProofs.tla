----------------------- MODULE LibrarySyncHistoryProofs ----------------------
(***************************************************************************)
(* More proofs about LibrarySync: the server takes the chains of           *)
(* candidates that clients build over conflicts, and a file that was       *)
(* removed from the library does not come back from a device that has not  *)
(* heard of it.                                                            *)
(***************************************************************************)
EXTENDS LibrarySyncProofs

-----------------------------------------------------------------------------
(* The inductive invariant: the commit graph.                              *)

(* A merge follows a Head that had not published its second parent, and    *)
(* that was not the Head its second parent was made for.                   *)
LinkAt(c) ==
    LET s == commits[c].second
        h == commits[c].first
    IN  /\ s \notin Up(commits)[h]
        /\ commits[s].first \in Up(commits)[h] /\ commits[s].first # h
        /\ role[h] = "mainline"

(* A commit is merged once; the mainline does not branch; and what was     *)
(* published as a source was published with the commit it was merged into. *)
Links ==
    /\ \A c \in 1 .. Len(commits) : commits[c].second # NoCommit => LinkAt(c)
    /\ \A c, x \in 1 .. Len(commits) :
          commits[c].second = commits[x].second /\ commits[c].second # NoCommit => c = x
    /\ \A c, x \in 1 .. Len(commits) :
          /\ role[c] = "mainline" /\ role[x] = "mainline"
          /\ commits[c].first \in Up(commits)[x] /\ commits[c].first # x
          => c \in Up(commits)[x]
    /\ \A c \in 1 .. Len(commits) :
          role[c] = "merge-source" =>
              \E x \in 1 .. Len(commits) : role[x] # "none" /\ commits[x].second = c

(* The candidate of a row was not merged yet, and is in no other row.      *)
Tip(d) ==
    pending[d] # NoPending =>
        /\ \A c \in 1 .. Len(commits) : commits[c].second # pending[d].candidate
        /\ \A e \in Devices \ {d} : pending[e].candidate # pending[d].candidate

(* A run merges with a Head that moved, but not to its own candidate.      *)
MergeFits(d) ==
    run[d].phase = "merge" =>
        IF pending[d] = NoPending THEN run[d].seen # base[d]
        ELSE /\ run[d].seen # pending[d].expected
             /\ pending[d].candidate \notin Up(commits)[run[d].seen]

GraphInv ==
    /\ Links
    /\ \A d \in Devices : Tip(d) /\ MergeFits(d)

-----------------------------------------------------------------------------
(* The inductive invariant: files.                                         *)

IsSync(d) == pending[d] # NoPending /\ ~ IsRestore(d)

(* The files a device is about to publish: those its row captured, or      *)
(* those its run has scanned to capture them.                              *)
Image(d) ==
    IF IsSync(d) THEN commits[pending[d].captured].tree
    ELSE IF pending[d] = NoPending /\ run[d].phase \in {"scanned", "merge"} THEN run[d].scan
    ELSE worktree[d]

(* Those that are news to its Sync Base.                                   *)
Own(d) == (worktree[d] \cup Image(d)) \ commits[base[d]].tree

PublishedFiles == UNION {commits[c].tree : c \in {x \in 1 .. Len(commits) : role[x] # "none"}}

(* The files of a candidate and of what is published with it.              *)
Carried(c) == UNION {commits[s].tree : s \in Chain(commits)[c]}

(* Those that came back with their directory.                              *)
Back(c) == UNION {CopiedBack(s) : s \in Chain(commits)[c]}

(* Nobody but the device itself can have published the file.               *)
Fresh(d, f) ==
    /\ f \notin PublishedFiles
    /\ \A m \in net : m.expected = head /\ f \in Carried(m.candidate) =>
           IsSync(d) /\ m.candidate = pending[d].candidate

(* What is news to the Sync Base is fresh, or published with the row that  *)
(* the device still has, or was given up with a PUT on its way.            *)
OwnFits(d) ==
    \A f \in Own(d) \ forgotten :
        \/ Fresh(d, f)
        \/ IsSync(d) /\ role[pending[d].candidate] # "none" /\ f \in Image(d)

ImageFits(d) == worktree[d] \cap commits[base[d]].tree \subseteq Image(d)

(* A candidate brings the Head it expects only what the device captured,   *)
(* and what came back with its directory, however often it was merged; a   *)
(* restore only what was published.                                        *)
RowFiles(d) ==
    LET c == pending[d].candidate
    IN  /\ IsSync(d) =>
              /\ commits[c].tree \ commits[pending[d].expected].tree
                     \subseteq (Image(d) \ commits[base[d]].tree) \cup Back(c)
              /\ Carried(c) \subseteq PublishedFiles \cup (Image(d) \ commits[base[d]].tree)
        /\ pending[d] # NoPending /\ IsRestore(d) => commits[c].tree \subseteq PublishedFiles

(* What a PUT that is still good would bring back was given up, or comes   *)
(* with its directory.                                                     *)
MessageFiles(m) ==
    /\ role[m.expected] = "mainline"
    /\ m.expected = head /\ commits[m.candidate].source = NoCommit =>
          (commits[m.candidate].tree \ commits[head].tree) \cap PublishedFiles
              \subseteq forgotten \cup Back(m.candidate)

FileInv ==
    /\ \A d \in Devices : OwnFits(d) /\ ImageFits(d) /\ RowFiles(d)
    /\ \A d, e \in Devices : d # e => Own(d) \cap Own(e) = {}
    /\ \A m \in net : MessageFiles(m)
    /\ dropped \subseteq PublishedFiles
    /\ dropped \cap commits[head].tree \subseteq forgotten

-----------------------------------------------------------------------------
(* What follows from it for the server.                                    *)

RoleNames == {"none", "mainline", "merge-source"}

LEMMA RoleType ==
    ASSUME SInv, NEW c \in 1 .. Len(commits)
    PROVE  role[c] \in RoleNames
    BY HistoryParts DEF SInv, RolesOK, RoleNames

(* A commit with a role has no second parent without one, and the other    *)
(* way: a second parent is published with the merge it was made for.       *)
LEMMA PublishedTogether ==
    ASSUME SInv, Links, NEW c \in 1 .. Len(commits), commits[c].second # NoCommit,
           role[commits[c].second] # "none"
    PROVE  role[c] # "none"
<1>1. PICK s : s = commits[c].second
    OBVIOUS
<1>2. PICK h : h = commits[c].first
    OBVIOUS
<1>3. s \in 1 .. Len(commits) /\ h \in 0 .. Len(commits)
    BY <1>1, <1>2, HistoryParts DEF Backward, NoCommit
<1>4. /\ s \notin Up(commits)[h]
      /\ commits[s].first \in Up(commits)[h] /\ commits[s].first # h
      /\ role[h] = "mainline"
    BY <1>1, <1>2 DEF Links, LinkAt
<1>5. h \in 1 .. Len(commits)
  <2>1. Up(commits)[0] = {}
      BY HistoryParts, UpUnfolds
  <2> QED BY <1>3, <1>4, <2>1
<1>6. role[s] # "mainline"
    BY <1>3, <1>4, <1>5 DEF Links
<1>7. role[s] = "merge-source"
    BY <1>1, <1>3, <1>6, RoleType DEF RoleNames
<1>8. PICK x \in 1 .. Len(commits) : role[x] # "none" /\ commits[x].second = s
    BY <1>3, <1>7 DEF Links
<1>9. x = c
    BY <1>1, <1>8 DEF Links
<1> QED BY <1>8, <1>9

LEMMA ChainPublishedTogether ==
    ASSUME SInv, Links
    PROVE  \A c \in 0 .. Len(commits) : \A s \in Chain(commits)[c] :
               role[s] # "none" => role[c] # "none"
<1> DEFINE B == {x \in 0 .. Len(commits) : \A s \in Chain(commits)[x] :
                     role[s] # "none" => role[x] # "none"}
<1>1. Backward(commits) /\ Len(commits) \in Nat
    BY HistoryParts
<1>2. ASSUME NEW x \in 0 .. Len(commits), \A y \in 0 .. (x - 1) : y \in B PROVE x \in B
  <2>1. CASE x = 0
      BY <1>1, <2>1, ChainUnfolds
  <2>2. CASE x # 0
    <3>1. PICK y : y = commits[x].second
        OBVIOUS
    <3>2. x \in 1 .. Len(commits) /\ y \in 0 .. (x - 1)
        BY <1>1, <2>2, <3>1 DEF Backward
    <3>3. Chain(commits)[x] = {x} \cup Chain(commits)[y] /\ Chain(commits)[0] = {}
        BY <1>1, <3>1, <3>2, ChainUnfolds
    <3>4. ASSUME NEW s \in Chain(commits)[y], role[s] # "none" PROVE role[x] # "none"
      <4>1. role[y] # "none"
          BY <1>2, <3>2, <3>4
      <4>2. y # NoCommit
          BY <3>3, <3>4 DEF NoCommit
      <4> QED BY <3>1, <3>2, <4>1, <4>2, PublishedTogether
    <3> QED BY <3>2, <3>3, <3>4
  <2> QED BY <2>1, <2>2
<1>3. \A x \in 0 .. Len(commits) : x \in B
  <2> HIDE DEF B
  <2> QED BY <1>1, <1>2, UpToInduction
<1> QED BY <1>3

LEMMA ChainIsBefore ==
    ASSUME SInv, NEW c \in 1 .. Len(commits)
    PROVE  Chain(commits)[c] \subseteq 1 .. Len(commits)
<1>1. Backward(commits) /\ Len(commits) \in Nat
    BY HistoryParts
<1>2. Chain(commits)[c] \subseteq Up(commits)[c] /\ Up(commits)[c] \subseteq 1 .. c
    BY <1>1, UpAlongChain, UpIsBefore
<1> QED BY <1>1, <1>2

(* What is made for the Head is not published, nor any commit it merges.   *)
LEMMA NextIsUnpublished ==
    ASSUME SInv, Links, NEW c \in 1 .. Len(commits), commits[c].first = head
    PROVE  /\ role[c] = "none"
           /\ \A s \in Chain(commits)[c] : s \in 1 .. Len(commits) /\ role[s] = "none"
<1>1. head \in 1 .. Len(commits) /\ Len(commits) \in Nat /\ Backward(commits)
    BY HistoryParts, Roles
<1>2. head < c
    BY <1>1 DEF Backward
<1>3. c \notin Up(commits)[head]
    BY <1>1, <1>2, UpIsBefore
<1>4. role[c] = "none"
    BY <1>3, Roles
<1>5. Chain(commits)[c] \subseteq 1 .. Len(commits)
    BY ChainIsBefore
<1>6. \A s \in Chain(commits)[c] : role[s] = "none"
    BY <1>1, <1>4, ChainPublishedTogether
<1> QED BY <1>4, <1>5, <1>6

(* A chain of second parents has one last commit.                          *)
LEMMA OneRoot ==
    ASSUME SInv
    PROVE  \A c \in 0 .. Len(commits) : \A s, t \in Chain(commits)[c] :
               commits[s].second = NoCommit /\ commits[t].second = NoCommit => s = t
<1> DEFINE B == {x \in 0 .. Len(commits) : \A s, t \in Chain(commits)[x] :
               commits[s].second = NoCommit /\ commits[t].second = NoCommit => s = t}
<1>1. Backward(commits) /\ Len(commits) \in Nat
    BY HistoryParts
<1>2. ASSUME NEW x \in 0 .. Len(commits), \A y \in 0 .. (x - 1) : y \in B PROVE x \in B
  <2>1. CASE x = 0
      BY <1>1, <2>1, ChainUnfolds
  <2>2. CASE x # 0
    <3>1. PICK y : y = commits[x].second
        OBVIOUS
    <3>2. x \in 1 .. Len(commits) /\ y \in 0 .. (x - 1)
        BY <1>1, <2>2, <3>1 DEF Backward
    <3>3. Chain(commits)[x] = {x} \cup Chain(commits)[y] /\ Chain(commits)[0] = {}
        BY <1>1, <3>1, <3>2, ChainUnfolds
    <3>4. CASE y = 0
        BY <3>2, <3>3, <3>4
    <3>5. CASE y # 0
        BY <1>2, <3>1, <3>2, <3>3, <3>5 DEF NoCommit
    <3> QED BY <3>4, <3>5
  <2> QED BY <2>1, <2>2
<1>3. \A x \in 0 .. Len(commits) : x \in B
  <2> HIDE DEF B
  <2> QED BY <1>1, <1>2, UpToInduction
<1> QED BY <1>3

(* A commit of a chain but the first is the second parent of another.      *)
LEMMA ChainParent ==
    ASSUME SInv
    PROVE  \A c \in 0 .. Len(commits) : \A s \in Chain(commits)[c] \ {c} :
               \E x \in Chain(commits)[c] :
                   x \in 1 .. Len(commits) /\ commits[x].second = s /\ s # NoCommit
<1> DEFINE B == {y \in 0 .. Len(commits) : \A s \in Chain(commits)[y] \ {y} :
               \E x \in Chain(commits)[y] :
                   x \in 1 .. Len(commits) /\ commits[x].second = s /\ s # NoCommit}
<1>1. Backward(commits) /\ Len(commits) \in Nat
    BY HistoryParts
<1>2. ASSUME NEW c \in 0 .. Len(commits), \A y \in 0 .. (c - 1) : y \in B PROVE c \in B
  <2>1. CASE c = 0
      BY <1>1, <2>1, ChainUnfolds
  <2>2. CASE c # 0
    <3>1. PICK y : y = commits[c].second
        OBVIOUS
    <3>2. c \in 1 .. Len(commits) /\ y \in 0 .. (c - 1)
        BY <1>1, <2>2, <3>1 DEF Backward
    <3>3. Chain(commits)[c] = {c} \cup Chain(commits)[y] /\ Chain(commits)[0] = {}
        BY <1>1, <3>1, <3>2, ChainUnfolds
    <3>4. ASSUME NEW s \in Chain(commits)[c] \ {c}
          PROVE  \E x \in Chain(commits)[c] :
                     x \in 1 .. Len(commits) /\ commits[x].second = s /\ s # NoCommit
      <4>1. s \in Chain(commits)[y] /\ y # NoCommit
          BY <3>3, <3>4 DEF NoCommit
      <4>2. CASE s = y
          BY <3>1, <3>2, <3>3, <4>1, <4>2
      <4>3. CASE s # y
          BY <1>2, <3>2, <3>3, <4>1, <4>3
      <4> QED BY <4>2, <4>3
    <3> QED BY <3>2, <3>4
  <2> QED BY <2>1, <2>2
<1>3. \A x \in 0 .. Len(commits) : x \in B
  <2> HIDE DEF B
  <2> QED BY <1>1, <1>2, UpToInduction
<1> QED BY <1>3

LEMMA AnchoredIsAccepted == SInv /\ Links => AnchoredCandidatesAccepted
<1> SUFFICES ASSUME SInv, Links, NEW m \in net, NEW root,
                    root = CHOOSE c \in SecondChain(m.candidate) : commits[c].second = NoCommit,
                    m.expected = head, role[commits[root].first] = "mainline"
             PROVE  Accepts(m.candidate)
    BY DEF AnchoredCandidatesAccepted
<1>1. PICK c : c = m.candidate
    OBVIOUS
<1>2. c \in 1 .. Len(commits) /\ commits[c].first = head
    BY <1>1 DEF SInv, MessageInv
<1>3. Backward(commits) /\ Len(commits) \in Nat
    BY HistoryParts
<1>4. Chain(commits)[c] = {c} \cup Chain(commits)[commits[c].second] /\ Chain(commits)[0] = {}
    BY <1>2, <1>3, ChainUnfolds
<1>5. Chain(commits)[commits[c].second] \subseteq 1 .. c - 1
  <2>1. commits[c].second \in 0 .. c - 1
      BY <1>2, <1>3 DEF Backward
  <2>2. /\ Chain(commits)[commits[c].second] \subseteq Up(commits)[commits[c].second]
        /\ Up(commits)[commits[c].second] \subseteq 1 .. commits[c].second
      BY <1>2, <1>3, <2>1, UpAlongChain, UpIsBefore
  <2> QED BY <1>2, <1>3, <2>1, <2>2
<1>6. ASSUME NEW s \in Chain(commits)[commits[c].second]
      PROVE  /\ role[s] = "none" /\ commits[s].first # NoCommit
             /\ role[commits[s].first] = "mainline"
  <2>1. s \in 1 .. Len(commits) /\ role[s] = "none"
      BY <1>2, <1>4, <1>6, NextIsUnpublished
  <2>2. PICK x \in 1 .. Len(commits) : commits[x].second = s /\ s # NoCommit
    <3>1. s \in Chain(commits)[c] \ {c}
        BY <1>2, <1>3, <1>4, <1>5, <1>6
    <3> QED BY <1>2, <3>1, ChainParent
  <2>3. commits[s].first # NoCommit
    <3>1. commits[s].first \in Up(commits)[commits[x].first]
        BY <2>2 DEF Links, LinkAt
    <3>2. commits[x].first \in 0 .. Len(commits)
        BY <1>3 DEF Backward
    <3>3. Up(commits)[commits[x].first] \subseteq 1 .. commits[x].first
        BY <1>3, <3>2, UpIsBefore
    <3> QED BY <3>1, <3>3 DEF NoCommit
  <2>4. CASE commits[s].second = NoCommit
    <3>1. s \in SecondChain(m.candidate)
        BY <1>1, <1>4, <1>6, SecondChainIsChain
    <3>2. root \in SecondChain(m.candidate) /\ commits[root].second = NoCommit
        BY <2>4, <3>1
    <3>3. root = s
        BY <1>1, <1>2, <2>4, <3>1, <3>2, SecondChainIsChain, OneRoot
    <3> QED BY <2>1, <2>3, <3>3
  <2>5. CASE commits[s].second # NoCommit
      BY <2>1, <2>3, <2>5 DEF Links, LinkAt
  <2> QED BY <2>4, <2>5
<1> QED BY <1>1, <1>2, <1>6, SecondChainIsChain DEF Accepts

-----------------------------------------------------------------------------
(* What later commits do not change.                                       *)

LEMMA Steady ==
    ASSUME SInv, SInv', Extends(commits, commits'), role' = role
    PROVE  /\ Len(commits) \in Nat /\ Len(commits') \in Nat /\ Len(commits) <= Len(commits')
           /\ \A c \in 1 .. Len(commits) : c \in 1 .. Len(commits') /\ commits'[c] = commits[c]
           /\ \A c \in 0 .. Len(commits) : /\ Up(commits')[c] = Up(commits)[c]
                                           /\ Chain(commits')[c] = Chain(commits)[c]
           /\ \A c \in 1 .. Len(commits') : c > Len(commits) => role[c] = "none"
<1>1. /\ Backward(commits) /\ Len(commits) \in Nat
      /\ Backward(commits') /\ Len(commits') \in Nat
      /\ 1 .. Len(commits') \subseteq CommitIds
  <2>1. HistoryOK(commits', approved', saved', deleted')
      BY DEF SInv
  <2> QED BY <2>1, HistoryParts, CommitTypes DEF HistoryOK
<1>2. \A c \in 1 .. Len(commits) : c \in 1 .. Len(commits') /\ commits'[c] = commits[c]
    BY <1>1 DEF Extends
<1>3. \A c \in 0 .. Len(commits) : /\ Up(commits')[c] = Up(commits)[c]
                                   /\ Chain(commits')[c] = Chain(commits)[c]
    BY <1>1, HistoryStable
<1>4. \A c \in CommitIds : role[c] # "none" => c \in 1 .. Len(commits)
    BY <1>1, NoRoleInAdvance DEF SInv
<1> QED BY <1>1, <1>2, <1>3, <1>4 DEF Extends

(* The graph of commits that are made: each new one that merges another    *)
(* fits, and merges what nobody merged yet.                                *)
LEMMA LinksGrow ==
    ASSUME SInv, SInv', Links, Extends(commits, commits'), role' = role,
           \A c \in 1 .. Len(commits') :
               c > Len(commits) /\ commits'[c].second # NoCommit =>
                   /\ LinkAt(c)' /\ c = Len(commits')
                   /\ \A x \in 1 .. Len(commits) : commits[x].second # commits'[c].second
    PROVE  Links'
<1>1. /\ Len(commits) \in Nat /\ Len(commits') \in Nat /\ Len(commits) <= Len(commits')
      /\ \A c \in 1 .. Len(commits) : c \in 1 .. Len(commits') /\ commits'[c] = commits[c]
      /\ \A c \in 0 .. Len(commits) : Up(commits')[c] = Up(commits)[c]
      /\ \A c \in 1 .. Len(commits') : c > Len(commits) => role[c] = "none"
    BY Steady
<1>2. Backward(commits)
    BY HistoryParts
<1>3. ASSUME NEW c \in 1 .. Len(commits'), commits'[c].second # NoCommit PROVE LinkAt(c)'
  <2>1. CASE c > Len(commits)
      BY <1>3, <2>1
  <2>2. CASE c <= Len(commits)
    <3>1. c \in 1 .. Len(commits) /\ commits'[c] = commits[c] /\ LinkAt(c)
        BY <1>1, <1>3, <2>2 DEF Links
    <3>2. commits[c].second \in 0 .. c - 1 /\ commits[c].first \in 0 .. c - 1
        BY <1>2, <3>1 DEF Backward
    <3>3. commits[c].second \in 1 .. Len(commits) /\ commits[c].first \in 0 .. Len(commits)
        BY <1>1, <1>3, <3>1, <3>2 DEF NoCommit
    <3>4. /\ commits'[commits[c].second] = commits[commits[c].second]
          /\ Up(commits')[commits[c].first] = Up(commits)[commits[c].first]
        BY <1>1, <3>3
    <3> QED BY <3>1, <3>4 DEF LinkAt
  <2> QED BY <1>1, <2>1, <2>2
<1>4. ASSUME NEW c \in 1 .. Len(commits'), NEW x \in 1 .. Len(commits'),
             commits'[c].second = commits'[x].second, commits'[c].second # NoCommit
      PROVE  c = x
  <2>1. CASE c > Len(commits) /\ x > Len(commits)
      BY <1>4, <2>1
  <2>2. CASE c > Len(commits) /\ x <= Len(commits)
    <3>1. x \in 1 .. Len(commits) /\ commits'[x] = commits[x]
        BY <1>1, <2>2
    <3> QED BY <1>4, <2>2, <3>1
  <2>3. CASE x > Len(commits) /\ c <= Len(commits)
    <3>1. c \in 1 .. Len(commits) /\ commits'[c] = commits[c]
        BY <1>1, <2>3
    <3> QED BY <1>4, <2>3, <3>1
  <2>4. CASE x <= Len(commits) /\ c <= Len(commits)
    <3>1. /\ c \in 1 .. Len(commits) /\ commits'[c] = commits[c]
          /\ x \in 1 .. Len(commits) /\ commits'[x] = commits[x]
        BY <1>1, <2>4
    <3> QED BY <1>4, <3>1 DEF Links
  <2> QED BY <1>1, <2>1, <2>2, <2>3, <2>4
<1>5. ASSUME NEW c \in 1 .. Len(commits'), NEW x \in 1 .. Len(commits'),
             role[c] = "mainline", role[x] = "mainline",
             commits'[c].first \in Up(commits')[x], commits'[c].first # x
      PROVE  c \in Up(commits')[x]
  <2>1. /\ c \in 1 .. Len(commits) /\ commits'[c] = commits[c]
        /\ x \in 1 .. Len(commits) /\ Up(commits')[x] = Up(commits)[x]
    <3>1. c <= Len(commits) /\ x <= Len(commits)
        BY <1>1, <1>5
    <3> QED BY <1>1, <3>1
  <2> QED BY <1>5, <2>1 DEF Links
<1>6. ASSUME NEW c \in 1 .. Len(commits'), role[c] = "merge-source"
      PROVE  \E x \in 1 .. Len(commits') : role[x] # "none" /\ commits'[x].second = c
  <2>1. c \in 1 .. Len(commits)
    <3>1. c <= Len(commits)
        BY <1>1, <1>6
    <3> QED BY <1>1, <3>1
  <2>2. PICK x \in 1 .. Len(commits) : role[x] # "none" /\ commits[x].second = c
      BY <1>6, <2>1 DEF Links
  <2>3. x \in 1 .. Len(commits') /\ commits'[x] = commits[x]
      BY <1>1
  <2> QED BY <2>2, <2>3
<1> QED BY <1>3, <1>4, <1>5, <1>6 DEF Links

(* The graph when the Head moves to c.                                     *)
LEMMA LinksPublish ==
    ASSUME SInv, Links, NEW c \in 1 .. Len(commits), commits[c].first = head,
           commits' = commits, role' = NewRoles(commits, role, c)
    PROVE  Links'
<1>1. Backward(commits) /\ Len(commits) \in Nat /\ 1 .. Len(commits) \subseteq CommitIds
    BY HistoryParts
<1>2. /\ head \in 1 .. Len(commits) /\ role[head] = "mainline"
      /\ \A x \in 1 .. Len(commits) : role[x] # "none" => x \in Up(commits)[head]
    BY Roles
<1>3. \A x \in 1 .. Len(commits) :
          role'[x] = IF x = c THEN "mainline"
                     ELSE IF x \in Chain(commits)[c] THEN "merge-source" ELSE role[x]
    BY <1>1 DEF NewRoles
<1>4. /\ role[c] = "none"
      /\ \A s \in Chain(commits)[c] : role[s] = "none"
    BY NextIsUnpublished
<1>5. /\ Chain(commits)[c] = {c} \cup Chain(commits)[commits[c].second]
      /\ Up(commits)[c] = {c} \cup Up(commits)[head] \cup Up(commits)[commits[c].second]
    BY <1>1, ChainUnfolds, UpUnfolds
<1>6. ASSUME NEW x \in 1 .. Len(commits)
      PROVE  /\ role'[x] = "mainline" <=> x = c \/ role[x] = "mainline"
             /\ role[x] # "none" => role'[x] # "none"
             /\ role'[x] = "merge-source" =>
                   role[x] = "merge-source" \/ x \in Chain(commits)[c] \ {c}
  <2>1. CASE x = c
      BY <1>3, <1>4, <2>1
  <2>2. CASE x # c /\ x \in Chain(commits)[c]
      BY <1>3, <1>4, <2>2
  <2>3. CASE x # c /\ x \notin Chain(commits)[c]
      BY <1>3, <2>3
  <2> QED BY <2>1, <2>2, <2>3
<1>7. ASSUME NEW x \in 1 .. Len(commits), commits[x].second # NoCommit PROVE LinkAt(x)'
  <2>1. /\ commits[x].second \notin Up(commits)[commits[x].first]
        /\ commits[commits[x].second].first \in Up(commits)[commits[x].first]
        /\ commits[commits[x].second].first # commits[x].first
        /\ role[commits[x].first] = "mainline"
      BY <1>7 DEF Links, LinkAt
  <2>2. commits[x].first \in 0 .. x - 1
      BY <1>1 DEF Backward
  <2>3. commits[x].first \in 1 .. Len(commits)
    <3>1. Up(commits)[0] = {}
        BY <1>1, UpUnfolds
    <3> QED BY <1>1, <2>1, <2>2, <3>1
  <2>4. role'[commits[x].first] = "mainline"
      BY <1>6, <2>1, <2>3
  <2> QED BY <2>1, <2>4 DEF LinkAt
<1>8. ASSUME NEW x \in 1 .. Len(commits), NEW y \in 1 .. Len(commits),
             role'[x] = "mainline", role'[y] = "mainline",
             commits[x].first \in Up(commits)[y], commits[x].first # y
      PROVE  x \in Up(commits)[y]
  <2>1. CASE y = c
      BY <1>2, <1>5, <1>6, <1>8, <2>1
  <2>2. CASE y # c /\ x # c
      BY <1>6, <1>8, <2>2 DEF Links
  <2>3. CASE y # c /\ x = c
    <3>1. y \in Up(commits)[head] /\ head \in Up(commits)[y] /\ y # head
        BY <1>2, <1>6, <1>8, <2>3
    <3>2. Up(commits)[head] \subseteq 1 .. head /\ Up(commits)[y] \subseteq 1 .. y
        BY <1>1, <1>2, UpIsBefore
    <3> QED BY <1>1, <1>2, <3>1, <3>2
  <2> QED BY <2>1, <2>2, <2>3
<1>9. ASSUME NEW x \in 1 .. Len(commits), role'[x] = "merge-source"
      PROVE  \E y \in 1 .. Len(commits) : role'[y] # "none" /\ commits[y].second = x
  <2>1. CASE role[x] = "merge-source"
      BY <1>6, <2>1 DEF Links
  <2>2. CASE x \in Chain(commits)[c] \ {c}
    <3>1. PICK y \in Chain(commits)[c] : y \in 1 .. Len(commits) /\ commits[y].second = x
        BY <2>2, ChainParent
    <3>2. role'[y] # "none"
        BY <1>3, <1>5, <3>1
    <3> QED BY <3>1, <3>2
  <2> QED BY <1>6, <1>9, <2>1, <2>2
<1>10. \A x, y \in 1 .. Len(commits) :
           commits[x].second = commits[y].second /\ commits[x].second # NoCommit => x = y
    BY DEF Links
<1> QED BY <1>7, <1>8, <1>9, <1>10 DEF Links

LEMMA SteadyFiles ==
    ASSUME SInv, SInv', Extends(commits, commits'), role' = role
    PROVE  /\ PublishedFiles' = PublishedFiles
           /\ \A c \in 1 .. Len(commits) : Carried(c)' = Carried(c)
<1>1. /\ Len(commits) \in Nat /\ Len(commits') \in Nat /\ Len(commits) <= Len(commits')
      /\ \A c \in 1 .. Len(commits) : c \in 1 .. Len(commits') /\ commits'[c] = commits[c]
      /\ \A c \in 0 .. Len(commits) : Chain(commits')[c] = Chain(commits)[c]
      /\ \A c \in 1 .. Len(commits') : c > Len(commits) => role[c] = "none"
    BY Steady
<1>2. PublishedFiles' = PublishedFiles
  <2>1. \A c \in 1 .. Len(commits') : role[c] # "none" => c \in 1 .. Len(commits)
      BY <1>1
  <2> QED BY <1>1, <2>1 DEF PublishedFiles
<1>3. ASSUME NEW c \in 1 .. Len(commits) PROVE Carried(c)' = Carried(c)
  <2>1. Chain(commits)[c] \subseteq 1 .. Len(commits)
      BY ChainIsBefore
  <2>2. Chain(commits')[c] = Chain(commits)[c]
      BY <1>1
  <2> QED BY <1>1, <2>1, <2>2 DEF Carried
<1> QED BY <1>2, <1>3

LEMMA SteadyBack ==
    ASSUME SInv, SInv', Links, Extends(commits, commits'), role' = role
    PROVE  \A c \in 1 .. Len(commits) : Back(c)' = Back(c)
<1>1. /\ Len(commits) \in Nat /\ Backward(commits)
      /\ \A c \in 1 .. Len(commits) : c \in 1 .. Len(commits') /\ commits'[c] = commits[c]
      /\ \A c \in 0 .. Len(commits) : Chain(commits')[c] = Chain(commits)[c]
    BY Steady, HistoryParts
<1>2. ASSUME NEW c \in 1 .. Len(commits) PROVE CopiedBack(c)' = CopiedBack(c)
  <2>1. PICK s : s = commits[c].second
      OBVIOUS
  <2>2. PICK h : h = commits[c].first
      OBVIOUS
  <2>3. CASE s = NoCommit
      BY <1>1, <2>1, <2>3 DEF CopiedBack
  <2>4. CASE s # NoCommit
    <3>1. s \in 1 .. Len(commits) /\ h \in 0 .. Len(commits)
        BY <1>1, <2>1, <2>2, <2>4 DEF Backward, NoCommit
    <3>2. commits[s].first \in Up(commits)[h]
        BY <2>1, <2>2, <2>4 DEF Links, LinkAt
    <3>3. h # 0
      <4>1. Up(commits)[0] = {}
          BY <1>1, UpUnfolds
      <4> QED BY <3>2, <4>1
    <3>4. Up(commits)[h] \subseteq 1 .. h
        BY <1>1, <3>1, UpIsBefore
    <3>5. h \in 1 .. Len(commits) /\ commits[s].first \in 1 .. Len(commits)
        BY <1>1, <3>1, <3>2, <3>3, <3>4
    <3>6. PICK b : b = commits[s].first
        OBVIOUS
    <3>7. /\ commits'[c] = commits[c] /\ commits'[s] = commits[s]
          /\ commits'[h] = commits[h] /\ commits'[b] = commits[b]
        BY <1>1, <3>1, <3>5, <3>6
    <3>8. CopiedBack(c) = commits[c].tree \cap
              WithDirectory(commits[b].tree, commits[s].tree, commits[h].tree)
        BY <2>1, <2>2, <2>4, <3>6 DEF CopiedBack, Tree
    <3>9. CopiedBack(c)' = commits'[c].tree \cap
              WithDirectory(commits'[b].tree, commits'[s].tree, commits'[h].tree)
        BY <2>1, <2>2, <2>4, <3>6, <3>7 DEF CopiedBack, Tree
    <3> QED BY <3>7, <3>8, <3>9
  <2> QED BY <2>3, <2>4
<1>3. ASSUME NEW c \in 1 .. Len(commits) PROVE Back(c)' = Back(c)
  <2>1. Chain(commits)[c] \subseteq 1 .. Len(commits)
      BY ChainIsBefore
  <2>2. Chain(commits')[c] = Chain(commits)[c]
      BY <1>1
  <2> QED BY <1>2, <2>1, <2>2 DEF Back
<1> QED BY <1>3

-----------------------------------------------------------------------------
(* What the steps of a device come to.                                     *)

Beside(d) ==
    /\ Only(d) /\ role' = role /\ head' = head /\ dropped' = dropped
    /\ forgotten \subseteq forgotten' /\ saved \subseteq saved'

SameRow(d) ==
    /\ pending'[d] = NoPending <=> pending[d] = NoPending
    /\ pending'[d].candidate = pending[d].candidate
    /\ pending'[d].captured = pending[d].captured
    /\ pending'[d].expected = pending[d].expected

(* The row stays, and perhaps its candidate is sent.                       *)
Keeps(d) ==
    /\ Beside(d) /\ commits' = commits
    /\ base'[d] = base[d] /\ SameRow(d) /\ MergeFits(d)'
    /\ worktree'[d] \cap saved \subseteq worktree[d]
    /\ Image(d)' = Image(d) \/ Image(d)' = worktree'[d]
    /\ \A m \in net' : \/ m \in net
                       \/ pending[d] # NoPending /\ m.candidate = pending[d].candidate

(* There is no row any more.  What the device still has of its files was   *)
(* not published with it, nor can it be, or it was given up.               *)
Settles(d) ==
    /\ Beside(d) /\ commits' = commits /\ net' = net
    /\ pending'[d] = NoPending /\ run'[d].phase \notin {"scanned", "merge"}
    /\ Own(d)' \subseteq Own(d)
    /\ IsSync(d) =>
          \/ Own(d)' \cap Image(d) \subseteq forgotten'
          \/ /\ role[pending[d].candidate] = "none"
             /\ \A m \in net : m.candidate # pending[d].candidate

(* There is a row for a candidate just made, over the one there was.       *)
Builds(d) ==
    LET p == pending[d]
        c == Len(commits')
    IN  /\ Beside(d) /\ Extends(commits, commits') /\ net' = net
        /\ base'[d] = base[d] /\ worktree'[d] = worktree[d] /\ Image(d)' = Image(d)
        /\ pending'[d] # NoPending /\ pending'[d].candidate = c /\ c > Len(commits)
        /\ run'[d].phase # "merge"
        /\ RowFiles(d)'
        /\ p # NoPending => IsSync(d) /\ role[p.candidate] = "none" /\ p.expected # head
        /\ \A x \in 1 .. c : x > Len(commits) /\ commits'[x].second # NoCommit =>
              /\ x = c /\ LinkAt(x)'
              /\ \/ commits'[x].second > Len(commits)
                 \/ p # NoPending /\ commits'[x].second = p.candidate

(* The other devices.                                                      *)
LEMMA SteadyDevice ==
    ASSUME SInv, SInv', Links, NEW d \in Devices, Beside(d), Extends(commits, commits'),
           NEW e \in Devices \ {d}
    PROVE  /\ IsSync(e)' <=> IsSync(e)
           /\ pending'[e] = pending[e] /\ worktree'[e] = worktree[e]
           /\ Image(e)' = Image(e) /\ Own(e)' = Own(e)
           /\ ImageFits(e) => ImageFits(e)'
           /\ RowFiles(e) => RowFiles(e)'
           /\ MergeFits(e) => MergeFits(e)'
<1>1. /\ worktree'[e] = worktree[e] /\ base'[e] = base[e] /\ pending'[e] = pending[e]
      /\ checkout'[e] = checkout[e] /\ run'[e] = run[e]
    BY DEF Beside, Only
<1>2. PlaceInv(e) /\ RowInv(e) /\ RunInv(e) /\ RowInv(e)'
  <2>1. DeviceInv(e) /\ DeviceInv(e)'
      BY DEF SInv
  <2> QED BY <2>1 DEF DeviceInv
<1>3. /\ \A c \in 1 .. Len(commits) : c \in 1 .. Len(commits') /\ commits'[c] = commits[c]
      /\ \A c \in 0 .. Len(commits) : Up(commits')[c] = Up(commits)[c]
      /\ PublishedFiles' = PublishedFiles
      /\ \A c \in 1 .. Len(commits) : Carried(c)' = Carried(c)
    BY Steady, SteadyFiles DEF Beside
<1>4. PICK p : p = pending[e]
    OBVIOUS
<1>5. p # NoPending =>
          /\ p.candidate \in 1 .. Len(commits) /\ p.captured \in 1 .. Len(commits)
          /\ p.expected \in 1 .. Len(commits)
    BY <1>2, <1>4 DEF RowInv
<1>6. base[e] \in 1 .. Len(commits) /\ commits'[base[e]] = commits[base[e]]
    BY <1>2, <1>3 DEF PlaceInv
<1>7. p # NoPending => (IsRestore(e)' <=> IsRestore(e))
    BY <1>1, <1>3, <1>4, <1>5 DEF IsRestore, Restores
<1>8. IsSync(e)' <=> IsSync(e)
    BY <1>1, <1>4, <1>7 DEF IsSync
<1>9. Image(e)' = Image(e)
    BY <1>1, <1>3, <1>4, <1>5, <1>8 DEF Image, IsSync
<1>10. Own(e)' = Own(e)
    BY <1>1, <1>6, <1>9 DEF Own
<1>11. ImageFits(e) => ImageFits(e)'
    BY <1>1, <1>6, <1>9 DEF ImageFits
<1>12. RowFiles(e) => RowFiles(e)'
  <2>1. CASE p = NoPending
      BY <1>1, <1>4, <2>1 DEF RowFiles, IsSync
  <2>2. CASE p # NoPending
    <3>1. /\ commits'[p.candidate] = commits[p.candidate]
          /\ commits'[p.expected] = commits[p.expected]
          /\ Carried(p.candidate)' = Carried(p.candidate)
          /\ Back(p.candidate)' = Back(p.candidate)
        BY <1>3, <1>5, <2>2, SteadyBack DEF Beside
    <3>2. SUFFICES ASSUME RowFiles(e) PROVE RowFiles(e)'
        OBVIOUS
    <3>3. /\ IsSync(e) =>
                /\ commits[p.candidate].tree \ commits[p.expected].tree
                       \subseteq (Image(e) \ commits[base[e]].tree) \cup Back(p.candidate)
                /\ Carried(p.candidate)
                       \subseteq PublishedFiles \cup (Image(e) \ commits[base[e]].tree)
          /\ IsRestore(e) => commits[p.candidate].tree \subseteq PublishedFiles
        BY <1>4, <2>2, <3>2 DEF RowFiles
    <3>4. /\ IsSync(e)' =>
                /\ commits'[p.candidate].tree \ commits'[p.expected].tree
                       \subseteq (Image(e)' \ commits'[base'[e]].tree)
                                     \cup Back(p.candidate)'
                /\ Carried(p.candidate)'
                       \subseteq PublishedFiles' \cup (Image(e)' \ commits'[base'[e]].tree)
          /\ IsRestore(e)' => commits'[p.candidate].tree \subseteq PublishedFiles'
        BY <1>1, <1>3, <1>6, <1>7, <1>8, <1>9, <2>2, <3>1, <3>3
    <3>5. PICK q : q = pending'[e]
        OBVIOUS
    <3>6. q = p
        BY <1>1, <1>4, <3>5
    <3> QED BY <3>4, <3>5, <3>6 DEF RowFiles, Carried, Back, CopiedBack, Tree
  <2> QED BY <2>1, <2>2
<1>13. MergeFits(e) => MergeFits(e)'
  <2>1. run[e].phase = "merge" => run[e].seen \in 0 .. Len(commits)
      BY <1>2 DEF RunInv
  <2> QED BY <1>1, <1>3, <2>1 DEF MergeFits
<1> QED BY <1>1, <1>8, <1>9, <1>10, <1>11, <1>12, <1>13

LEMMA OwnIsSaved ==
    ASSUME SInv, NEW d \in Devices
    PROVE  Own(d) \subseteq saved /\ commits[base[d]].tree \subseteq saved
<1>1. PlaceInv(d) /\ RowInv(d) /\ RunInv(d)
    BY DEF SInv, DeviceInv
<1>2. \A c \in 1 .. Len(commits) : commits[c].tree \subseteq saved
    BY HistoryParts
<1>3. IsSync(d) => pending[d].captured \in 1 .. Len(commits)
    BY <1>1 DEF RowInv, IsSync
<1>4. Image(d) \subseteq saved
    BY <1>1, <1>2, <1>3 DEF Image, PlaceInv, RunInv
<1> QED BY <1>1, <1>2, <1>4 DEF Own, PlaceInv

LEMMA SameCommits ==
    ASSUME SInv, commits' = commits
    PROVE  Extends(commits, commits')
    BY HistoryParts DEF Extends

LEMMA GraphStays ==
    ASSUME SInv, SInv', GraphInv, NEW d \in Devices, Beside(d), commits' = commits,
           MergeFits(d)',
           pending'[d] # NoPending => /\ pending[d] # NoPending
                                      /\ pending'[d].candidate = pending[d].candidate
    PROVE  GraphInv'
<1>1. Extends(commits, commits') /\ role' = role
    BY SameCommits DEF Beside
<1>2. \A e \in Devices \ {d} : pending'[e] = pending[e] /\ (MergeFits(e) => MergeFits(e)')
    BY <1>1, SteadyDevice DEF GraphInv
<1>3. Links'
    BY <1>1 DEF GraphInv, Links, LinkAt
<1>4. \A e \in Devices : pending'[e] # NoPending =>
          pending[e] # NoPending /\ pending'[e].candidate = pending[e].candidate
    BY <1>2
<1>5. ASSUME NEW e \in Devices PROVE Tip(e)' /\ MergeFits(e)'
  <2>1. Tip(e) /\ MergeFits(e)
      BY DEF GraphInv
  <2>2. Tip(e)'
    <3> SUFFICES ASSUME pending'[e] # NoPending
                 PROVE  /\ \A c \in 1 .. Len(commits) :
                               commits[c].second # pending[e].candidate
                        /\ \A x \in Devices \ {e} :
                               pending'[x].candidate # pending[e].candidate
        BY <1>4 DEF Tip
    <3>1. /\ pending[e] # NoPending
          /\ \A c \in 1 .. Len(commits) : commits[c].second # pending[e].candidate
          /\ \A x \in Devices \ {e} : pending[x].candidate # pending[e].candidate
        BY <1>4, <2>1 DEF Tip
    <3>2. pending[e].candidate # NoPending.candidate
      <4>1. RowInv(e)
          BY DEF SInv, DeviceInv
      <4> QED BY <3>1, <4>1 DEF RowInv, NoPending, NoCommit
    <3> QED BY <1>4, <3>1, <3>2
  <2>3. MergeFits(e)'
      BY <1>2, <2>1
  <2> QED BY <2>2, <2>3
<1> QED BY <1>3, <1>5 DEF GraphInv

LEMMA GraphBuilt ==
    ASSUME SInv, SInv', GraphInv, NEW d \in Devices, Builds(d)
    PROVE  GraphInv'
<1>1. PICK n : n = Len(commits')
    OBVIOUS
<1>2. PICK p : p = pending[d]
    OBVIOUS
<1>3. /\ Beside(d) /\ Extends(commits, commits') /\ role' = role
      /\ pending'[d] # NoPending /\ pending'[d].candidate = n /\ n > Len(commits)
      /\ run'[d].phase # "merge"
      /\ \A x \in 1 .. n : x > Len(commits) /\ commits'[x].second # NoCommit =>
            /\ x = n /\ LinkAt(x)'
            /\ \/ commits'[x].second > Len(commits)
               \/ p # NoPending /\ commits'[x].second = p.candidate
    BY <1>1, <1>2 DEF Builds, Beside
<1>4. /\ Len(commits) \in Nat /\ n \in Nat
      /\ \A c \in 1 .. Len(commits) : c \in 1 .. n /\ commits'[c] = commits[c]
    BY <1>1, <1>3, Steady
<1>5. Backward(commits) /\ Backward(commits')
  <2>1. HistoryOK(commits', approved', saved', deleted')
      BY DEF SInv
  <2> QED BY <2>1, HistoryParts DEF HistoryOK
<1>6. \A e \in Devices \ {d} : pending'[e] = pending[e] /\ (MergeFits(e) => MergeFits(e)')
    BY <1>3, SteadyDevice DEF GraphInv
<1>7. \A c \in 1 .. Len(commits) : commits[c].second \in 0 .. Len(commits)
    BY <1>4, <1>5 DEF Backward
<1>8. ASSUME NEW e \in Devices, pending[e] # NoPending
      PROVE  /\ pending[e].candidate \in 1 .. Len(commits)
             /\ \A c \in 1 .. Len(commits) : commits[c].second # pending[e].candidate
             /\ \A x \in Devices \ {e} : pending[x].candidate # pending[e].candidate
  <2>1. RowInv(e) /\ Tip(e)
      BY DEF SInv, DeviceInv, GraphInv
  <2> QED BY <1>8, <2>1 DEF RowInv, Tip
<1>9. Links'
  <2>1. ASSUME NEW c \in 1 .. n, c > Len(commits), commits'[c].second # NoCommit,
               NEW x \in 1 .. Len(commits)
        PROVE  commits[x].second # commits'[c].second
      BY <1>2, <1>3, <1>4, <1>7, <1>8, <2>1
  <2> QED BY <1>1, <1>3, <2>1, LinksGrow DEF GraphInv
<1>10. ASSUME NEW e \in Devices PROVE Tip(e)'
  <2>1. CASE e = d
    <3>1. \A c \in 1 .. n : commits'[c].second # n
        BY <1>1, <1>4, <1>5 DEF Backward
    <3>2. \A x \in Devices \ {d} : pending'[x].candidate # n
      <4>1. ASSUME NEW x \in Devices \ {d} PROVE pending[x].candidate # n
        <5>1. CASE pending[x] = NoPending
            BY <1>3, <1>4, <5>1 DEF NoPending, NoCommit
        <5>2. CASE pending[x] # NoPending
            BY <1>3, <1>4, <1>8, <5>2
        <5> QED BY <5>1, <5>2
      <4> QED BY <1>6, <4>1
    <3> QED BY <1>1, <1>3, <2>1, <3>1, <3>2 DEF Tip
  <2>2. CASE e # d
    <3>1. SUFFICES ASSUME pending[e] # NoPending
                   PROVE  /\ \A c \in 1 .. n : commits'[c].second # pending[e].candidate
                          /\ \A x \in Devices \ {e} :
                                 pending'[x].candidate # pending[e].candidate
        BY <1>1, <1>6, <2>2 DEF Tip
    <3>2. /\ pending[e].candidate \in 1 .. Len(commits)
          /\ \A c \in 1 .. Len(commits) : commits[c].second # pending[e].candidate
          /\ \A x \in Devices \ {e} : pending[x].candidate # pending[e].candidate
        BY <1>8, <3>1
    <3>3. ASSUME NEW c \in 1 .. n PROVE commits'[c].second # pending[e].candidate
      <4>1. CASE c <= Len(commits)
        <5>1. c \in 1 .. Len(commits)
            BY <1>4, <4>1
        <5> QED BY <1>4, <3>2, <5>1
      <4>2. CASE c > Len(commits)
          BY <1>2, <1>3, <1>4, <2>2, <3>2, <4>2 DEF NoCommit
      <4> QED BY <1>4, <4>1, <4>2
    <3>4. ASSUME NEW x \in Devices \ {e} PROVE pending'[x].candidate # pending[e].candidate
        BY <1>3, <1>4, <1>6, <3>2, <3>4
    <3> QED BY <3>3, <3>4
  <2> QED BY <2>1, <2>2
<1>11. ASSUME NEW e \in Devices PROVE MergeFits(e)'
    BY <1>3, <1>6 DEF GraphInv, MergeFits
<1> QED BY <1>9, <1>10, <1>11 DEF GraphInv

LEMMA GraphPublished ==
    ASSUME SInv, GraphInv, NEW m \in net, HandlePut(m) \/ LosePut(m)
    PROVE  GraphInv'
<1>1. commits' = commits /\ pending' = pending /\ run' = run /\ base' = base
    BY DEF HandlePut, LosePut, rowVars
<1>2. \A d \in Devices : Tip(d)' /\ MergeFits(d)'
    BY <1>1 DEF GraphInv, Tip, MergeFits
<1>3. CASE role' = role
    BY <1>1, <1>2, <1>3 DEF GraphInv, Links, LinkAt
<1>4. CASE MeetsHead(m) /\ Accepts(m.candidate) /\ HandlePut(m)
  <2>1. PICK c : c = m.candidate
      OBVIOUS
  <2>2. c \in 1 .. Len(commits) /\ commits[c].first = head
      BY <1>4, <2>1, AcceptedFacts
  <2>3. role' = NewRoles(commits, role, c)
      BY <1>4, <2>1, SecondChainIsChain DEF HandlePut, NewRoles
  <2>4. Links'
      BY <1>1, <2>2, <2>3, LinksPublish DEF GraphInv
  <2> QED BY <1>2, <2>4 DEF GraphInv
<1> QED BY <1>3, <1>4 DEF HandlePut, LosePut, serverVars

-----------------------------------------------------------------------------
(* Files, as devices go on.                                                *)

(* A candidate carries what is published and what its device captured.     *)
LEMMA CarriedByRow ==
    ASSUME SInv, NEW d \in Devices, RowFiles(d), pending[d] # NoPending
    PROVE  /\ pending[d].candidate \in 1 .. Len(commits)
           /\ Carried(pending[d].candidate) \subseteq PublishedFiles \cup Own(d)
           /\ IsSync(d) => Carried(pending[d].candidate)
                               \subseteq PublishedFiles \cup (Image(d) \ commits[base[d]].tree)
           /\ ~ IsSync(d) => Carried(pending[d].candidate) \subseteq PublishedFiles
<1>1. PICK c : c = pending[d].candidate
    OBVIOUS
<1>2. RowInv(d)
    BY DEF SInv, DeviceInv
<1>3. c \in 1 .. Len(commits)
    BY <1>1, <1>2 DEF RowInv
<1>4. CASE IsSync(d)
    BY <1>1, <1>3, <1>4 DEF RowFiles, Own
<1>5. CASE ~ IsSync(d)
  <2>1. IsRestore(d) /\ commits[c].source # NoCommit
      BY <1>1, <1>2, <1>5, IsRestoreMeans DEF IsSync
  <2>2. commits[c].tree \subseteq PublishedFiles
      BY <1>1, <2>1 DEF RowFiles
  <2>3. commits[c].second = 0
      BY <1>1, <1>2, <2>1 DEF RowInv, RestoreRow, NoCommit
  <2>4. Chain(commits)[c] = {c}
    <3>1. Chain(commits)[c] = {c} \cup Chain(commits)[0] /\ Chain(commits)[0] = {}
        BY <1>3, <2>3, ChainUnfolds, HistoryParts
    <3> QED BY <3>1
  <2>5. Carried(c) = commits[c].tree
      BY <2>4 DEF Carried
  <2> QED BY <1>1, <1>3, <1>5, <2>2, <2>5
<1> QED BY <1>4, <1>5

(* When a device sends its candidate: what it would bring back was given   *)
(* up.                                                                     *)
LEMMA RowMessage ==
    ASSUME SInv, Links, NEW d \in Devices, OwnFits(d), RowFiles(d), pending[d] # NoPending,
           NEW m, m.candidate = pending[d].candidate, m.expected = pending[d].expected
    PROVE  MessageFiles(m)
<1>1. PICK c : c = pending[d].candidate
    OBVIOUS
<1>2. PICK h : h = pending[d].expected
    OBVIOUS
<1>3. RowInv(d)
    BY DEF SInv, DeviceInv
<1>4. c \in 1 .. Len(commits) /\ role[h] = "mainline" /\ commits[c].first = h
    BY <1>1, <1>2, <1>3 DEF RowInv
<1>5. ASSUME h = head, commits[c].source = NoCommit,
             NEW f \in (commits[c].tree \ commits[head].tree) \cap PublishedFiles
      PROVE  f \in forgotten \cup Back(c)
  <2>1. IsSync(d)
      BY <1>1, <1>3, <1>5, IsRestoreMeans DEF IsSync
  <2>2. f \in Image(d) \ commits[base[d]].tree \/ f \in Back(c)
      BY <1>1, <1>2, <1>5, <2>1 DEF RowFiles
  <2>3. f \in Own(d) \/ f \in Back(c)
      BY <2>2 DEF Own
  <2>4. role[c] = "none"
      BY <1>4, <1>5, NextIsUnpublished
  <2> QED BY <1>1, <1>5, <2>3, <2>4 DEF OwnFits, Fresh
<1> QED BY <1>1, <1>2, <1>4, <1>5 DEF MessageFiles

(* A step of one device is one for the files of all, if it fits it, if it  *)
(* takes no files that it did not have, and if what it sends is its row.   *)
LEMMA FilesBeside ==
    ASSUME SInv, SInv', Links, FileInv, NEW d \in Devices, Beside(d), Extends(commits, commits'),
           OwnFits(d)', ImageFits(d)', RowFiles(d)', Own(d)' \cap saved \subseteq Own(d),
           \A m \in net' : \/ m \in net
                           \/ /\ MessageFiles(m)'
                              /\ pending[d] # NoPending /\ m.candidate = pending[d].candidate
    PROVE  FileInv'
<1>1. /\ PublishedFiles' = PublishedFiles
      /\ \A c \in 1 .. Len(commits) : Carried(c)' = Carried(c)
      /\ \A c \in 1 .. Len(commits) : c \in 1 .. Len(commits') /\ commits'[c] = commits[c]
    BY Steady, SteadyFiles DEF Beside
<1>2. /\ role' = role /\ head' = head /\ dropped' = dropped /\ forgotten \subseteq forgotten'
    BY DEF Beside
<1>3. ASSUME NEW e \in Devices \ {d}
      PROVE  /\ IsSync(e)' <=> IsSync(e)
             /\ pending'[e] = pending[e]
             /\ Image(e)' = Image(e) /\ Own(e)' = Own(e)
             /\ ImageFits(e)' /\ RowFiles(e)'
  <2>1. ImageFits(e) /\ RowFiles(e)
      BY DEF FileInv
  <2> QED BY <2>1, SteadyDevice
<1>4. ASSUME NEW m \in net PROVE m.candidate \in 1 .. Len(commits) /\ MessageFiles(m)'
  <2>1. MessageFiles(m) /\ m.candidate \in 1 .. Len(commits) /\ head \in 1 .. Len(commits)
      BY Roles DEF FileInv, SInv, MessageInv
  <2>2. /\ commits'[m.candidate] = commits[m.candidate] /\ commits'[head] = commits[head]
        /\ Back(m.candidate)' = Back(m.candidate)
      BY <1>1, <2>1, SteadyBack DEF Beside
  <2> QED BY <1>1, <1>2, <2>1, <2>2 DEF MessageFiles
<1>5. ASSUME NEW e \in Devices \ {d}, NEW f \in Own(e)', f \notin forgotten'
      PROVE  \/ Fresh(e, f)'
             \/ IsSync(e)' /\ role'[pending'[e].candidate] # "none" /\ f \in Image(e)'
  <2>1. \/ Fresh(e, f)
        \/ IsSync(e) /\ role[pending[e].candidate] # "none" /\ f \in Image(e)
      BY <1>2, <1>3, <1>5 DEF FileInv, OwnFits
  <2>2. CASE IsSync(e) /\ role[pending[e].candidate] # "none" /\ f \in Image(e)
      BY <1>2, <1>3, <2>2
  <2>3. CASE Fresh(e, f)
    <3>1. ASSUME NEW m \in net', m.expected = head, f \in Carried(m.candidate)'
          PROVE  IsSync(e)' /\ m.candidate = pending'[e].candidate
      <4>1. CASE m \in net
        <5>1. f \in Carried(m.candidate)
            BY <1>1, <1>4, <3>1, <4>1
        <5> QED BY <1>3, <2>3, <3>1, <4>1, <5>1 DEF Fresh
      <4>2. CASE pending[d] # NoPending /\ m.candidate = pending[d].candidate
        <5>1. /\ pending[d].candidate \in 1 .. Len(commits)
              /\ Carried(pending[d].candidate) \subseteq PublishedFiles \cup Own(d)
            BY <4>2, CarriedByRow DEF FileInv
        <5>2. f \in PublishedFiles \cup Own(d)
            BY <1>1, <3>1, <4>2, <5>1
        <5>3. f \notin PublishedFiles /\ f \in Own(e) /\ Own(d) \cap Own(e) = {}
            BY <1>3, <1>5, <2>3 DEF Fresh, FileInv
        <5> QED BY <5>2, <5>3
      <4> QED BY <4>1, <4>2
    <3> QED BY <1>1, <1>2, <2>3, <3>1 DEF Fresh
  <2> QED BY <2>1, <2>2, <2>3
<1>6. ASSUME NEW e \in Devices PROVE OwnFits(e)' /\ ImageFits(e)' /\ RowFiles(e)'
  <2>1. CASE e = d
      BY <2>1
  <2>2. CASE e # d
    <3>1. OwnFits(e)'
        BY <1>5, <2>2 DEF OwnFits
    <3> QED BY <1>3, <2>2, <3>1
  <2> QED BY <2>1, <2>2
<1>7. ASSUME NEW e \in Devices, NEW x \in Devices, e # x PROVE Own(e)' \cap Own(x)' = {}
  <2>1. Own(e) \subseteq saved /\ Own(x) \subseteq saved /\ Own(e) \cap Own(x) = {}
      BY <1>7, OwnIsSaved DEF FileInv
  <2>2. CASE e = d
    <3>1. Own(x)' = Own(x)
        BY <1>3, <1>7, <2>2
    <3> QED BY <2>1, <2>2, <3>1
  <2>3. CASE x = d
    <3>1. Own(e)' = Own(e)
        BY <1>3, <1>7, <2>3
    <3> QED BY <2>1, <2>3, <3>1
  <2>4. CASE e # d /\ x # d
      BY <1>3, <2>1, <2>4
  <2> QED BY <2>2, <2>3, <2>4
<1>8. \A m \in net' : MessageFiles(m)'
    BY <1>4
<1>9. /\ dropped' \subseteq PublishedFiles'
      /\ dropped' \cap commits'[head'].tree \subseteq forgotten'
  <2>1. head \in 1 .. Len(commits)
      BY Roles
  <2> QED BY <1>1, <1>2, <2>1 DEF FileInv
<1> QED BY <1>6, <1>7, <1>8, <1>9 DEF FileInv

LEMMA FilesKept ==
    ASSUME SInv, SInv', Links, FileInv, NEW d \in Devices, Keeps(d)
    PROVE  FileInv'
<1>1. /\ Beside(d) /\ commits' = commits /\ base'[d] = base[d] /\ SameRow(d)
      /\ worktree'[d] \cap saved \subseteq worktree[d]
      /\ Image(d)' = Image(d) \/ Image(d)' = worktree'[d]
      /\ \A m \in net' : \/ m \in net
                         \/ pending[d] # NoPending /\ m.candidate = pending[d].candidate
      /\ role' = role /\ head' = head /\ forgotten \subseteq forgotten'
    BY DEF Keeps, Beside
<1>2. Extends(commits, commits')
    BY <1>1, SameCommits
<1>3. /\ PublishedFiles' = PublishedFiles
      /\ \A c \in 1 .. Len(commits) : Carried(c)' = Carried(c) /\ Back(c)' = Back(c)
    BY <1>1, <1>2, SteadyFiles, SteadyBack
<1>4. OwnFits(d) /\ ImageFits(d) /\ RowFiles(d) /\ \A m \in net : MessageFiles(m)
    BY DEF FileInv
<1>5. /\ PublishedFiles \subseteq saved
      /\ \A c \in 1 .. Len(commits) : Carried(c) \subseteq saved
      /\ commits[base[d]].tree \subseteq saved
  <2>1. \A c \in 1 .. Len(commits) : commits[c].tree \subseteq saved
      BY HistoryParts
  <2>2. \A c \in 1 .. Len(commits) : Chain(commits)[c] \subseteq 1 .. Len(commits)
      BY ChainIsBefore
  <2> QED BY <2>1, <2>2, OwnIsSaved DEF PublishedFiles, Carried
<1>6. /\ IsSync(d)' <=> IsSync(d)
      /\ IsRestore(d)' <=> IsRestore(d)
      /\ IsSync(d) => Image(d)' = Image(d)
    BY <1>1 DEF IsSync, IsRestore, Restores, SameRow, Image
<1>7. Own(d)' \cap saved \subseteq Own(d)
    BY <1>1 DEF Own
<1>8. \A m \in net' : m.candidate \in 1 .. Len(commits)
    BY <1>1 DEF SInv, MessageInv
<1>9. OwnFits(d)'
  <2> SUFFICES ASSUME NEW f \in Own(d)', f \notin forgotten'
               PROVE  \/ Fresh(d, f)'
                      \/ IsSync(d)' /\ role'[pending'[d].candidate] # "none" /\ f \in Image(d)'
      BY DEF OwnFits
  <2>1. CASE f \notin saved
    <3>1. f \notin PublishedFiles' /\ \A m \in net' : f \notin Carried(m.candidate)'
        BY <1>3, <1>5, <1>8, <2>1
    <3> QED BY <3>1 DEF Fresh
  <2>2. CASE f \in saved
    <3>1. \/ Fresh(d, f)
          \/ IsSync(d) /\ role[pending[d].candidate] # "none" /\ f \in Image(d)
        BY <1>1, <1>4, <1>7, <2>2 DEF OwnFits
    <3>2. CASE IsSync(d) /\ role[pending[d].candidate] # "none" /\ f \in Image(d)
        BY <1>1, <1>6, <3>2 DEF SameRow
    <3>3. CASE Fresh(d, f)
      <4>1. ASSUME NEW m \in net', m.expected = head, f \in Carried(m.candidate)'
            PROVE  IsSync(d) /\ m.candidate = pending[d].candidate
        <5>1. f \in Carried(m.candidate)
            BY <1>3, <1>8, <4>1
        <5>2. CASE m \in net
            BY <3>3, <4>1, <5>1, <5>2 DEF Fresh
        <5>3. CASE pending[d] # NoPending /\ m.candidate = pending[d].candidate
            BY <1>4, <3>3, <5>1, <5>3, CarriedByRow DEF Fresh
        <5> QED BY <1>1, <5>2, <5>3
      <4> QED BY <1>1, <1>3, <1>6, <3>3, <4>1 DEF Fresh, SameRow
    <3> QED BY <3>1, <3>2, <3>3
  <2> QED BY <2>1, <2>2
<1>10. ImageFits(d)'
    BY <1>1, <1>4, <1>5 DEF ImageFits
<1>11. RowFiles(d)'
  <2>1. pending[d] # NoPending =>
            pending[d].candidate \in 1 .. Len(commits)
      BY <1>4, CarriedByRow
  <2> QED BY <1>1, <1>3, <1>4, <1>6, <2>1 DEF RowFiles, SameRow, IsSync
<1>12. ASSUME NEW m \in net', m \notin net
       PROVE  /\ MessageFiles(m)'
              /\ pending[d] # NoPending /\ m.candidate = pending[d].candidate
  <2>1. pending[d] # NoPending /\ m.candidate = pending[d].candidate
      BY <1>1, <1>12
  <2>2. m.expected = commits[m.candidate].first
      BY <1>1 DEF SInv, MessageInv
  <2>3. commits[pending[d].candidate].first = pending[d].expected
      BY <2>1 DEF SInv, DeviceInv, RowInv
  <2>4. MessageFiles(m)
      BY <1>4, <2>1, <2>2, <2>3, RowMessage
  <2>5. Back(m.candidate)' = Back(m.candidate)
      BY <1>3, <1>8, <1>12, <1>1
  <2> QED BY <1>1, <1>3, <2>1, <2>4, <2>5 DEF MessageFiles
<1> QED BY <1>1, <1>2, <1>7, <1>9, <1>10, <1>11, <1>12, FilesBeside

LEMMA FilesSettled ==
    ASSUME SInv, SInv', Links, FileInv, NEW d \in Devices, Settles(d)
    PROVE  FileInv'
<1>1. /\ Beside(d) /\ commits' = commits /\ net' = net
      /\ pending'[d] = NoPending /\ run'[d].phase \notin {"scanned", "merge"}
      /\ Own(d)' \subseteq Own(d)
      /\ IsSync(d) =>
            \/ Own(d)' \cap Image(d) \subseteq forgotten'
            \/ /\ role[pending[d].candidate] = "none"
               /\ \A m \in net : m.candidate # pending[d].candidate
      /\ role' = role /\ head' = head /\ forgotten \subseteq forgotten'
    BY DEF Settles, Beside
<1>2. Extends(commits, commits')
    BY <1>1, SameCommits
<1>3. /\ PublishedFiles' = PublishedFiles
      /\ \A c \in 1 .. Len(commits) : Carried(c)' = Carried(c)
    BY <1>1, <1>2, SteadyFiles
<1>4. OwnFits(d) /\ RowFiles(d)
    BY DEF FileInv
<1>5. ~ IsSync(d)' /\ Image(d)' = worktree'[d]
    BY <1>1 DEF IsSync, Image
<1>6. OwnFits(d)'
  <2> SUFFICES ASSUME NEW f \in Own(d)', f \notin forgotten' PROVE Fresh(d, f)'
      BY DEF OwnFits
  <2>1. \/ Fresh(d, f)
        \/ IsSync(d) /\ role[pending[d].candidate] # "none" /\ f \in Image(d)
      BY <1>1, <1>4 DEF OwnFits
  <2>2. Fresh(d, f)
      BY <1>1, <2>1
  <2>3. ASSUME NEW m \in net, m.expected = head, f \in Carried(m.candidate) PROVE FALSE
    <3>1. IsSync(d) /\ m.candidate = pending[d].candidate /\ f \notin PublishedFiles
        BY <2>2, <2>3 DEF Fresh
    <3>2. f \in Image(d)
        BY <1>4, <2>3, <3>1, CarriedByRow DEF IsSync
    <3> QED BY <1>1, <3>1, <3>2
  <2>4. \A m \in net : m.candidate \in 1 .. Len(commits)
      BY DEF SInv, MessageInv
  <2> QED BY <1>1, <1>3, <2>2, <2>3, <2>4 DEF Fresh
<1>7. ImageFits(d)'
    BY <1>5 DEF ImageFits
<1>8. RowFiles(d)'
    BY <1>1, <1>5 DEF RowFiles
<1> QED BY <1>1, <1>2, <1>6, <1>7, <1>8, FilesBeside

LEMMA FilesBuilt ==
    ASSUME SInv, SInv', Links, FileInv, NEW d \in Devices, Builds(d)
    PROVE  FileInv'
<1>1. /\ Beside(d) /\ Extends(commits, commits') /\ net' = net
      /\ base'[d] = base[d] /\ worktree'[d] = worktree[d] /\ Image(d)' = Image(d)
      /\ RowFiles(d)'
      /\ pending[d] # NoPending =>
            /\ IsSync(d) /\ role[pending[d].candidate] = "none"
            /\ pending[d].expected # head
      /\ role' = role /\ head' = head /\ forgotten \subseteq forgotten'
    BY DEF Builds, Beside
<1>2. /\ PublishedFiles' = PublishedFiles
      /\ \A c \in 1 .. Len(commits) : Carried(c)' = Carried(c)
    BY <1>1, SteadyFiles
<1>3. OwnFits(d) /\ ImageFits(d) /\ RowInv(d) /\ base[d] \in 1 .. Len(commits)
    BY DEF FileInv, SInv, DeviceInv, PlaceInv
<1>4. commits'[base[d]] = commits[base[d]]
    BY <1>1, <1>3, Steady
<1>5. Own(d)' = Own(d)
    BY <1>1, <1>4 DEF Own
<1>6. OwnFits(d)'
  <2> SUFFICES ASSUME NEW f \in Own(d), f \notin forgotten PROVE Fresh(d, f)'
      BY <1>1, <1>5 DEF OwnFits
  <2>1. Fresh(d, f)
      BY <1>1, <1>3 DEF OwnFits, IsSync
  <2>2. ASSUME NEW m \in net, m.expected = head, f \in Carried(m.candidate) PROVE FALSE
    <3>1. IsSync(d) /\ m.candidate = pending[d].candidate
        BY <2>1, <2>2 DEF Fresh
    <3>2. m.expected = commits[m.candidate].first
        BY DEF SInv, MessageInv
    <3>3. commits[pending[d].candidate].first = pending[d].expected
        BY <1>3, <3>1 DEF RowInv, IsSync
    <3> QED BY <1>1, <2>2, <3>1, <3>2, <3>3 DEF IsSync
  <2>3. \A m \in net : m.candidate \in 1 .. Len(commits)
      BY DEF SInv, MessageInv
  <2> QED BY <1>1, <1>2, <2>1, <2>2, <2>3 DEF Fresh
<1>7. ImageFits(d)'
    BY <1>1, <1>3, <1>4 DEF ImageFits
<1> QED BY <1>1, <1>5, <1>6, <1>7, FilesBeside

(* Files, as the Head moves to c: all that c carries is published now, and *)
(* no PUT on its way is good any more.                                     *)
LEMMA FilesPublished ==
    ASSUME SInv, SInv', Links, FileInv, NEW m \in net, HandlePut(m),
           MeetsHead(m), Accepts(m.candidate)
    PROVE  FileInv'
<1>1. PICK c : c = m.candidate
    OBVIOUS
<1>2. /\ net' \subseteq net /\ head' = c
      /\ role' = NewRoles(commits, role, c)
      /\ dropped' = (dropped \ Returned(c)) \cup (commits[head].tree \ commits[c].tree)
      /\ commits' = commits /\ worktree' = worktree /\ base' = base /\ pending' = pending
      /\ run' = run /\ forgotten' = forgotten
    BY <1>1, SecondChainIsChain
       DEF HandlePut, NewRoles, userVars, rowVars, historyVars, Tree
<1>3. c \in 1 .. Len(commits) /\ commits[c].first = head
    BY <1>1, AcceptedFacts
<1>4. role[c] = "none" /\ m.expected = head /\ head \in 1 .. Len(commits) /\ role[head] = "mainline"
    BY <1>3, NextIsUnpublished, Roles DEF MeetsHead
<1>5. /\ 1 .. Len(commits) \subseteq CommitIds
      /\ Chain(commits)[c] \subseteq 1 .. Len(commits) /\ c \in Chain(commits)[c]
      /\ \A s \in Chain(commits)[c] : role[s] = "none"
  <2>1. Chain(commits)[c] = {c} \cup Chain(commits)[commits[c].second]
      BY <1>3, HistoryParts, ChainUnfolds
  <2> QED BY <1>3, <2>1, HistoryParts, NextIsUnpublished
<1>6. \A x \in 1 .. Len(commits) :
          role'[x] = IF x = c THEN "mainline"
                     ELSE IF x \in Chain(commits)[c] THEN "merge-source" ELSE role[x]
    BY <1>2, <1>5 DEF NewRoles
<1>7. ASSUME NEW x \in 1 .. Len(commits)
      PROVE  /\ role'[x] # "none" <=> role[x] # "none" \/ x \in Chain(commits)[c]
             /\ role[x] = "mainline" => role'[x] = "mainline"
    BY <1>5, <1>6
<1>8. PublishedFiles' = PublishedFiles \cup Carried(c)
  <2>1. {x \in 1 .. Len(commits) : role'[x] # "none"}
            = {x \in 1 .. Len(commits) : role[x] # "none"} \cup Chain(commits)[c]
      BY <1>5, <1>7
  <2> QED BY <1>2, <2>1 DEF PublishedFiles, Carried
<1>9. ASSUME NEW d \in Devices
      PROVE  /\ IsSync(d)' <=> IsSync(d)
             /\ Image(d)' = Image(d) /\ Own(d)' = Own(d)
             /\ OwnFits(d) /\ ImageFits(d) /\ RowFiles(d) /\ RowInv(d)
             /\ ImageFits(d)'
    BY <1>2 DEF IsSync, IsRestore, Restores, Image, Own, ImageFits, FileInv, SInv, DeviceInv
<1>10. ASSUME NEW x \in net
       PROVE  role[x.expected] = "mainline" /\ x.expected \in 1 .. Len(commits) /\ x.expected # c
  <2>1. role[x.expected] = "mainline"
      BY DEF FileInv, MessageFiles
  <2>2. x.expected \in CommitIds
      BY DEF SInv, MessageInv
  <2>3. x.expected \in 1 .. Len(commits)
      BY <2>1, <2>2, HistoryParts, NoRoleInAdvance DEF SInv
  <2> QED BY <1>4, <2>1, <2>3
<1>11. ASSUME NEW d \in Devices PROVE OwnFits(d)'
  <2> SUFFICES ASSUME NEW f \in Own(d), f \notin forgotten
               PROVE  \/ Fresh(d, f)'
                      \/ IsSync(d) /\ role'[pending[d].candidate] # "none" /\ f \in Image(d)
      BY <1>2, <1>9 DEF OwnFits
  <2>1. CASE IsSync(d) /\ role[pending[d].candidate] # "none" /\ f \in Image(d)
      BY <1>7, <1>9, <2>1 DEF RowInv, IsSync
  <2>2. CASE Fresh(d, f) /\ f \notin Carried(c)
      BY <1>2, <1>8, <1>10, <2>2 DEF Fresh
  <2>3. CASE Fresh(d, f) /\ f \in Carried(c)
    <3>1. IsSync(d) /\ c = pending[d].candidate /\ f \notin PublishedFiles
        BY <1>1, <1>4, <2>3 DEF Fresh
    <3>2. f \in Image(d)
        BY <1>9, <2>3, <3>1 DEF RowFiles
    <3> QED BY <1>3, <1>5, <1>7, <3>1, <3>2
  <2> QED BY <1>9, <2>1, <2>2, <2>3 DEF OwnFits
<1>12. ASSUME NEW d \in Devices PROVE RowFiles(d)'
  <2>1. /\ RowFiles(d) /\ (IsSync(d)' <=> IsSync(d)) /\ Image(d)' = Image(d)
        /\ PublishedFiles \subseteq PublishedFiles'
        /\ IsRestore(d)' <=> IsRestore(d)
      BY <1>2, <1>8, <1>9 DEF IsRestore, Restores
  <2>2. PICK x : x = pending[d].candidate
      OBVIOUS
  <2>3. Carried(x)' = Carried(x) /\ Back(x)' = Back(x)
      BY <1>2 DEF Carried, Back, CopiedBack, Tree
  <2> QED BY <1>2, <2>1, <2>2, <2>3 DEF RowFiles
<1>13. \A x \in net' : MessageFiles(x)'
  <2>1. \A x : Back(x)' = Back(x)
      BY <1>2 DEF Back, CopiedBack, Tree
  <2> QED BY <1>2, <1>7, <1>10, <2>1 DEF MessageFiles
<1>14. commits[c].tree \subseteq Carried(c) /\ commits[head].tree \subseteq PublishedFiles
    BY <1>4, <1>5 DEF Carried, PublishedFiles
<1>15. dropped' \subseteq PublishedFiles'
    BY <1>2, <1>8, <1>14 DEF FileInv
<1>16. ASSUME NEW f \in dropped' \cap commits[c].tree PROVE f \in forgotten
  <2>1. f \in dropped /\ f \notin Returned(c)
      BY <1>2, <1>16
  <2>2. commits[c].source = NoCommit
      BY <1>3, <1>16, <2>1 DEF Returned, Restores, Tree
  <2>3. f \notin Back(c)
      BY <1>3, <1>16, <2>1, <2>2, SecondChainIsChain DEF Returned, Restores, Tree, Back
  <2>4. CASE f \in commits[head].tree
      BY <2>1, <2>4 DEF FileInv
  <2>5. CASE f \notin commits[head].tree
      BY <1>1, <1>4, <1>16, <2>1, <2>2, <2>5, <2>3 DEF FileInv, MessageFiles
  <2> QED BY <2>4, <2>5
<1>17. \A d, e \in Devices : d # e => Own(d)' \cap Own(e)' = {}
    BY <1>9 DEF FileInv
<1> QED BY <1>2, <1>9, <1>11, <1>12, <1>13, <1>15, <1>16, <1>17 DEF FileInv

LEMMA FilesUnsent ==
    ASSUME SInv, FileInv, net' \subseteq net,
           UNCHANGED <<commits, serverVars, userVars, rowVars, run, historyVars>>
    PROVE  FileInv'
<1>1. /\ commits' = commits /\ head' = head /\ role' = role /\ dropped' = dropped
      /\ worktree' = worktree /\ base' = base /\ pending' = pending /\ run' = run
      /\ forgotten' = forgotten
    BY DEF serverVars, userVars, rowVars, historyVars
<1>2. PublishedFiles' = PublishedFiles
    BY <1>1 DEF PublishedFiles
<1>3. ASSUME NEW d \in Devices
      PROVE  /\ Own(d)' = Own(d)
             /\ OwnFits(d)' /\ ImageFits(d)' /\ RowFiles(d)'
  <2>1. OwnFits(d) /\ ImageFits(d) /\ RowFiles(d)
      BY DEF FileInv
  <2>2. /\ IsSync(d)' <=> IsSync(d)
        /\ IsRestore(d)' <=> IsRestore(d)
        /\ Image(d)' = Image(d) /\ Own(d)' = Own(d)
      BY <1>1 DEF IsSync, IsRestore, Restores, Image, Own
  <2>3. \A f : Fresh(d, f) => Fresh(d, f)'
      BY <1>1, <1>2, <2>2 DEF Fresh, Carried
  <2>4. OwnFits(d)'
      BY <1>1, <2>1, <2>2, <2>3 DEF OwnFits
  <2>5. ImageFits(d)'
      BY <1>1, <2>1, <2>2 DEF ImageFits
  <2>6. \A x : Back(x)' = Back(x)
      BY <1>1 DEF Back, CopiedBack, Tree
  <2>7. RowFiles(d)'
      BY <1>1, <1>2, <2>1, <2>2, <2>6 DEF RowFiles, Carried
  <2> QED BY <2>2, <2>4, <2>5, <2>7
<1>4. \A m \in net' : MessageFiles(m)'
  <2>1. \A x : Back(x)' = Back(x)
      BY <1>1 DEF Back, CopiedBack, Tree
  <2> QED BY <1>1, <1>2, <2>1 DEF FileInv, MessageFiles
<1> QED BY <1>1, <1>2, <1>3, <1>4 DEF FileInv

-----------------------------------------------------------------------------
(* Steps that keep the row.                                                *)

(* Neither commits nor the server's tables nor the worktrees change.       *)
Calm ==
    /\ commits' = commits /\ role' = role /\ head' = head /\ dropped' = dropped
    /\ saved' = saved /\ worktree' = worktree /\ forgotten \subseteq forgotten'

(* What a run may scan and read.                                           *)
RunMayBe(d, r) ==
    /\ pending[d] = NoPending /\ r.phase \in {"scanned", "merge"} =>
          \/ r.scan = worktree[d]
          \/ run[d].phase \in {"scanned", "merge"} /\ r.scan = run[d].scan
    /\ r.phase = "merge" =>
          IF pending[d] = NoPending THEN r.seen # base[d]
          ELSE /\ r.seen # pending[d].expected
               /\ pending[d].candidate \notin Up(commits)[r.seen]

LEMMA RowKept ==
    ASSUME SInv, NEW d \in Devices, Only(d), Calm, base'[d] = base[d], SameRow(d),
           RunMayBe(d, run'[d]),
           \A m \in net' : \/ m \in net
                           \/ pending[d] # NoPending /\ m.candidate = pending[d].candidate
    PROVE  Keeps(d)
<1>1. Beside(d) /\ commits' = commits /\ worktree'[d] = worktree[d]
    BY DEF Calm, Beside
<1>2. MergeFits(d)'
    BY <1>1 DEF RunMayBe, MergeFits, SameRow
<1>3. IsSync(d)' <=> IsSync(d)
    BY <1>1 DEF IsSync, IsRestore, Restores, SameRow
<1>4. Image(d)' = Image(d) \/ Image(d)' = worktree'[d]
  <2>1. CASE IsSync(d)
      BY <1>1, <1>3, <2>1 DEF Image, SameRow
  <2>2. CASE ~ IsSync(d)
      BY <1>1, <1>3, <2>2 DEF Image, SameRow, RunMayBe
  <2> QED BY <2>1, <2>2
<1> QED BY <1>1, <1>2, <1>4 DEF Keeps

LEMMA RunKeeps ==
    ASSUME SInv, NEW d \in Devices, Calm, NEW r, run' = [run EXCEPT ![d] = r],
           UNCHANGED rowVars, RunMayBe(d, r),
           \A m \in net' : \/ m \in net
                           \/ pending[d] # NoPending /\ m.candidate = pending[d].candidate
    PROVE  Keeps(d)
<1>1. /\ Only(d) /\ run'[d] = r
      /\ base'[d] = base[d] /\ pending'[d] = pending[d]
    BY RunOnly DEF rowVars, Calm
<1> QED BY <1>1, RowKept DEF SameRow

LEMMA EndKeeps ==
    ASSUME SInv, NEW d \in Devices, Calm, End(d), UNCHANGED rowVars, net' = net
    PROVE  Keeps(d)
<1>1. run' = [run EXCEPT ![d] = Ended]
    BY DEF End
<1>2. RunMayBe(d, Ended)
    BY DEF RunMayBe, Ended
<1> QED BY <1>1, <1>2, RunKeeps

(* A confirmation is written down.                                         *)
LEMMA ConfirmKeeps ==
    ASSUME SInv, NEW d \in Devices, Calm, pending[d] # NoPending, NEW x,
           pending' = [pending EXCEPT ![d].confirmed = x],
           NEW r, run' = [run EXCEPT ![d] = r], r.phase = "verify",
           UNCHANGED <<base, checkout>>, net' = net
    PROVE  Keeps(d)
<1> DEFINE q == [pending[d] EXCEPT !.confirmed = x]
<1>1. pending[d] \in Pending /\ pending[d].candidate \in 1 .. Len(commits)
    BY DEF SInv, DeviceInv, RowInv
<1>2. /\ q.candidate = pending[d].candidate /\ q.captured = pending[d].captured
      /\ q.expected = pending[d].expected
    BY <1>1 DEF Pending
<1>3. q # NoPending
    BY <1>1, <1>2 DEF NoPending, NoCommit
<1>4. pending' = [pending EXCEPT ![d] = q]
    OBVIOUS
<1> HIDE DEF q
<1>5. /\ Changes(pending, pending', d) /\ pending'[d] = q
      /\ Changes(run, run', d) /\ run'[d] = r
    BY <1>4, PendingEntry, RunEntry
<1>6. Only(d)
    BY <1>5, OnlyAt DEF SInv, Changes, Calm
<1>7. SameRow(d)
    BY <1>2, <1>3, <1>5 DEF SameRow
<1>8. RunMayBe(d, run'[d])
    BY <1>5 DEF RunMayBe
<1> QED BY <1>6, <1>7, <1>8, RowKept

LEMMA BeginKeeps ==
    ASSUME SInv, NEW d \in Devices, NEW confirm, Begin(d, confirm)
    PROVE  Keeps(d)
<1> DEFINE r == IF checkout[d] # NoCommit THEN [Ended EXCEPT !.phase = "checkout"]
                ELSE [phase |-> "scanned", scan |-> worktree[d], seen |-> NoCommit,
                      confirm |-> confirm]
<1>1. /\ run' = [run EXCEPT ![d] = r]
      /\ UNCHANGED <<commits, serverVars, net, userVars, rowVars, forgotten>>
    BY DEF Begin
<1>2. r.phase # "merge" /\ (r.phase = "scanned" => r.scan = worktree[d])
    BY DEF Ended
<1> HIDE DEF r
<1>3. Calm /\ RunMayBe(d, r)
    BY <1>1, <1>2 DEF Calm, RunMayBe, serverVars, userVars
<1> QED BY <1>1, <1>3, RunKeeps

LEMMA VerifyKeeps ==
    ASSUME SInv, NEW d \in Devices, Verify(d) \/ Reread(d) \/ Stop(d)
    PROVE  Keeps(d)
<1>1. /\ UNCHANGED <<commits, serverVars, net, userVars, rowVars, historyVars>>
      /\ Calm
    BY DEF Verify, Reread, Stop, Calm, serverVars, userVars, historyVars
<1>2. CASE End(d)
    BY <1>1, <1>2, EndKeeps
<1>3. CASE Goto(d, "publish") \/ Reread(d)
  <2>1. PICK r : run' = [run EXCEPT ![d] = r] /\ r.phase \in {"publish", "observe"}
    <3>1. run[d] \in Run
        BY DEF SInv, DeviceInv, RunInv
    <3>2. /\ [run[d] EXCEPT !.phase = "publish"].phase = "publish"
          /\ [run[d] EXCEPT !.phase = "observe", !.seen = head].phase = "observe"
        BY <3>1 DEF Run
    <3>3. \/ run' = [run EXCEPT ![d] = [run[d] EXCEPT !.phase = "publish"]]
          \/ run' = [run EXCEPT ![d] = [run[d] EXCEPT !.phase = "observe", !.seen = head]]
        BY <1>3 DEF Goto, Reread
    <3> QED BY <3>2, <3>3
  <2>2. RunMayBe(d, r)
      BY <2>1 DEF RunMayBe
  <2> QED BY <1>1, <2>1, <2>2, RunKeeps
<1> QED BY <1>2, <1>3 DEF Verify, Stop

LEMMA EditKeeps ==
    ASSUME SInv, NEW d \in Devices, MergeFits(d), NEW f \in Files, Save(d, f) \/ Delete(d, f)
    PROVE  Keeps(d)
<1>1. /\ \/ worktree' = [worktree EXCEPT ![d] = worktree[d] \cup {f}] /\ f \notin saved
         \/ worktree' = [worktree EXCEPT ![d] = worktree[d] \ {f}]
      /\ saved \subseteq saved'
      /\ UNCHANGED <<commits, serverVars, net, rowVars, run, historyVars>>
    BY DEF Save, Delete
<1>2. /\ Changes(worktree, worktree', d)
      /\ \/ worktree'[d] = worktree[d] \cup {f} /\ f \notin saved
         \/ worktree'[d] = worktree[d] \ {f}
    BY <1>1, EntryAt DEF Changes, SInv, Tables
<1>3. Only(d)
    BY <1>1, <1>2, OnlyAt DEF Changes, SInv, rowVars
<1>4. /\ Beside(d) /\ commits' = commits /\ base'[d] = base[d] /\ SameRow(d)
      /\ run' = run /\ pending' = pending /\ base' = base /\ net' = net
    BY <1>1, <1>3 DEF Beside, SameRow, serverVars, rowVars, historyVars
<1>5. MergeFits(d)'
    BY <1>4 DEF MergeFits
<1>6. Image(d)' = Image(d) \/ Image(d)' = worktree'[d]
    BY <1>4 DEF Image, IsSync, IsRestore, Restores
<1>7. worktree'[d] \cap saved \subseteq worktree[d]
    BY <1>2
<1> QED BY <1>4, <1>5, <1>6, <1>7 DEF Keeps

-----------------------------------------------------------------------------
(* Steps that end a publication.                                           *)

LEMMA Settled ==
    ASSUME SInv, NEW d \in Devices, Only(d), Calm, net' = net, ImageFits(d),
           pending'[d] = NoPending, run'[d].phase \in {"idle", "checkout"},
           \/ base'[d] = base[d]
           \/ IsSync(d) /\ commits[base'[d]].tree = Image(d),
           IsSync(d) =>
               \/ (worktree[d] \cap Image(d)) \ commits[base'[d]].tree \subseteq forgotten'
               \/ /\ role[pending[d].candidate] = "none"
                  /\ \A m \in net : m.candidate # pending[d].candidate
    PROVE  Settles(d)
<1>1. Beside(d) /\ commits' = commits /\ worktree'[d] = worktree[d]
    BY DEF Calm, Beside
<1>2. Image(d)' = worktree[d]
    BY <1>1 DEF Image, IsSync
<1>3. Own(d)' = worktree[d] \ commits[base'[d]].tree
    BY <1>1, <1>2 DEF Own
<1>4. Own(d)' \subseteq Own(d)
    BY <1>3 DEF Own, ImageFits
<1> QED BY <1>1, <1>3, <1>4 DEF Settles

LEMMA AdvanceSettles ==
    ASSUME SInv, NEW d \in Devices, Calm, net' = net, ImageFits(d),
           NEW c, NEW target, Advance(d, c, target),
           \/ ~ IsSync(d) /\ c = base[d]
           \/ IsSync(d) /\ commits[c].tree = Image(d)
    PROVE  Settles(d)
<1> DEFINE r == IF target = NoCommit THEN Ended ELSE [Ended EXCEPT !.phase = "checkout"]
<1>1. /\ base' = [base EXCEPT ![d] = c]
      /\ checkout' = [checkout EXCEPT ![d] = target]
      /\ pending' = [pending EXCEPT ![d] = NoPending]
      /\ run' = [run EXCEPT ![d] = r]
      /\ r.phase \in {"idle", "checkout"}
    BY DEF Advance, End, Checkout, Ended
<1> HIDE DEF r
<1>2. /\ Changes(base, base', d) /\ Changes(checkout, checkout', d)
      /\ Changes(pending, pending', d) /\ Changes(run, run', d)
      /\ Changes(worktree, worktree', d)
    BY <1>1 DEF Changes, Calm
<1>3. Only(d)
    BY <1>2, OnlyAt DEF SInv
<1>4. base'[d] = c /\ pending'[d] = NoPending /\ run'[d] = r
    BY <1>1, EntryAt DEF SInv, Tables
<1> QED BY <1>1, <1>3, <1>4, Settled

LEMMA DropSettles ==
    ASSUME SInv, NEW d \in Devices, Calm, net' = net, ImageFits(d), End(d),
           UNCHANGED <<base, checkout>>, pending' = [pending EXCEPT ![d] = NoPending],
           IsSync(d) =>
               \/ Image(d) \ commits[base[d]].tree \subseteq forgotten'
               \/ /\ role[pending[d].candidate] = "none"
                  /\ \A m \in net : m.candidate # pending[d].candidate
    PROVE  Settles(d)
<1>1. run' = [run EXCEPT ![d] = Ended] /\ Ended.phase = "idle"
    BY DEF End, Ended
<1>2. /\ Changes(pending, pending', d) /\ pending'[d] = NoPending
      /\ Changes(run, run', d) /\ run'[d] = Ended
    BY <1>1, RunEntry, PendingEntry
<1>3. Only(d)
    BY <1>2, OnlyAt DEF SInv, Calm, Changes
<1> QED BY <1>1, <1>2, <1>3, Settled

LEMMA ApplySettles ==
    ASSUME SInv, NEW d \in Devices, Apply(d)
    PROVE  Settles(d)
<1>1. /\ run[d].phase = "checkout"
      /\ checkout' = [checkout EXCEPT ![d] = NoCommit]
      /\ run' = [run EXCEPT ![d] = Ended]
      /\ UNCHANGED <<commits, serverVars, net, saved, deleted, pending, historyVars>>
      /\ \/ /\ worktree' = [worktree EXCEPT ![d] = Tree(checkout[d])]
            /\ base' = [base EXCEPT ![d] = checkout[d]]
         \/ UNCHANGED <<worktree, base>>
    BY DEF Apply, At, End
<1>2. /\ Only(d) /\ run'[d] = Ended /\ pending'[d] = pending[d]
      /\ \/ worktree'[d] = commits[checkout[d]].tree /\ base'[d] = checkout[d]
         \/ worktree'[d] = worktree[d] /\ base'[d] = base[d]
  <2>1. /\ Changes(worktree, worktree', d) /\ Changes(base, base', d)
        /\ Changes(checkout, checkout', d) /\ Changes(run, run', d)
      BY <1>1 DEF Changes
  <2>2. Only(d)
      BY <1>1, <2>1, OnlyAt DEF Changes, SInv
  <2> QED BY <1>1, <2>2, EntryAt DEF SInv, Tables, Tree
<1>3. pending[d] = NoPending
    BY <1>1 DEF SInv, DeviceInv, PlaceInv, RunInv
<1>4. Beside(d) /\ commits' = commits /\ net' = net
    BY <1>1, <1>2 DEF Beside, serverVars, historyVars
<1>5. Image(d)' = worktree'[d] /\ Image(d) = worktree[d] /\ ~ IsSync(d)
    BY <1>1, <1>2, <1>3 DEF Image, IsSync, Ended
<1>6. Own(d)' \subseteq Own(d)
    BY <1>2, <1>4, <1>5 DEF Own
<1> QED BY <1>2, <1>3, <1>4, <1>5, <1>6 DEF Settles, Ended

-----------------------------------------------------------------------------
(* Going on from a row.                                                    *)

LEMMA RunIsRun ==
    ASSUME SInv, NEW d \in Devices
    PROVE  run[d] \in Run
    BY DEF SInv, DeviceInv, RunInv

LEMMA ResumeSyncGoesOn ==
    ASSUME SInv, NEW d \in Devices, ImageFits(d), NEW t, NEW h, Resumable(d, t, h), Still,
           net' = net, ~ IsRestore(d), ResumeSync(d, t, h),
           h = pending[d].expected => h = head
    PROVE  Keeps(d) \/ Settles(d)
<1>1. RowInv(d) /\ pending[d] # NoPending /\ IsSync(d)
    BY DEF SInv, DeviceInv, Resumable, IsSync
<1>2. Image(d) = commits[pending[d].captured].tree
    BY <1>1 DEF Image
<1>3. CASE Stray(d) /\ End(d) /\ UNCHANGED <<rowVars, forgotten>>
    BY <1>3, EndKeeps DEF Calm, Still
<1>4. CASE (Recover(d, t) \/ Finalize(d, t, h)) /\ UNCHANGED forgotten
  <2>1. PICK c, target : Advance(d, c, target) /\ commits[c].tree = Image(d)
      BY <1>2, <1>4 DEF Recover, Finalize, Tree
  <2> QED BY <1>1, <1>4, <2>1, AdvanceSettles DEF Calm, Still
<1>5. CASE ~ Published(d, h) /\ h = pending[d].expected /\ Discard(d, t)
  <2>1. /\ End(d) /\ UNCHANGED <<base, checkout>>
        /\ pending' = [pending EXCEPT ![d] = NoPending]
        /\ forgotten' = forgotten \cup
              (IF \E m \in net : m.candidate = pending[d].candidate
               THEN Image(d) \ commits[base[d]].tree ELSE {})
      BY <1>2, <1>5 DEF Discard, CapturedTree, Tree
  <2>2. role[pending[d].candidate] = "none"
    <3>1. pending[d].candidate \notin Up(commits)[head]
        BY <1>5, AncestorsAreUp DEF Published
    <3> QED BY <1>1, <3>1, Roles DEF RowInv
  <2>3. Calm
      BY <2>1 DEF Calm, Still
  <2>4. \/ Image(d) \ commits[base[d]].tree \subseteq forgotten'
        \/ /\ role[pending[d].candidate] = "none"
           /\ \A m \in net : m.candidate # pending[d].candidate
      BY <2>1, <2>2
  <2> QED BY <2>1, <2>3, <2>4, DropSettles
<1>6. CASE Retry(d, t)
  <2>1. CASE ~ Allowed(d)
      BY <1>6, <2>1, EndKeeps DEF Retry, rowVars, Calm, Still
  <2>2. CASE Allowed(d)
    <3>1. /\ pending' = [pending EXCEPT ![d].confirmed = pending[d].protected]
          /\ run' = [run EXCEPT ![d].phase = "verify", ![d].scan = t]
          /\ UNCHANGED <<base, checkout, forgotten>>
        BY <1>6, <2>2 DEF Retry
    <3> DEFINE r == [run[d] EXCEPT !.phase = "verify", !.scan = t]
    <3>2. run' = [run EXCEPT ![d] = r]
        BY <3>1
    <3>3. r.phase = "verify"
        BY RunIsRun DEF Run
    <3> HIDE DEF r
    <3>4. Calm
        BY <3>1 DEF Calm, Still
    <3> QED BY <1>1, <3>1, <3>2, <3>3, <3>4, ConfirmKeeps
  <2> QED BY <2>1, <2>2
<1>7. CASE /\ ~ Published(d, h) /\ h # pending[d].expected
           /\ run' = [run EXCEPT ![d].phase = "merge", ![d].scan = t, ![d].seen = h]
           /\ UNCHANGED <<rowVars, forgotten>>
  <2> DEFINE r == [run[d] EXCEPT !.phase = "merge", !.scan = t, !.seen = h]
  <2>1. run' = [run EXCEPT ![d] = r]
      BY <1>7
  <2>2. r.phase = "merge" /\ r.seen = h
      BY RunIsRun DEF Run
  <2> HIDE DEF r
  <2>3. pending[d].candidate \notin Up(commits)[h]
      BY <1>7, AncestorsAreUp DEF Published
  <2>4. RunMayBe(d, r) /\ Calm
      BY <1>1, <1>7, <2>2, <2>3 DEF RunMayBe, Calm, Still
  <2> QED BY <1>7, <2>1, <2>4, RunKeeps
<1> QED BY <1>3, <1>4, <1>5, <1>6, <1>7 DEF ResumeSync

LEMMA ResumeRestoreGoesOn ==
    ASSUME SInv, NEW d \in Devices, ImageFits(d), NEW t, NEW h, pending[d] # NoPending,
           Calm, net' = net, IsRestore(d), ResumeRestore(d, t, h) \/ DiscardRestore(d)
    PROVE  Keeps(d) \/ Settles(d)
<1>1. ~ IsSync(d)
    BY DEF IsSync
<1>2. pending[d].captured = base[d]
  <2>1. RowInv(d)
      BY DEF SInv, DeviceInv
  <2> QED BY <2>1, IsRestoreMeans DEF RowInv, RestoreRow
<1>3. CASE End(d) /\ UNCHANGED rowVars
    BY <1>3, EndKeeps
<1>4. CASE Advance(d, pending[d].captured, h)
    BY <1>1, <1>2, <1>4, AdvanceSettles
<1>5. CASE DiscardRestore(d)
    BY <1>1, <1>5, DropSettles DEF DiscardRestore
<1>6. CASE /\ run' = [run EXCEPT ![d].phase = "verify", ![d].scan = t]
           /\ UNCHANGED rowVars
  <2> DEFINE r == [run[d] EXCEPT !.phase = "verify", !.scan = t]
  <2>1. run' = [run EXCEPT ![d] = r]
      BY <1>6
  <2>2. r.phase = "verify"
      BY RunIsRun DEF Run
  <2> HIDE DEF r
  <2>3. RunMayBe(d, r)
      BY <2>2 DEF RunMayBe
  <2> QED BY <1>6, <2>1, <2>3, RunKeeps
<1> QED BY <1>3, <1>4, <1>5, <1>6 DEF ResumeRestore

LEMMA ResumeGoesOn ==
    ASSUME SInv, NEW d \in Devices, ImageFits(d), NEW t, NEW h, Resumable(d, t, h), Still,
           net' = net, Resume(d, t, h), h = pending[d].expected => h = head
    PROVE  Keeps(d) \/ Settles(d)
<1>1. CASE IsRestore(d)
  <2>1. ResumeRestore(d, t, h) /\ Calm /\ pending[d] # NoPending
      BY <1>1 DEF Resume, Calm, Still, Resumable
  <2> QED BY <1>1, <2>1, ResumeRestoreGoesOn
<1>2. CASE ~ IsRestore(d)
    BY <1>2, ResumeSyncGoesOn DEF Resume
<1> QED BY <1>1, <1>2

LEMMA PublishGoesOn ==
    ASSUME SInv, NEW d \in Devices, ImageFits(d), Publish(d)
    PROVE  Keeps(d) \/ Settles(d)
<1>1. PlaceInv(d) /\ RowInv(d) /\ RunInv(d)
    BY DEF SInv, DeviceInv
<1>2. pending[d] # NoPending /\ checkout[d] = NoCommit /\ Still
    BY <1>1 DEF Publish, At, RunInv, Still, serverVars, userVars
<1>3. CASE /\ head # pending[d].expected
           /\ Resume(d, run[d].scan, head) /\ UNCHANGED net
  <2>1. Resumable(d, run[d].scan, head)
      BY <1>1, <1>2, HeadIsResumable DEF RunInv
  <2> QED BY <1>2, <1>3, <2>1, ResumeGoesOn
<1>4. CASE /\ net' = net \cup {[device |-> d, candidate |-> pending[d].candidate,
                                expected |-> pending[d].expected]}
           /\ run' = [run EXCEPT ![d].phase = "await", ![d].scan = {},
                                 ![d].seen = NoCommit]
           /\ UNCHANGED <<rowVars, forgotten>>
  <2> DEFINE r == [run[d] EXCEPT !.phase = "await", !.scan = {}, !.seen = NoCommit]
  <2>1. run' = [run EXCEPT ![d] = r]
      BY <1>4
  <2>2. r.phase = "await"
      BY RunIsRun DEF Run
  <2> HIDE DEF r
  <2>3. RunMayBe(d, r) /\ Calm
      BY <1>2, <1>4, <2>2 DEF RunMayBe, Calm, Still
  <2>4. \A m \in net' : \/ m \in net
                        \/ pending[d] # NoPending /\ m.candidate = pending[d].candidate
      BY <1>2, <1>4
  <2> QED BY <1>4, <2>1, <2>3, <2>4, RunKeeps
<1> QED BY <1>3, <1>4 DEF Publish

LEMMA ObserveGoesOn ==
    ASSUME SInv, NEW d \in Devices, ImageFits(d), Observe(d)
    PROVE  Keeps(d) \/ Settles(d)
<1>1. PlaceInv(d) /\ RowInv(d) /\ RunInv(d)
    BY DEF SInv, DeviceInv
<1>2. Still /\ net' = net
    BY DEF Observe, Still, serverVars, userVars
<1>3. CASE End(d) /\ UNCHANGED <<rowVars, forgotten>>
    BY <1>2, <1>3, EndKeeps DEF Calm, Still
<1>4. CASE run[d].seen # pending[d].expected /\ Resume(d, worktree[d], run[d].seen)
  <2>1. Resumable(d, worktree[d], run[d].seen)
      BY <1>1 DEF Observe, At, RunInv, PlaceInv, Resumable
  <2> QED BY <1>2, <1>4, <2>1, ResumeGoesOn
<1> QED BY <1>3, <1>4 DEF Observe

LEMMA ConfirmGoesOn ==
    ASSUME SInv, NEW d \in Devices, ImageFits(d), ConfirmRestore(d)
    PROVE  Keeps(d) \/ Settles(d)
<1>1. /\ IsRestore(d) /\ Calm /\ net' = net
      /\ \/ ResumeRestore(d, worktree[d], head)
         \/ DiscardRestore(d)
         \/ /\ pending' = [pending EXCEPT ![d].confirmed = TRUE]
            /\ run' = [run EXCEPT ![d] = [Ended EXCEPT !.phase = "verify", !.scan = worktree[d]]]
            /\ UNCHANGED <<base, checkout>>
    BY DEF ConfirmRestore, Calm, serverVars
<1>2. pending[d] # NoPending
    BY <1>1 DEF IsRestore, Restores, NoPending, NoCommit
<1>3. CASE ResumeRestore(d, worktree[d], head) \/ DiscardRestore(d)
    BY <1>1, <1>2, <1>3, ResumeRestoreGoesOn
<1>4. CASE /\ pending' = [pending EXCEPT ![d].confirmed = TRUE]
           /\ run' = [run EXCEPT ![d] = [Ended EXCEPT !.phase = "verify", !.scan = worktree[d]]]
           /\ UNCHANGED <<base, checkout>>
  <2>1. PICK r : r = [Ended EXCEPT !.phase = "verify", !.scan = worktree[d]]
      OBVIOUS
  <2>2. run' = [run EXCEPT ![d] = r] /\ r.phase = "verify"
      BY <1>4, <2>1 DEF Ended
  <2> QED BY <1>1, <1>2, <1>4, <2>2, ConfirmKeeps
<1> QED BY <1>1, <1>3, <1>4

-----------------------------------------------------------------------------
(* Steps that write a row for a new candidate.                             *)

LEMMA AppendAny ==
    ASSUME SInv, NEW k
    PROVE  /\ Len(Append(commits, k)) = Len(commits) + 1
           /\ Append(commits, k)[Len(commits) + 1] = k
           /\ Extends(commits, Append(commits, k))
<1> DEFINE S == Commit \cup {k}
<1>1. commits \in Seq(S) /\ k \in S /\ Len(commits) \in Nat
    BY HistoryParts
<1> HIDE DEF S
<1> QED BY <1>1 DEF Extends

LEMMA AppendBoth ==
    ASSUME SInv, NEW k, NEW l
    PROVE  /\ Len(commits \o <<k, l>>) = Len(commits) + 2
           /\ (commits \o <<k, l>>)[Len(commits) + 1] = k
           /\ (commits \o <<k, l>>)[Len(commits) + 2] = l
           /\ Extends(commits, commits \o <<k, l>>)
<1> DEFINE S == Commit \cup {k, l}
<1>1. commits \in Seq(S) /\ k \in S /\ l \in S /\ Len(commits) \in Nat
    BY HistoryParts
<1> HIDE DEF S
<1> QED BY <1>1 DEF Extends

LEMMA Prepared ==
    ASSUME SInv, NEW d \in Devices, worktree' = worktree, NEW row, Prepare(d, row)
    PROVE  /\ Only(d) /\ pending'[d] = row /\ base'[d] = base[d]
           /\ run'[d].phase # "merge"
<1> DEFINE r == IF row.protected THEN Ended
                ELSE [run[d] EXCEPT !.phase = "verify", !.seen = NoCommit]
<1>1. /\ run' = [run EXCEPT ![d] = r]
      /\ pending' = [pending EXCEPT ![d] = row]
      /\ UNCHANGED <<base, checkout>>
    BY DEF Prepare, End
<1>2. r.phase # "merge"
    BY RunIsRun DEF Run, Ended
<1> HIDE DEF r
<1>3. /\ Changes(run, run', d) /\ run'[d] = r
      /\ Changes(pending, pending', d) /\ pending'[d] = row
    BY <1>1, RunEntry, PendingEntry
<1>4. Only(d)
    BY <1>1, <1>3, OnlyAt DEF SInv, Changes
<1> QED BY <1>1, <1>2, <1>3, <1>4

(* The candidate of a sync, which follows the Head row.expected and merges *)
(* s, if it is a commit.                                                   *)
LEMMA SyncBuilds ==
    ASSUME SInv, SInv', NEW d \in Devices, NEW row, Prepare(d, row),
           Extends(commits, commits'), role' = role, head' = head, dropped' = dropped,
           saved' = saved, worktree' = worktree, forgotten' = forgotten, net' = net,
           row.candidate = Len(commits'), row.candidate > Len(commits),
           row.captured \in 1 .. Len(commits'), commits'[row.captured].tree = Image(d),
           row.expected \in 1 .. Len(commits), role[row.expected] # "none",
           commits'[row.candidate].source = NoCommit,
           commits'[row.candidate].tree \ commits[row.expected].tree
               \subseteq (Image(d) \ commits[base[d]].tree) \cup Back(row.candidate)',
           commits'[row.candidate].tree
               \subseteq PublishedFiles \cup (Image(d) \ commits[base[d]].tree),
           NEW s, s = commits'[row.candidate].second,
           s # NoCommit => Carried(s)' \subseteq
                               PublishedFiles \cup (Image(d) \ commits[base[d]].tree),
           pending[d] # NoPending =>
               /\ IsSync(d) /\ role[pending[d].candidate] = "none"
               /\ pending[d].expected # head,
           \A x \in 1 .. Len(commits') : x > Len(commits) /\ commits'[x].second # NoCommit =>
               /\ x = Len(commits') /\ LinkAt(x)'
               /\ \/ commits'[x].second > Len(commits)
                  \/ pending[d] # NoPending /\ commits'[x].second = pending[d].candidate
    PROVE  Builds(d)
<1>1. /\ Only(d) /\ pending'[d] = row /\ base'[d] = base[d]
      /\ run'[d].phase # "merge"
    BY Prepared
<1>2. Beside(d) /\ worktree'[d] = worktree[d]
    BY <1>1 DEF Beside
<1>3. PICK c : c = row.candidate
    OBVIOUS
<1>4. /\ Len(commits) \in Nat /\ Len(commits') \in Nat
      /\ \A x \in 1 .. Len(commits) : x \in 1 .. Len(commits') /\ commits'[x] = commits[x]
      /\ PublishedFiles' = PublishedFiles
    BY Steady, SteadyFiles
<1>5. c \in 1 .. Len(commits') /\ c # NoCommit
    BY <1>3, <1>4 DEF NoCommit
<1>6. row # NoPending
    BY <1>3, <1>5 DEF NoPending
<1>7. ~ IsRestore(d)' /\ IsSync(d)'
    BY <1>1, <1>3, <1>6 DEF IsRestore, Restores, IsSync
<1>8. Image(d)' = Image(d)
    BY <1>1, <1>7 DEF Image
<1>9. commits'[base[d]] = commits[base[d]] /\ commits'[row.expected] = commits[row.expected]
    BY <1>4 DEF SInv, DeviceInv, PlaceInv
<1>10. Carried(c)' \subseteq PublishedFiles \cup (Image(d) \ commits[base[d]].tree)
  <2>1. Backward(commits')
    <3>1. HistoryOK(commits', approved', saved', deleted')
        BY DEF SInv
    <3> QED BY <3>1 DEF HistoryOK
  <2>2. /\ Chain(commits')[c] = {c} \cup Chain(commits')[s]
        /\ Chain(commits')[0] = {}
      BY <1>3, <1>5, <2>1, ChainUnfolds
  <2>3. commits'[c].tree \subseteq PublishedFiles \cup (Image(d) \ commits[base[d]].tree)
      BY <1>3
  <2>4. CASE s = NoCommit
      BY <2>2, <2>3, <2>4 DEF Carried, NoCommit
  <2>5. CASE s # NoCommit
      BY <2>2, <2>3, <2>5 DEF Carried
  <2> QED BY <2>4, <2>5
<1>11. RowFiles(d)'
    BY <1>1, <1>3, <1>4, <1>7, <1>8, <1>9, <1>10 DEF RowFiles
<1> QED BY <1>1, <1>2, <1>6, <1>8, <1>11 DEF Builds

LEMMA CaptureBuilds ==
    ASSUME SInv, SInv', NEW d \in Devices, run[d].phase = "scanned", pending[d] = NoPending,
           head = base[d], NEW c, c = Len(commits) + 1,
           commits' = Append(commits, Captured(base[d], run[d].scan)),
           Prepare(d, [base |-> base[d], expected |-> head, candidate |-> c,
                       captured |-> c,
                       protected |-> Protected(Tree(base[d]), run[d].scan),
                       confirmed |-> FALSE]),
           UNCHANGED <<serverVars, net, userVars, approved, forgotten>>
    PROVE  Builds(d)
<1>1. PICK k : k = Captured(base[d], run[d].scan)
    OBVIOUS
<1>2. PICK row : row = [base |-> base[d], expected |-> head, candidate |-> c,
                       captured |-> c,
                       protected |-> Protected(Tree(base[d]), run[d].scan),
                       confirmed |-> FALSE]
    OBVIOUS
<1>3. /\ k.second = NoCommit /\ k.tree = run[d].scan /\ k.source = NoCommit
      /\ row.expected = head /\ row.candidate = c /\ row.captured = c
    BY <1>1, <1>2 DEF Captured
<1>4. /\ Extends(commits, commits') /\ Len(commits') = c /\ commits'[c] = k
    BY <1>1, AppendAny
<1>5. Len(commits) \in Nat /\ head \in 1 .. Len(commits) /\ role[head] # "none"
    BY HistoryParts, Roles
<1>6. Image(d) = run[d].scan
    BY DEF Image, IsSync
<1>7. \A x \in 1 .. Len(commits') : ~ (x > Len(commits) /\ commits'[x].second # NoCommit)
    BY <1>3, <1>4, <1>5
<1>8. PICK s : s = commits'[row.candidate].second
    OBVIOUS
<1>9. /\ commits'[c].tree \ commits[head].tree \subseteq Image(d) \ commits[base[d]].tree
      /\ commits[head].tree \subseteq PublishedFiles
    BY <1>3, <1>4, <1>5, <1>6 DEF PublishedFiles
<1>10. commits'[c].tree \subseteq PublishedFiles \cup (Image(d) \ commits[base[d]].tree)
    BY <1>9
<1> QED BY <1>2, <1>3, <1>4, <1>5, <1>6, <1>7, <1>8, <1>9, <1>10, SyncBuilds
        DEF serverVars, userVars

LEMMA StartMergeBuilds ==
    ASSUME SInv, SInv', NEW d \in Devices, run[d].phase = "merge", MergeFits(d), StartMerge(d),
           UNCHANGED <<serverVars, net, userVars, historyVars>>
    PROVE  Builds(d)
<1>1. PlaceInv(d) /\ RunInv(d)
    BY DEF SInv, DeviceInv
<1>2. PICK b : b = base[d]
    OBVIOUS
<1>3. PICK scan : scan = run[d].scan
    OBVIOUS
<1>4. PICK h : h = run[d].seen
    OBVIOUS
<1>5. PICK c : c = Len(commits) + 1
    OBVIOUS
<1>6. PICK tree \in Merge(commits[b].tree, scan, commits[h].tree) :
          /\ commits' = commits \o <<Captured(b, scan), MergeCommit(h, c, tree)>>
          /\ Prepare(d, [base |-> b, expected |-> h, candidate |-> c + 1, captured |-> c,
                         protected |-> Protected(commits[b].tree,
                             InPlace(commits[b].tree, scan, commits[h].tree, tree)),
                         confirmed |-> FALSE])
    BY <1>2, <1>3, <1>4, <1>5 DEF StartMerge, Tree
<1>7. PICK ka : ka = Captured(b, scan)
    OBVIOUS
<1>8. PICK kb : kb = MergeCommit(h, c, tree)
    OBVIOUS
<1>9. PICK row : row = [base |-> b, expected |-> h, candidate |-> c + 1, captured |-> c,
                        protected |-> Protected(commits[b].tree,
                            InPlace(commits[b].tree, scan, commits[h].tree, tree)),
                        confirmed |-> FALSE]
    OBVIOUS
<1>10. /\ pending[d] = NoPending /\ commits' = commits \o <<ka, kb>>
       /\ Prepare(d, row)
  <2>1. pending[d] = NoPending
      BY DEF StartMerge
  <2> QED BY <1>6, <1>7, <1>8, <1>9, <2>1
<1>11. /\ b \in 1 .. Len(commits) /\ role[b] # "none"
       /\ h \in 1 .. Len(commits) /\ role[h] = "mainline"
       /\ b \in Up(commits)[h] /\ h # b
    BY <1>1, <1>2, <1>4, <1>10 DEF PlaceInv, RunInv, MergeFits
<1>12. /\ ka.first = b /\ ka.second = NoCommit /\ ka.tree = scan
       /\ kb.first = h /\ kb.second = c /\ kb.tree = tree /\ kb.source = NoCommit
       /\ row.expected = h /\ row.candidate = c + 1 /\ row.captured = c
    BY <1>7, <1>8, <1>9 DEF Captured, MergeCommit
<1>13. /\ Extends(commits, commits') /\ Len(commits') = c + 1
       /\ commits'[c] = ka /\ commits'[c + 1] = kb
  <2>1. Len(commits) \in Nat
      BY HistoryParts
  <2> QED BY <1>5, <1>10, <2>1, AppendBoth
<1>14. Len(commits) \in Nat /\ c \in 1 .. Len(commits') /\ c > Len(commits) /\ c # NoCommit
  <2>1. Len(commits) \in Nat
      BY HistoryParts
  <2> QED BY <1>5, <1>13, <2>1 DEF NoCommit
<1>15. role' = role /\ head' = head /\ dropped' = dropped /\ net' = net
       /\ saved' = saved /\ worktree' = worktree /\ forgotten' = forgotten
    BY DEF serverVars, userVars, historyVars
<1>16. Image(d) = scan /\ commits'[row.captured].tree = Image(d)
  <2>1. Image(d) = scan
      BY <1>3, <1>10 DEF Image, IsSync
  <2> QED BY <1>12, <1>13, <2>1
<1>17. /\ tree \ commits[h].tree \subseteq (Image(d) \ commits[b].tree)
              \cup (tree \cap WithDirectory(commits[b].tree, scan, commits[h].tree))
       /\ tree \subseteq PublishedFiles \cup (Image(d) \ commits[b].tree)
  <2>1. tree \ commits[h].tree \subseteq
            (scan \ commits[b].tree) \cup WithDirectory(commits[b].tree, scan, commits[h].tree)
      BY <1>6, MergeBrings
  <2>2. commits[b].tree \subseteq PublishedFiles /\ commits[h].tree \subseteq PublishedFiles
      BY <1>11 DEF PublishedFiles
  <2>3. WithDirectory(commits[b].tree, scan, commits[h].tree) \subseteq commits[b].tree
      BY DEF WithDirectory
  <2> QED BY <1>16, <2>1, <2>2, <2>3
<1>18. Carried(c)' \subseteq PublishedFiles \cup (Image(d) \ commits[b].tree)
  <2>1. Backward(commits')
    <3>1. HistoryOK(commits', approved', saved', deleted')
        BY DEF SInv
    <3> QED BY <3>1 DEF HistoryOK
  <2>2. /\ Chain(commits')[c] = {c} \cup Chain(commits')[commits'[c].second]
        /\ Chain(commits')[0] = {}
      BY <1>14, <2>1, ChainUnfolds
  <2>3. Chain(commits')[c] = {c}
      BY <1>12, <1>13, <2>2 DEF NoCommit
  <2>4. Carried(c)' = scan
      BY <1>12, <1>13, <2>3 DEF Carried
  <2>5. commits[b].tree \subseteq PublishedFiles
      BY <1>11 DEF PublishedFiles
  <2> QED BY <1>16, <2>4, <2>5
<1>19. LinkAt(c + 1)'
  <2>1. Up(commits')[h] = Up(commits)[h]
    <3>1. h \in 0 .. Len(commits)
        BY <1>11
    <3> QED BY <1>13, <1>15, <3>1, Steady
  <2>2. Up(commits)[h] \subseteq 1 .. h
      BY <1>11, <1>14, HistoryParts, UpIsBefore
  <2>3. c \notin Up(commits')[h]
      BY <1>11, <1>14, <2>1, <2>2
  <2> QED BY <1>11, <1>12, <1>13, <1>15, <2>1, <2>3 DEF LinkAt
<1>20. \A x \in 1 .. Len(commits') : x > Len(commits) /\ commits'[x].second # NoCommit =>
           /\ x = Len(commits') /\ LinkAt(x)'
           /\ commits'[x].second > Len(commits)
  <2> SUFFICES ASSUME NEW x \in 1 .. Len(commits'), x > Len(commits),
                      commits'[x].second # NoCommit
               PROVE  /\ x = Len(commits') /\ LinkAt(x)'
                      /\ commits'[x].second > Len(commits)
      OBVIOUS
  <2>1. x = c + 1
    <3>1. x = c \/ x = c + 1
        BY <1>5, <1>13, <1>14
    <3> QED BY <1>12, <1>13, <3>1
  <2> QED BY <1>12, <1>13, <1>14, <1>19, <2>1
<1>21. PICK s : s = commits'[row.candidate].second
    OBVIOUS
<1>22. s = c
    BY <1>12, <1>13, <1>21
<1>23. row.candidate = Len(commits') /\ row.candidate > Len(commits)
    BY <1>5, <1>12, <1>13, <1>14
<1>24. tree \cap WithDirectory(commits[b].tree, scan, commits[h].tree) \subseteq Back(c + 1)'
  <2>1. commits'[b] = commits[b] /\ commits'[h] = commits[h]
      BY <1>11, <1>13, <1>15, Steady
  <2>2. CopiedBack(c + 1)' = tree \cap WithDirectory(commits[b].tree, scan, commits[h].tree)
      BY <1>12, <1>13, <1>14, <2>1 DEF CopiedBack, Tree
  <2>3. c + 1 \in Chain(commits')[c + 1]
    <3>1. Backward(commits')
      <4>1. HistoryOK(commits', approved', saved', deleted')
          BY DEF SInv
      <4> QED BY <4>1 DEF HistoryOK
    <3>2. c + 1 \in 1 .. Len(commits')
        BY <1>5, <1>13, <1>14
    <3>3. Chain(commits')[c + 1] = {c + 1} \cup Chain(commits')[commits'[c + 1].second]
        BY <3>1, <3>2, ChainUnfolds
    <3> QED BY <3>3
  <2> QED BY <2>2, <2>3 DEF Back
<1>25. /\ commits'[row.candidate].source = NoCommit
       /\ commits'[row.candidate].tree \ commits[row.expected].tree
              \subseteq (Image(d) \ commits[base[d]].tree) \cup Back(row.candidate)'
       /\ commits'[row.candidate].tree
              \subseteq PublishedFiles \cup (Image(d) \ commits[base[d]].tree)
    BY <1>2, <1>12, <1>13, <1>17, <1>24
<1>26. s # NoCommit => Carried(s)' \subseteq
                           PublishedFiles \cup (Image(d) \ commits[base[d]].tree)
    BY <1>2, <1>18, <1>22
<1>27. row.captured \in 1 .. Len(commits') /\ row.expected \in 1 .. Len(commits)
       /\ role[row.expected] # "none"
    BY <1>11, <1>12, <1>14
<1> HIDE DEF SInv
<1> QED BY <1>10, <1>13, <1>15, <1>16, <1>20, <1>21, <1>23, <1>25, <1>26, <1>27, SyncBuilds

(* A candidate that is about to be merged with another Head is unpublished.*)
LEMMA OvertakenIsUnpublished ==
    ASSUME SInv, Links, NEW d \in Devices, Tip(d), pending[d] # NoPending,
           NEW h \in 1 .. Len(commits), role[h] = "mainline",
           pending[d].expected \in Up(commits)[h], pending[d].expected # h,
           pending[d].candidate \notin Up(commits)[h]
    PROVE  role[pending[d].candidate] = "none" /\ pending[d].expected # head
<1>1. PICK c : c = pending[d].candidate
    OBVIOUS
<1>2. PICK e : e = pending[d].expected
    OBVIOUS
<1>3. c \in 1 .. Len(commits) /\ e \in 1 .. Len(commits) /\ commits[c].first = e
    BY <1>1, <1>2 DEF SInv, DeviceInv, RowInv
<1>4. Len(commits) \in Nat /\ Backward(commits) /\ head \in 1 .. Len(commits)
    BY HistoryParts, Roles
<1>5. role[c] # "mainline"
    BY <1>1, <1>2, <1>3 DEF Links
<1>6. role[c] # "merge-source"
    BY <1>1, <1>3 DEF Links, Tip
<1>7. role[c] = "none"
    BY <1>3, <1>5, <1>6, RoleType DEF RoleNames
<1>8. e < h
  <2>1. Up(commits)[h] \subseteq 1 .. h
      BY <1>4, UpIsBefore
  <2> QED BY <1>2, <1>4, <2>1
<1>9. h <= head
  <2>1. h \in Up(commits)[head]
      BY Roles
  <2>2. Up(commits)[head] \subseteq 1 .. head
      BY <1>4, UpIsBefore
  <2> QED BY <1>4, <2>1, <2>2
<1> QED BY <1>1, <1>2, <1>3, <1>4, <1>7, <1>8, <1>9

LEMMA ReplaceBuilds ==
    ASSUME SInv, SInv', Links, NEW d \in Devices, Tip(d), MergeFits(d), RowFiles(d),
           run[d].phase = "merge", ReplacePending(d),
           UNCHANGED <<serverVars, net, userVars, historyVars>>
    PROVE  Builds(d)
<1>1. PlaceInv(d) /\ RowInv(d) /\ RunInv(d)
    BY DEF SInv, DeviceInv
<1>2. PICK p : p = pending[d]
    OBVIOUS
<1>3. PICK b : b = p.expected
    OBVIOUS
<1>4. PICK old : old = p.candidate
    OBVIOUS
<1>5. PICK h : h = run[d].seen
    OBVIOUS
<1>6. PICK c : c = Len(commits) + 1
    OBVIOUS
<1>7. PICK tree \in Merge(commits[b].tree, commits[old].tree, commits[h].tree) :
          /\ commits' = Append(commits, MergeCommit(h, old, tree))
          /\ Prepare(d, [base |-> b, expected |-> h, candidate |-> c,
                         captured |-> p.captured,
                         protected |-> Protected(commits[b].tree,
                             InPlace(commits[b].tree, commits[old].tree, commits[h].tree,
                                     tree)),
                         confirmed |-> FALSE])
    BY <1>2, <1>3, <1>4, <1>5, <1>6
       DEF ReplacePending, ReplacementBase, ReplacementConfirmed, Tree, Prepare
<1>8. PICK k : k = MergeCommit(h, old, tree)
    OBVIOUS
<1>9. PICK row : row = [base |-> b, expected |-> h, candidate |-> c, captured |-> p.captured,
                        protected |-> Protected(commits[b].tree,
                            InPlace(commits[b].tree, commits[old].tree, commits[h].tree, tree)),
                        confirmed |-> FALSE]
    OBVIOUS
<1>10. p # NoPending /\ commits' = Append(commits, k)
    BY <1>2, <1>7, <1>8 DEF ReplacePending
<1>11. Prepare(d, row)
    BY <1>7, <1>9
<1>12. /\ old \in 1 .. Len(commits) /\ b \in 1 .. Len(commits)
       /\ p.captured \in 1 .. Len(commits)
       /\ commits[old].first = b /\ commits[old].source = NoCommit
    BY <1>1, <1>2, <1>3, <1>4, <1>10 DEF RowInv, RunInv
<1>13. /\ h \in 1 .. Len(commits) /\ role[h] = "mainline"
       /\ b \in Up(commits)[h] /\ b # h /\ old \notin Up(commits)[h]
    BY <1>1, <1>2, <1>3, <1>4, <1>5, <1>10 DEF RunInv, MergeFits
<1>14. IsSync(d)
    BY <1>1, <1>2, <1>4, <1>10, <1>12, IsRestoreMeans DEF IsSync
<1>15. role[old] = "none" /\ b # head
    BY <1>2, <1>3, <1>4, <1>10, <1>13, OvertakenIsUnpublished
<1>16. /\ k.first = h /\ k.second = old /\ k.tree = tree /\ k.source = NoCommit
       /\ row.expected = h /\ row.candidate = c /\ row.captured = p.captured
    BY <1>8, <1>9 DEF MergeCommit
<1>17. /\ Extends(commits, commits') /\ Len(commits') = c /\ commits'[c] = k
    BY <1>6, <1>10, AppendAny
<1>18. Len(commits) \in Nat /\ c \in 1 .. Len(commits') /\ c > Len(commits)
  <2>1. Len(commits) \in Nat
      BY HistoryParts
  <2> QED BY <1>6, <1>17, <2>1
<1>19. role' = role /\ head' = head /\ dropped' = dropped /\ net' = net
       /\ saved' = saved /\ worktree' = worktree /\ forgotten' = forgotten
    BY DEF serverVars, userVars, historyVars
<1>20. /\ Up(commits')[h] = Up(commits)[h] /\ commits'[old] = commits[old]
       /\ commits'[p.captured] = commits[p.captured]
       /\ p.captured \in 1 .. Len(commits')
  <2>1. h \in 0 .. Len(commits)
      BY <1>13
  <2> QED BY <1>12, <1>17, <1>19, <2>1, Steady
<1>21. Carried(old)' = Carried(old) /\ Back(old)' = Back(old)
    BY <1>12, <1>17, <1>19, SteadyFiles, SteadyBack
<1>22. /\ commits[old].tree \ commits[b].tree
              \subseteq (Image(d) \ commits[base[d]].tree) \cup Back(old)
       /\ Carried(old) \subseteq PublishedFiles \cup (Image(d) \ commits[base[d]].tree)
    BY <1>2, <1>3, <1>4, <1>14 DEF RowFiles
<1>23. /\ tree \ commits[h].tree \subseteq (Image(d) \ commits[base[d]].tree) \cup Back(c)'
       /\ tree \subseteq PublishedFiles \cup (Image(d) \ commits[base[d]].tree)
  <2>1. /\ tree \ commits[h].tree \subseteq
               (commits[old].tree \ commits[b].tree)
                   \cup WithDirectory(commits[b].tree, commits[old].tree, commits[h].tree)
        /\ tree \subseteq commits[old].tree \cup commits[h].tree
      BY <1>7, MergeBrings, MergeDrops
  <2>2. commits'[b] = commits[b] /\ commits'[h] = commits[h]
      BY <1>12, <1>13, <1>17, <1>19, Steady
  <2>3. old # NoCommit
      BY <1>12 DEF NoCommit
  <2>4. CopiedBack(c)' = tree \cap
            WithDirectory(commits[b].tree, commits[old].tree, commits[h].tree)
      BY <1>12, <1>16, <1>17, <1>20, <2>2, <2>3 DEF CopiedBack, Tree
  <2>5. Chain(commits')[c] = {c} \cup Chain(commits')[old]
    <3>1. Backward(commits')
      <4>1. HistoryOK(commits', approved', saved', deleted')
          BY DEF SInv
      <4> QED BY <4>1 DEF HistoryOK
    <3> QED BY <1>16, <1>17, <1>18, <3>1, ChainUnfolds
  <2>6. Back(c)' = CopiedBack(c)' \cup Back(old)'
      BY <2>5 DEF Back
  <2>7. tree \ commits[h].tree \subseteq (Image(d) \ commits[base[d]].tree) \cup Back(c)'
      BY <1>21, <1>22, <2>1, <2>4, <2>6
  <2>8. commits[old].tree \subseteq Carried(old)
    <3>1. old \in Chain(commits)[old]
      <4>1. Backward(commits)
          BY HistoryParts
      <4>2. Chain(commits)[old] = {old} \cup Chain(commits)[commits[old].second]
          BY <1>12, <4>1, ChainUnfolds
      <4> QED BY <4>2
    <3> QED BY <3>1 DEF Carried
  <2>9. commits[h].tree \subseteq PublishedFiles
      BY <1>13 DEF PublishedFiles
  <2> QED BY <1>22, <2>1, <2>7, <2>8, <2>9
<1>24. commits'[row.captured].tree = Image(d)
    BY <1>2, <1>14, <1>16, <1>20 DEF Image
<1>25. LinkAt(c)'
    BY <1>12, <1>13, <1>16, <1>17, <1>19, <1>20 DEF LinkAt
<1>26. \A x \in 1 .. Len(commits') : x > Len(commits) /\ commits'[x].second # NoCommit =>
           /\ x = Len(commits') /\ LinkAt(x)'
           /\ pending[d] # NoPending /\ commits'[x].second = pending[d].candidate
    BY <1>2, <1>4, <1>6, <1>10, <1>16, <1>17, <1>18, <1>25
<1>27. PICK s : s = commits'[row.candidate].second
    OBVIOUS
<1>28. s = old
    BY <1>16, <1>17, <1>27
<1>29. row.candidate = Len(commits') /\ row.candidate > Len(commits)
    BY <1>16, <1>17, <1>18
<1>30. /\ commits'[row.candidate].source = NoCommit
       /\ commits'[row.candidate].tree \ commits[row.expected].tree
              \subseteq (Image(d) \ commits[base[d]].tree) \cup Back(row.candidate)'
       /\ commits'[row.candidate].tree
              \subseteq PublishedFiles \cup (Image(d) \ commits[base[d]].tree)
    BY <1>16, <1>17, <1>23
<1>31. s # NoCommit => Carried(s)' \subseteq
                           PublishedFiles \cup (Image(d) \ commits[base[d]].tree)
    BY <1>21, <1>22, <1>28
<1>32. row.captured \in 1 .. Len(commits') /\ row.expected \in 1 .. Len(commits)
       /\ role[row.expected] # "none"
    BY <1>13, <1>16, <1>20
<1>33. IsSync(d) /\ role[pending[d].candidate] = "none" /\ pending[d].expected # head
    BY <1>2, <1>3, <1>4, <1>14, <1>15
<1> HIDE DEF SInv
<1> QED BY <1>11, <1>17, <1>19, <1>24, <1>26, <1>27, <1>29, <1>30, <1>31, <1>32, <1>33,
           SyncBuilds

LEMMA PreviewBuilds ==
    ASSUME SInv, SInv', NEW d \in Devices, PreviewRestore(d)
    PROVE  Builds(d)
<1>1. PlaceInv(d)
    BY DEF SInv, DeviceInv
<1>2. PICK b : b = base[d]
    OBVIOUS
<1>3. PICK c : c = Len(commits) + 1
    OBVIOUS
<1>4. /\ run[d].phase = "idle" /\ pending[d] = NoPending
      /\ worktree[d] = commits[b].tree /\ head = b
      /\ UNCHANGED <<serverVars, net, userVars, base, checkout, run, historyVars>>
    BY <1>2 DEF PreviewRestore, At, Tree
<1>5. PICK s \in {x \in DOMAIN commits : role[x] # "none"} :
          \E tree \in Overlays(worktree[d], Tree(s)) \ {worktree[d]} :
              commits' = Append(commits, RestoreCommit(head, tree, s))
    BY DEF PreviewRestore
<1>6. PICK tree \in Overlays(worktree[d], Tree(s)) :
          commits' = Append(commits, RestoreCommit(head, tree, s))
    BY <1>5
<1>7. PICK k : k = RestoreCommit(b, tree, s)
    OBVIOUS
<1>8. PICK row : row = [base |-> b, expected |-> b, candidate |-> c, captured |-> b,
                        protected |-> FALSE, confirmed |-> FALSE]
    OBVIOUS
<1>9. pending' = [pending EXCEPT ![d] = row] /\ commits' = Append(commits, k)
  <2>1. pending' = [pending EXCEPT ![d] = row]
      BY <1>2, <1>3, <1>4, <1>8 DEF PreviewRestore
  <2>2. commits' = Append(commits, k)
      BY <1>4, <1>6, <1>7
  <2> QED BY <2>1, <2>2
<1>10. /\ Len(commits) \in Nat /\ b \in 1 .. Len(commits) /\ role[b] # "none"
       /\ s \in 1 .. Len(commits) /\ s # NoCommit /\ role[s] # "none"
  <2>1. Len(commits) \in Nat /\ commits \in Seq(Commit)
      BY HistoryParts
  <2>2. s \in 1 .. Len(commits)
      BY <1>5, <2>1
  <2> QED BY <1>1, <1>2, <1>5, <2>1, <2>2 DEF PlaceInv, NoCommit
<1>11. /\ Extends(commits, commits') /\ Len(commits') = c /\ commits'[c] = k
    BY <1>3, <1>9, AppendAny
<1>12. /\ k.second = NoCommit /\ k.tree = tree /\ k.source = s
       /\ row.candidate = c
    BY <1>7, <1>8 DEF RestoreCommit
<1>13. role' = role /\ head' = head /\ dropped' = dropped /\ net' = net
       /\ saved' = saved /\ worktree' = worktree /\ forgotten' = forgotten
       /\ base' = base /\ run' = run
    BY <1>4 DEF serverVars, userVars, historyVars
<1>14. Changes(pending, pending', d) /\ pending'[d] = row
    BY <1>9, PendingEntry
<1>15. Only(d)
    BY <1>4, <1>14, OnlyAt DEF SInv, Changes, userVars
<1>16. Beside(d)
    BY <1>13, <1>15 DEF Beside
<1>17. row # NoPending /\ c > Len(commits)
    BY <1>3, <1>10, <1>12 DEF NoPending, NoCommit
<1>18. IsRestore(d)'
  <2>1. commits'[c].source # NoCommit
      BY <1>10, <1>11, <1>12
  <2>2. c \in 1 .. Len(commits')
      BY <1>3, <1>10, <1>11
  <2> QED BY <1>12, <1>14, <2>1, <2>2 DEF IsRestore, Restores
<1>19. Image(d)' = Image(d)
    BY <1>4, <1>13, <1>14, <1>17, <1>18 DEF Image, IsSync
<1>20. tree \subseteq PublishedFiles
  <2>1. tree \subseteq worktree[d] \cup commits[s].tree
      BY <1>6 DEF Overlays, Tree
  <2> QED BY <1>4, <1>10, <2>1 DEF PublishedFiles
<1>21. RowFiles(d)'
  <2>1. PublishedFiles' = PublishedFiles
      BY <1>11, <1>13, SteadyFiles
  <2>2. commits'[c].tree \subseteq PublishedFiles'
      BY <1>11, <1>12, <1>20, <2>1
  <2> QED BY <1>12, <1>14, <1>18, <2>2 DEF RowFiles, IsSync
<1>22. \A x \in 1 .. Len(commits') : ~ (x > Len(commits) /\ commits'[x].second # NoCommit)
    BY <1>3, <1>10, <1>11, <1>12
<1>23. run'[d].phase # "merge"
    BY <1>4, <1>13
<1> HIDE DEF SInv, Beside, RowFiles
<1> QED BY <1>4, <1>11, <1>12, <1>13, <1>14, <1>16, <1>17, <1>19, <1>21, <1>22, <1>23
        DEF Builds

-----------------------------------------------------------------------------
(* Every step of a device.                                                 *)

LEMMA ReadHeadGoesOn ==
    ASSUME SInv, SInv', NEW d \in Devices, ImageFits(d), ReadHead(d)
    PROVE  Keeps(d) \/ Settles(d) \/ Builds(d)
<1>1. RowInv(d) /\ RunInv(d)
    BY DEF SInv, DeviceInv
<1>2. /\ run[d].phase = "scanned" /\ checkout[d] = NoCommit
      /\ UNCHANGED <<serverVars, net, userVars, approved>>
    BY <1>1 DEF ReadHead, At, RunInv
<1>3. CASE pending[d] # NoPending
  <2>1. Still /\ net' = net
      BY <1>2, <1>3 DEF ReadHead, Still, serverVars, userVars
  <2>2. Resumable(d, run[d].scan, head)
      BY <1>1, <1>2, <1>3, HeadIsResumable DEF RunInv
  <2> QED BY <1>3, <2>1, <2>2, ResumeGoesOn DEF ReadHead
<1>4. CASE pending[d] = NoPending
  <2>1. Start(d) /\ UNCHANGED forgotten
      BY <1>4 DEF ReadHead
  <2>2. CASE End(d) /\ UNCHANGED <<commits, rowVars>>
    <3>1. Calm
        BY <1>2, <2>1, <2>2 DEF Calm, serverVars, userVars
    <3> QED BY <1>2, <2>2, <3>1, EndKeeps
  <2>3. CASE /\ head # base[d]
             /\ run' = [run EXCEPT ![d].phase = "merge", ![d].seen = head]
             /\ UNCHANGED <<commits, rowVars>>
    <3> DEFINE r == [run[d] EXCEPT !.phase = "merge", !.seen = head]
    <3>1. run' = [run EXCEPT ![d] = r]
        BY <2>3
    <3>2. r.phase = "merge" /\ r.seen = head /\ r.scan = run[d].scan
        BY RunIsRun DEF Run
    <3> HIDE DEF r
    <3>3. Calm /\ RunMayBe(d, r)
        BY <1>2, <1>4, <2>1, <2>3, <3>2 DEF Calm, RunMayBe, serverVars, userVars
    <3> QED BY <1>2, <2>3, <3>1, <3>3, RunKeeps
  <2>4. CASE /\ checkout' = [checkout EXCEPT ![d] = head]
             /\ Checkout(d)
             /\ UNCHANGED <<commits, base, pending>>
    <3> DEFINE r == [Ended EXCEPT !.phase = "checkout"]
    <3>1. run' = [run EXCEPT ![d] = r]
        BY <2>4 DEF Checkout
    <3>2. r.phase = "checkout"
        BY DEF Ended
    <3> HIDE DEF r
    <3>3. Changes(checkout, checkout', d) /\ Changes(run, run', d) /\ run'[d] = r
        BY <2>4, <3>1, RunEntry DEF Changes
    <3>4. Only(d)
        BY <1>2, <2>4, <3>3, OnlyAt DEF SInv, Changes, userVars
    <3>5. Calm /\ RunMayBe(d, run'[d])
        BY <1>2, <2>1, <2>4, <3>2, <3>3 DEF Calm, RunMayBe, serverVars, userVars
    <3> QED BY <1>2, <2>4, <3>4, <3>5, RowKept DEF SameRow
  <2>5. CASE /\ head = base[d]
             /\ commits' = Append(commits, Captured(base[d], run[d].scan))
             /\ Prepare(d, [base |-> base[d], expected |-> head,
                            candidate |-> Len(commits) + 1,
                            captured |-> Len(commits) + 1,
                            protected |-> Protected(Tree(base[d]), run[d].scan),
                            confirmed |-> FALSE])
      BY <1>2, <1>4, <2>1, <2>5, CaptureBuilds
  <2> QED BY <2>1, <2>2, <2>3, <2>4, <2>5 DEF Start
<1> QED BY <1>3, <1>4

LEMMA MergeTreesGoesOn ==
    ASSUME SInv, SInv', Links, NEW d \in Devices, Tip(d), MergeFits(d), RowFiles(d),
           MergeTrees(d)
    PROVE  Keeps(d) \/ Builds(d)
<1>1. /\ run[d].phase = "merge"
      /\ UNCHANGED <<serverVars, net, userVars, historyVars>>
    BY DEF MergeTrees, At
<1>2. CASE End(d) /\ UNCHANGED <<commits, rowVars>>
  <2>1. Calm /\ net' = net
      BY <1>1, <1>2 DEF Calm, serverVars, userVars, historyVars
  <2> QED BY <1>2, <2>1, EndKeeps
<1> QED BY <1>1, <1>2, StartMergeBuilds, ReplaceBuilds DEF MergeTrees

(* What a device can do in a step.                                         *)
Acts(d) ==
    \/ \E c \in {NoCommit, pending[d].candidate} : Begin(d, c)
    \/ Continue(d)
    \/ PreviewRestore(d) \/ ConfirmRestore(d)
    \/ Stop(d)
    \/ \E f \in Files : Save(d, f) \/ Delete(d, f)

LEMMA DeviceGoesOn ==
    ASSUME SInv, SInv', GraphInv, FileInv, NEW d \in Devices, Acts(d)
    PROVE  Keeps(d) \/ Settles(d) \/ Builds(d)
<1>1. Links /\ Tip(d) /\ MergeFits(d) /\ RowFiles(d) /\ ImageFits(d)
    BY DEF GraphInv, FileInv
<1>2. CASE \E c : Begin(d, c)
    BY <1>2, BeginKeeps
<1>3. CASE ReadHead(d)
    BY <1>1, <1>3, ReadHeadGoesOn
<1>4. CASE MergeTrees(d)
    BY <1>1, <1>4, MergeTreesGoesOn
<1>5. CASE Verify(d) \/ Reread(d) \/ Stop(d)
    BY <1>5, VerifyKeeps
<1>6. CASE Publish(d)
    BY <1>1, <1>6, PublishGoesOn
<1>7. CASE Observe(d)
    BY <1>1, <1>7, ObserveGoesOn
<1>8. CASE Apply(d)
    BY <1>8, ApplySettles
<1>9. CASE PreviewRestore(d)
    BY <1>9, PreviewBuilds
<1>10. CASE ConfirmRestore(d)
    BY <1>1, <1>10, ConfirmGoesOn
<1>11. CASE \E f \in Files : Save(d, f) \/ Delete(d, f)
    BY <1>1, <1>11, EditKeeps
<1> QED BY <1>2, <1>3, <1>4, <1>5, <1>6, <1>7, <1>8, <1>9, <1>10, <1>11
        DEF Acts, Continue

-----------------------------------------------------------------------------
(* The theorems.                                                           *)

LEMMA InitFits == Init => GraphInv /\ FileInv
<1> SUFFICES ASSUME Init PROVE GraphInv /\ FileInv
    OBVIOUS
<1>1. PICK k : k = Captured(NoCommit, FirstTree)
    OBVIOUS
<1>2. /\ k.first = NoCommit /\ k.second = NoCommit /\ k.tree = FirstTree
      /\ k.source = NoCommit
    BY <1>1 DEF Captured
<1>3. commits = <<k>> /\ Len(commits) = 1 /\ commits[1] = k
  <2>1. commits = <<k>>
      BY <1>1 DEF Init
  <2> QED BY <2>1
<1>4. /\ head = 1 /\ net = {} /\ dropped = {}
      /\ \A d \in Devices :
            /\ worktree[d] = FirstTree /\ base[d] = 1 /\ pending[d] = NoPending
            /\ run[d].phase = "idle"
    BY DEF Init, FirstCommit, Ended
<1>5. role[1] = "mainline"
  <2>1. 1 \in CommitIds
      BY CommitBound DEF CommitIds
  <2> QED BY <2>1 DEF Init, FirstCommit
<1>6. Links
  <2>1. \A c \in 1 .. Len(commits) : c = 1
      BY <1>3
  <2>2. SInv
      BY InitHolds
  <2>3. Up(commits)[1] = {1} \cup Up(commits)[commits[1].first]
                             \cup Up(commits)[commits[1].second]
    <3>1. 1 \in 1 .. Len(commits) /\ Backward(commits)
        BY <1>3, <2>2, HistoryParts
    <3> QED BY <3>1, UpUnfolds
  <2> HIDE DEF SInv
  <2> QED BY <1>2, <1>3, <1>5, <2>1, <2>3 DEF Links
<1>7. \A d \in Devices : Tip(d) /\ MergeFits(d)
    BY <1>4 DEF Tip, MergeFits
<1>8. ASSUME NEW d \in Devices
      PROVE  /\ ~ IsSync(d) /\ Image(d) = FirstTree /\ Own(d) = {}
             /\ OwnFits(d) /\ ImageFits(d) /\ RowFiles(d)
  <2>1. ~ IsSync(d) /\ Image(d) = FirstTree
      BY <1>4 DEF IsSync, Image
  <2>2. Own(d) = {}
      BY <1>2, <1>3, <1>4, <2>1 DEF Own
  <2> QED BY <1>4, <2>1, <2>2 DEF OwnFits, ImageFits, RowFiles
<1>9. FileInv
    BY <1>4, <1>8 DEF FileInv
<1> QED BY <1>6, <1>7, <1>9 DEF GraphInv

LEMMA HistoryStep == SInv /\ GraphInv /\ FileInv /\ [Next]_vars => GraphInv' /\ FileInv'
<1> SUFFICES ASSUME SInv, GraphInv, FileInv, [Next]_vars PROVE GraphInv' /\ FileInv'
    OBVIOUS
<1>1. SInv'
    BY StepHolds
<1>2. Links
    BY DEF GraphInv
<1>3. ASSUME NEW d \in Devices, Acts(d) PROVE GraphInv' /\ FileInv'
  <2>1. CASE Keeps(d)
    <3>1. /\ Beside(d) /\ commits' = commits /\ MergeFits(d)'
          /\ pending'[d] # NoPending => /\ pending[d] # NoPending
                                        /\ pending'[d].candidate = pending[d].candidate
        BY <2>1 DEF Keeps, SameRow
    <3> QED BY <1>1, <1>2, <2>1, <3>1, GraphStays, FilesKept
  <2>2. CASE Settles(d)
    <3>1. Beside(d) /\ commits' = commits /\ pending'[d] = NoPending /\ MergeFits(d)'
        BY <2>2 DEF Settles, MergeFits
    <3> QED BY <1>1, <1>2, <2>2, <3>1, GraphStays, FilesSettled
  <2>3. CASE Builds(d)
      BY <1>1, <1>2, <2>3, GraphBuilt, FilesBuilt
  <2> QED BY <1>1, <1>3, <2>1, <2>2, <2>3, DeviceGoesOn
<1>4. ASSUME NEW m \in net, HandlePut(m) \/ LosePut(m) PROVE GraphInv' /\ FileInv'
  <2>1. GraphInv'
      BY <1>4, GraphPublished
  <2>2. CASE HandlePut(m) /\ MeetsHead(m) /\ Accepts(m.candidate)
      BY <1>1, <1>2, <2>1, <2>2, FilesPublished
  <2>3. CASE ~ (HandlePut(m) /\ MeetsHead(m) /\ Accepts(m.candidate))
    <3>1. /\ net' \subseteq net
          /\ UNCHANGED <<commits, serverVars, userVars, rowVars, run, historyVars>>
        BY <1>4, <2>3 DEF HandlePut, LosePut
    <3> QED BY <2>1, <3>1, FilesUnsent
  <2> QED BY <2>1, <2>2, <2>3
<1>5. CASE UNCHANGED vars
  <2>1. /\ net' \subseteq net
        /\ UNCHANGED <<commits, serverVars, userVars, rowVars, run, historyVars>>
      BY <1>5 DEF vars, serverVars, userVars, rowVars, historyVars
  <2>2. GraphInv'
      BY <1>5 DEF vars, serverVars, userVars, rowVars, historyVars, GraphInv, Links, LinkAt,
                  Tip, MergeFits
  <2> QED BY <2>1, <2>2, FilesUnsent
<1>6. CASE Next
    BY <1>3, <1>4, <1>6 DEF Next, Acts
<1> QED BY <1>5, <1>6

LEMMA HistoryHolds == Spec => [](SInv /\ GraphInv /\ FileInv)
<1>1. Init => SInv /\ GraphInv /\ FileInv
    BY InitHolds, InitFits
<1>2. SInv /\ GraphInv /\ FileInv /\ [Next]_vars => (SInv /\ GraphInv /\ FileInv)'
    BY StepHolds, HistoryStep
<1> QED BY <1>1, <1>2, PTL DEF Spec

(* The server takes the chains that clients build when one conflict comes  *)
(* after another: a PUT that meets the Head it expects is accepted, as long*)
(* as the Sync Base its first candidate was captured on is a mainline      *)
(* commit, however many merges replaced the candidate since.               *)
THEOREM AnchoredChainsAccepted == Spec => []AnchoredCandidatesAccepted
<1>1. SInv /\ GraphInv /\ FileInv => AnchoredCandidatesAccepted
    BY AnchoredIsAccepted DEF GraphInv
<1> QED BY <1>1, HistoryHolds, PTL

(* A version that a publication removed from the Head does not come back   *)
(* with the merge of a device that still holds it, in its worktree, in its *)
(* row or in a chain of candidates, but in two cases: a merge may keep it  *)
(* with the directory it is below, in which its device changed something   *)
(* else and which may be gone from the Head (such versions, and those of a *)
(* restore, HandlePut takes out of dropped); and a device that dropped the *)
(* row of a PUT still on its way can bring back what that PUT published.   *)
THEOREM DeletionsStay == Spec => []DeletionsLast
<1>1. SInv /\ GraphInv /\ FileInv => DeletionsLast
    BY DEF FileInv, DeletionsLast, Tree
<1> QED BY <1>1, HistoryHolds, PTL
=============================================================================
