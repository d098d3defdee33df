------------------------- MODULE LibrarySyncProofs -------------------------
(***************************************************************************)
(* Proofs about LibrarySync: devices that sync one library, while users    *)
(* edit, runs are killed and PUTs are lost or come late, neither lose a    *)
(* file nor publish what their users did not confirm - for every set of    *)
(* devices and files and every number of commits.                          *)
(***************************************************************************)
EXTENDS LibrarySync, FiniteSums

(***************************************************************************)
(* Histories of commits.  A history is a sequence of records with two      *)
(* parents, each the place of an earlier record or 0.  LibrarySync defines *)
(* the ancestors of a commit and the chain of its second parents by        *)
(* recursion; here is what these recursions compute.                       *)
(*                                                                         *)
(* An induction over places is done on the set of those for which a fact   *)
(* holds: what holds at each place, if it holds before, holds everywhere.  *)
(***************************************************************************)
LEMMA UpToInduction ==
    ASSUME NEW n \in Nat, NEW B,
           \A x \in 0 .. n : (\A y \in 0 .. (x - 1) : y \in B) => x \in B
    PROVE  \A x \in 0 .. n : x \in B
<1> SUFFICES ASSUME NEW z \in 0 .. n, z \notin B PROVE FALSE
    OBVIOUS
<1> DEFINE U == 0 .. n
           T == {t \in SUBSET U : \E x \in 0 .. n : x \notin B /\ t = 0 .. x}
<1>1. IsFiniteSet(U)
    BY FS_Interval
<1>2. T \in SUBSET SUBSET U
    OBVIOUS
<1>3. \A t \in T : \E x \in 0 .. n : x \notin B /\ t = 0 .. x
    OBVIOUS
<1>4. \A x \in 0 .. n : x \notin B => 0 .. x \in T
    OBVIOUS
<1>5. PICK t \in T : \A u \in T : u \subseteq t => u = t
  <2>1. T # {}
      BY <1>4
  <2> HIDE DEF T, U
  <2> QED BY <1>1, <1>2, <2>1, Smallest
<1> HIDE DEF T, U
<1>6. PICK x \in 0 .. n : x \notin B /\ t = 0 .. x
    BY <1>3
<1>7. PICK y \in 0 .. (x - 1) : y \notin B
    BY <1>6
<1>8. 0 .. y \in T
    BY <1>4, <1>7
<1>9. 0 .. y \subseteq t /\ x \in t /\ x \notin 0 .. y
    BY <1>6, <1>7
<1> QED BY <1>5, <1>8, <1>9

-----------------------------------------------------------------------------
(* Histories.                                                              *)

Backward(s) ==
    /\ Len(s) \in Nat
    /\ \A x \in 1 .. Len(s) : s[x].first \in 0 .. x - 1 /\ s[x].second \in 0 .. x - 1

(* t has the commits of s and perhaps more.                                *)
Extends(s, t) ==
    /\ Len(s) <= Len(t)
    /\ \A x \in 1 .. Len(s) : t[x] = s[x]

SolvesUp(g, s, n) ==
    g = [x \in 0 .. n |-> IF x = 0 THEN {} ELSE {x} \cup g[s[x].first] \cup g[s[x].second]]

SolvesChain(g, s, n) ==
    g = [x \in 0 .. n |-> IF x = 0 THEN {} ELSE {x} \cup g[s[x].second]]

Up(s) == CHOOSE g : SolvesUp(g, s, Len(s))

Chain(s) == CHOOSE g : SolvesChain(g, s, Len(s))

LEMMA UpAt ==
    ASSUME NEW g, NEW s, NEW n \in Nat, SolvesUp(g, s, n)
    PROVE  /\ g[0] = {}
           /\ \A x \in 1 .. n : g[x] = {x} \cup g[s[x].first] \cup g[s[x].second]
<1>1. \A x \in 0 .. n : g[x] = IF x = 0 THEN {} ELSE {x} \cup g[s[x].first] \cup g[s[x].second]
  <2> DEFINE h == [x \in 0 .. n |-> IF x = 0 THEN {} ELSE {x} \cup g[s[x].first] \cup g[s[x].second]]
  <2>1. g = h
      BY DEF SolvesUp
  <2>2. \A x \in 0 .. n : h[x] = IF x = 0 THEN {} ELSE {x} \cup g[s[x].first] \cup g[s[x].second]
      OBVIOUS
  <2> HIDE DEF h
  <2> QED BY <2>1, <2>2
<1>2. 0 \in 0 .. n /\ \A x \in 1 .. n : x \in 0 .. n /\ x # 0
    OBVIOUS
<1> QED BY <1>1, <1>2

LEMMA ChainAt ==
    ASSUME NEW g, NEW s, NEW n \in Nat, SolvesChain(g, s, n)
    PROVE  /\ g[0] = {}
           /\ \A x \in 1 .. n : g[x] = {x} \cup g[s[x].second]
<1>1. \A x \in 0 .. n : g[x] = IF x = 0 THEN {} ELSE {x} \cup g[s[x].second]
  <2> DEFINE h == [x \in 0 .. n |-> IF x = 0 THEN {} ELSE {x} \cup g[s[x].second]]
  <2>1. g = h
      BY DEF SolvesChain
  <2>2. \A x \in 0 .. n : h[x] = IF x = 0 THEN {} ELSE {x} \cup g[s[x].second]
      OBVIOUS
  <2> HIDE DEF h
  <2> QED BY <2>1, <2>2
<1>2. 0 \in 0 .. n /\ \A x \in 1 .. n : x \in 0 .. n /\ x # 0
    OBVIOUS
<1> QED BY <1>1, <1>2

LEMMA UpExists ==
    ASSUME NEW s, Backward(s)
    PROVE  \E g : SolvesUp(g, s, Len(s))
<1> DEFINE B == {n \in 0 .. Len(s) : \E g : SolvesUp(g, s, n)}
<1>1. Len(s) \in Nat
    BY DEF Backward
<1>2. ASSUME NEW n \in 0 .. Len(s), \A m \in 0 .. (n - 1) : m \in B PROVE n \in B
  <2>1. CASE n = 0
    <3>1. SolvesUp([x \in 0 .. 0 |-> {}], s, 0)
        BY DEF SolvesUp
    <3> QED BY <2>1, <3>1
  <2>2. CASE n # 0
    <3>1. n - 1 \in 0 .. (n - 1)
        BY <2>2
    <3>2. PICK g : SolvesUp(g, s, n - 1)
        BY <1>2, <3>1
    <3>3. n \in 1 .. Len(s) /\ s[n].first \in 0 .. (n - 1) /\ s[n].second \in 0 .. (n - 1)
        BY <2>2 DEF Backward
    <3> DEFINE h == [x \in 0 .. n |-> IF x = n THEN {n} \cup g[s[n].first] \cup g[s[n].second]
                                      ELSE g[x]]
    <3>4. \A x \in 0 .. (n - 1) : h[x] = g[x]
        OBVIOUS
    <3>5. \A x \in 0 .. n :
              h[x] = IF x = 0 THEN {} ELSE {x} \cup h[s[x].first] \cup h[s[x].second]
      <4> SUFFICES ASSUME NEW x \in 0 .. n
                   PROVE  h[x] = IF x = 0 THEN {} ELSE {x} \cup h[s[x].first] \cup h[s[x].second]
          OBVIOUS
      <4>1. CASE x = n
          BY <2>2, <3>3, <3>4, <4>1
      <4>2. CASE x # n
        <5>1. x \in 0 .. (n - 1) /\ n - 1 \in Nat
            BY <2>2, <4>2
        <5>2. /\ g[0] = {}
              /\ \A y \in 1 .. n - 1 : g[y] = {y} \cup g[s[y].first] \cup g[s[y].second]
            BY <3>2, <5>1, UpAt
        <5>3. x # 0 => s[x].first \in 0 .. (n - 1) /\ s[x].second \in 0 .. (n - 1)
            BY <5>1 DEF Backward
        <5> HIDE DEF h
        <5>4. CASE x = 0
            BY <3>4, <5>1, <5>2, <5>4
        <5>5. CASE x # 0
          <6>1. x \in 1 .. n - 1
              BY <5>1, <5>5
          <6>2. h[x] = g[x]
              BY <3>4, <5>1
          <6> QED BY <3>4, <5>2, <5>3, <5>5, <6>1, <6>2
        <5> QED BY <5>4, <5>5
      <4> QED BY <4>1, <4>2
    <3>6. SolvesUp(h, s, n)
        BY <3>5 DEF SolvesUp
    <3> QED BY <3>6
  <2> QED BY <2>1, <2>2
<1>3. \A n \in 0 .. Len(s) : n \in B
  <2> HIDE DEF B
  <2> QED BY <1>1, <1>2, UpToInduction
<1> QED BY <1>1, <1>3

LEMMA ChainExists ==
    ASSUME NEW s, Backward(s)
    PROVE  \E g : SolvesChain(g, s, Len(s))
<1> DEFINE B == {n \in 0 .. Len(s) : \E g : SolvesChain(g, s, n)}
<1>1. Len(s) \in Nat
    BY DEF Backward
<1>2. ASSUME NEW n \in 0 .. Len(s), \A m \in 0 .. (n - 1) : m \in B PROVE n \in B
  <2>1. CASE n = 0
    <3>1. SolvesChain([x \in 0 .. 0 |-> {}], s, 0)
        BY DEF SolvesChain
    <3> QED BY <2>1, <3>1
  <2>2. CASE n # 0
    <3>1. n - 1 \in 0 .. (n - 1)
        BY <2>2
    <3>2. PICK g : SolvesChain(g, s, n - 1)
        BY <1>2, <3>1
    <3>3. n \in 1 .. Len(s) /\ s[n].second \in 0 .. (n - 1)
        BY <2>2 DEF Backward
    <3> DEFINE h == [x \in 0 .. n |-> IF x = n THEN {n} \cup g[s[n].second] ELSE g[x]]
    <3>4. \A x \in 0 .. (n - 1) : h[x] = g[x]
        OBVIOUS
    <3>5. \A x \in 0 .. n : h[x] = IF x = 0 THEN {} ELSE {x} \cup h[s[x].second]
      <4> SUFFICES ASSUME NEW x \in 0 .. n
                   PROVE  h[x] = IF x = 0 THEN {} ELSE {x} \cup h[s[x].second]
          OBVIOUS
      <4>1. CASE x = n
          BY <2>2, <3>3, <3>4, <4>1
      <4>2. CASE x # n
        <5>1. x \in 0 .. (n - 1) /\ n - 1 \in Nat
            BY <2>2, <4>2
        <5>2. /\ g[0] = {}
              /\ \A y \in 1 .. n - 1 : g[y] = {y} \cup g[s[y].second]
            BY <3>2, <5>1, ChainAt
        <5>3. x # 0 => s[x].second \in 0 .. (n - 1)
            BY <5>1 DEF Backward
        <5> HIDE DEF h
        <5>4. CASE x = 0
            BY <3>4, <5>1, <5>2, <5>4
        <5>5. CASE x # 0
          <6>1. x \in 1 .. n - 1
              BY <5>1, <5>5
          <6>2. h[x] = g[x]
              BY <3>4, <5>1
          <6> QED BY <3>4, <5>2, <5>3, <5>5, <6>1, <6>2
        <5> QED BY <5>4, <5>5
      <4> QED BY <4>1, <4>2
    <3>6. SolvesChain(h, s, n)
        BY <3>5 DEF SolvesChain
    <3> QED BY <3>6
  <2> QED BY <2>1, <2>2
<1>3. \A n \in 0 .. Len(s) : n \in B
  <2> HIDE DEF B
  <2> QED BY <1>1, <1>2, UpToInduction
<1> QED BY <1>1, <1>3

LEMMA UpUnfolds ==
    ASSUME NEW s, Backward(s)
    PROVE  /\ Up(s)[0] = {}
           /\ \A x \in 1 .. Len(s) : Up(s)[x] = {x} \cup Up(s)[s[x].first] \cup Up(s)[s[x].second]
<1>1. SolvesUp(Up(s), s, Len(s))
    BY UpExists DEF Up
<1>2. Len(s) \in Nat
    BY DEF Backward
<1> QED BY <1>1, <1>2, UpAt

LEMMA ChainUnfolds ==
    ASSUME NEW s, Backward(s)
    PROVE  /\ Chain(s)[0] = {}
           /\ \A x \in 1 .. Len(s) : Chain(s)[x] = {x} \cup Chain(s)[s[x].second]
<1>1. SolvesChain(Chain(s), s, Len(s))
    BY ChainExists DEF Chain
<1>2. Len(s) \in Nat
    BY DEF Backward
<1> QED BY <1>1, <1>2, ChainAt

(* What is appended to a history changes nothing about what was there.     *)
LEMMA HistoryStable ==
    ASSUME NEW s, NEW t, Backward(s), Backward(t), Extends(s, t)
    PROVE  \A x \in 0 .. Len(s) : Up(t)[x] = Up(s)[x] /\ Chain(t)[x] = Chain(s)[x]
<1> DEFINE B == {x \in 0 .. Len(s) : Up(t)[x] = Up(s)[x] /\ Chain(t)[x] = Chain(s)[x]}
<1>1. Len(s) \in Nat /\ Len(t) \in Nat
    BY DEF Backward
<1>2. ASSUME NEW x \in 0 .. Len(s), \A y \in 0 .. (x - 1) : y \in B PROVE x \in B
  <2>1. CASE x = 0
      BY <2>1, UpUnfolds, ChainUnfolds
  <2>2. CASE x # 0
    <3>1. x \in 1 .. Len(s) /\ x \in 1 .. Len(t) /\ t[x] = s[x]
        BY <1>1, <2>2 DEF Extends
    <3>2. s[x].first \in 0 .. (x - 1) /\ s[x].second \in 0 .. (x - 1)
        BY <3>1 DEF Backward
    <3>3. /\ Up(t)[s[x].first] = Up(s)[s[x].first] /\ Up(t)[s[x].second] = Up(s)[s[x].second]
          /\ Chain(t)[s[x].second] = Chain(s)[s[x].second]
        BY <1>2, <3>2
    <3>4. /\ Up(s)[x] = {x} \cup Up(s)[s[x].first] \cup Up(s)[s[x].second]
          /\ Chain(s)[x] = {x} \cup Chain(s)[s[x].second]
        BY <3>1, UpUnfolds, ChainUnfolds
    <3>5. /\ Up(t)[x] = {x} \cup Up(t)[s[x].first] \cup Up(t)[s[x].second]
          /\ Chain(t)[x] = {x} \cup Chain(t)[s[x].second]
      <4>1. /\ Up(t)[x] = {x} \cup Up(t)[t[x].first] \cup Up(t)[t[x].second]
            /\ Chain(t)[x] = {x} \cup Chain(t)[t[x].second]
          BY <3>1, UpUnfolds, ChainUnfolds
      <4> QED BY <3>1, <4>1
    <3> QED BY <3>3, <3>4, <3>5
  <2> QED BY <2>1, <2>2
<1>3. \A x \in 0 .. Len(s) : x \in B
  <2> HIDE DEF B
  <2> QED BY <1>1, <1>2, UpToInduction
<1> QED BY <1>3

LEMMA UpIsBefore ==
    ASSUME NEW s, Backward(s)
    PROVE  \A x \in 0 .. Len(s) : Up(s)[x] \subseteq 1 .. x
<1> DEFINE B == {x \in 0 .. Len(s) : Up(s)[x] \subseteq 1 .. x}
<1>1. Len(s) \in Nat
    BY DEF Backward
<1>2. ASSUME NEW x \in 0 .. Len(s), \A y \in 0 .. (x - 1) : y \in B PROVE x \in B
  <2>1. CASE x = 0
      BY <2>1, UpUnfolds
  <2>2. CASE x # 0
    <3>1. x \in 1 .. Len(s) /\ s[x].first \in 0 .. (x - 1) /\ s[x].second \in 0 .. (x - 1)
        BY <2>2 DEF Backward
    <3>2. /\ Up(s)[s[x].first] \subseteq 1 .. s[x].first
          /\ Up(s)[s[x].second] \subseteq 1 .. s[x].second
        BY <1>2, <3>1
    <3>3. Up(s)[x] = {x} \cup Up(s)[s[x].first] \cup Up(s)[s[x].second]
        BY <3>1, UpUnfolds
    <3>4. Up(s)[x] \subseteq 1 .. x
        BY <3>1, <3>2, <3>3
    <3> QED BY <3>4
  <2> QED BY <2>1, <2>2
<1>3. \A x \in 0 .. Len(s) : x \in B
  <2> HIDE DEF B
  <2> QED BY <1>1, <1>2, UpToInduction
<1> QED BY <1>3

LEMMA UpTransitive ==
    ASSUME NEW s, Backward(s)
    PROVE  \A x \in 0 .. Len(s) : \A y \in Up(s)[x] : Up(s)[y] \subseteq Up(s)[x]
<1> DEFINE B == {x \in 0 .. Len(s) : \A y \in Up(s)[x] : Up(s)[y] \subseteq Up(s)[x]}
<1>1. Len(s) \in Nat
    BY DEF Backward
<1>2. ASSUME NEW x \in 0 .. Len(s), \A y \in 0 .. (x - 1) : y \in B PROVE x \in B
  <2>1. CASE x = 0
      BY <2>1, UpUnfolds
  <2>2. CASE x # 0
    <3>1. x \in 1 .. Len(s) /\ s[x].first \in 0 .. (x - 1) /\ s[x].second \in 0 .. (x - 1)
        BY <2>2 DEF Backward
    <3>2. Up(s)[x] = {x} \cup Up(s)[s[x].first] \cup Up(s)[s[x].second]
        BY <3>1, UpUnfolds
    <3>3. /\ \A y \in Up(s)[s[x].first] : Up(s)[y] \subseteq Up(s)[s[x].first]
          /\ \A y \in Up(s)[s[x].second] : Up(s)[y] \subseteq Up(s)[s[x].second]
        BY <1>2, <3>1
    <3> QED BY <3>2, <3>3
  <2> QED BY <2>1, <2>2
<1>3. \A x \in 0 .. Len(s) : x \in B
  <2> HIDE DEF B
  <2> QED BY <1>1, <1>2, UpToInduction
<1> QED BY <1>3

(* The ancestors of a commit are its chain and what the first parents of   *)
(* the chain descend from.                                                 *)
LEMMA UpAlongChain ==
    ASSUME NEW s, Backward(s)
    PROVE  \A x \in 0 .. Len(s) :
               /\ Chain(s)[x] \subseteq Up(s)[x]
               /\ \A y \in Up(s)[x] : \/ y \in Chain(s)[x]
                                      \/ \E z \in Chain(s)[x] : y \in Up(s)[s[z].first]
<1> DEFINE P(x) == /\ Chain(s)[x] \subseteq Up(s)[x]
                   /\ \A y \in Up(s)[x] : \/ y \in Chain(s)[x]
                                          \/ \E z \in Chain(s)[x] : y \in Up(s)[s[z].first]
           B == {x \in 0 .. Len(s) : P(x)}
<1>1. Len(s) \in Nat
    BY DEF Backward
<1>2. ASSUME NEW x \in 0 .. Len(s), \A y \in 0 .. (x - 1) : y \in B PROVE x \in B
  <2>1. CASE x = 0
      BY <2>1, UpUnfolds, ChainUnfolds
  <2>2. CASE x # 0
    <3>1. x \in 1 .. Len(s) /\ s[x].second \in 0 .. (x - 1)
        BY <2>2 DEF Backward
    <3>2. /\ Up(s)[x] = {x} \cup Up(s)[s[x].first] \cup Up(s)[s[x].second]
          /\ Chain(s)[x] = {x} \cup Chain(s)[s[x].second]
        BY <3>1, UpUnfolds, ChainUnfolds
    <3>3. P(s[x].second)
        BY <1>2, <3>1
    <3>4. P(x)
        BY <3>2, <3>3
    <3> QED BY <3>4
  <2> QED BY <2>1, <2>2
<1>3. \A x \in 0 .. Len(s) : x \in B
  <2> HIDE DEF B
  <2> QED BY <1>1, <1>2, UpToInduction
<1> QED BY <1>3

-------------------------------------------------------------------------------
(* A commit that restores nothing, or that some user confirmed.            *)
Agreed(cs, agreed, c) == cs[c].source # NoCommit => c \in agreed

(* What a device may build on was agreed to, and an agreed commit lacks no *)
(* file of its ancestors but those users deleted.                          *)
HistoryOK(cs, agreed, kept, gone) ==
    /\ cs \in Seq(Commit) /\ Len(cs) \in CommitIds
    /\ Backward(cs)
    /\ agreed \subseteq 1 .. Len(cs)
    /\ \A c \in 1 .. Len(cs) :
          /\ cs[c].tree \subseteq kept
          /\ cs[c].first # NoCommit => Agreed(cs, agreed, cs[c].first)
          /\ cs[c].second # NoCommit => Agreed(cs, agreed, cs[c].second)
          /\ Agreed(cs, agreed, c) =>
                \A a \in Up(cs)[c] : cs[a].tree \ cs[c].tree \subseteq gone

(* The commits with a role are those the Head descends from.               *)
RolesOK(cs, agreed, ro, h) ==
    /\ h \in 1 .. Len(cs)
    /\ ro \in [CommitIds -> {"none", "mainline", "merge-source"}]
    /\ \A c \in CommitIds : ro[c] # "none" <=> c \in Up(cs)[h]
    /\ ro[h] = "mainline"
    /\ Agreed(cs, agreed, h)
    /\ \A c \in 1 .. Len(cs) :
          ro[c] = "mainline" => \/ cs[c].first = NoCommit
                                \/ ro[cs[c].first] = "mainline"

-----------------------------------------------------------------------------
(* Histories.                                                              *)

LEMMA AncestorsAreUp == \A c : Ancestors(c) = Up(commits)[c]
    BY DEF Ancestors, Up, SolvesUp, NoCommit

LEMMA SecondChainIsChain == \A c : SecondChain(c) = Chain(commits)[c]
    BY DEF SecondChain, Chain, SolvesChain, NoCommit

LEMMA CommitTypes ==
    ASSUME NEW cs \in Seq(Commit), Len(cs) \in CommitIds
    PROVE  /\ Len(cs) \in Nat \ {0}
           /\ 1 .. Len(cs) \subseteq CommitIds
           /\ \A c \in 1 .. Len(cs) : cs[c] \in Commit
    BY CommitBound DEF CommitIds

(* Of an agreed commit, every ancestor was agreed to.                      *)
LEMMA AncestorsAgreed ==
    ASSUME NEW cs, NEW agreed, NEW kept, NEW gone, HistoryOK(cs, agreed, kept, gone)
    PROVE  \A x \in 0 .. Len(cs) : \A a \in Up(cs)[x] :
               (a = x => Agreed(cs, agreed, x)) => Agreed(cs, agreed, a)
<1> DEFINE B == {x \in 0 .. Len(cs) : \A a \in Up(cs)[x] :
                     (a = x => Agreed(cs, agreed, x)) => Agreed(cs, agreed, a)}
<1>1. Len(cs) \in Nat /\ Backward(cs)
    BY DEF HistoryOK, Backward
<1>2. ASSUME NEW x \in 0 .. Len(cs), \A y \in 0 .. (x - 1) : y \in B PROVE x \in B
  <2>1. CASE x = 0
      BY <1>1, <2>1, UpUnfolds
  <2>2. CASE x # 0
    <3>1. x \in 1 .. Len(cs) /\ cs[x].first \in 0 .. (x - 1) /\ cs[x].second \in 0 .. (x - 1)
        BY <1>1, <2>2 DEF Backward
    <3>2. /\ Up(cs)[x] = {x} \cup Up(cs)[cs[x].first] \cup Up(cs)[cs[x].second]
          /\ Up(cs)[0] = {}
        BY <1>1, <3>1, UpUnfolds
    <3>3. /\ cs[x].first # NoCommit => Agreed(cs, agreed, cs[x].first)
          /\ cs[x].second # NoCommit => Agreed(cs, agreed, cs[x].second)
        BY <3>1 DEF HistoryOK
    <3>4. /\ \A a \in Up(cs)[cs[x].first] : Agreed(cs, agreed, a)
          /\ \A a \in Up(cs)[cs[x].second] : Agreed(cs, agreed, a)
        BY <1>2, <3>1, <3>2, <3>3 DEF NoCommit
    <3> HIDE DEF B
    <3>5. \A a \in Up(cs)[x] : (a = x => Agreed(cs, agreed, x)) => Agreed(cs, agreed, a)
        BY <3>2, <3>4
    <3> QED BY <3>5 DEF B
  <2> QED BY <2>1, <2>2
<1>3. \A x \in 0 .. Len(cs) : x \in B
  <2> HIDE DEF B
  <2> QED BY <1>1, <1>2, UpToInduction
<1> QED BY <1>3

(* A commit can be appended whose parents were agreed to, if what it lacks *)
(* of them was deleted.                                                    *)
LEMMA AppendKeepsHistory ==
    ASSUME NEW cs, NEW agreed, NEW kept, NEW gone, HistoryOK(cs, agreed, kept, gone),
           NEW k \in Commit, Len(cs) + 1 <= MaxCommit,
           k.first \in 0 .. Len(cs), k.second \in 0 .. Len(cs),
           k.tree \subseteq kept,
           k.first # NoCommit => Agreed(cs, agreed, k.first),
           k.second # NoCommit => Agreed(cs, agreed, k.second),
           k.source = NoCommit =>
               /\ k.first # NoCommit => cs[k.first].tree \ k.tree \subseteq gone
               /\ k.second # NoCommit => cs[k.second].tree \ k.tree \subseteq gone
    PROVE  /\ HistoryOK(Append(cs, k), agreed, kept, gone)
           /\ Extends(cs, Append(cs, k))
           /\ Len(Append(cs, k)) = Len(cs) + 1
           /\ Append(cs, k)[Len(cs) + 1] = k
<1> DEFINE n == Len(cs) + 1
<1>1. cs \in Seq(Commit) /\ Len(cs) \in CommitIds /\ Backward(cs)
    BY DEF HistoryOK
<1>2. Len(cs) \in Nat \ {0} /\ n \in CommitIds
    BY <1>1, CommitTypes, CommitBound DEF CommitIds
<1>3. PICK ct : ct = Append(cs, k)
    OBVIOUS
<1>4. /\ ct \in Seq(Commit) /\ Len(ct) = n /\ ct[n] = k
      /\ \A c \in 1 .. Len(cs) : ct[c] = cs[c]
    BY <1>1, <1>2, <1>3
<1>5. Extends(cs, ct)
    BY <1>2, <1>4 DEF Extends
<1>6. Backward(ct)
  <2> SUFFICES ASSUME NEW x \in 1 .. n
               PROVE  ct[x].first \in 0 .. x - 1 /\ ct[x].second \in 0 .. x - 1
      BY <1>2, <1>4 DEF Backward
  <2>1. CASE x = n
      BY <1>2, <1>4, <2>1
  <2>2. CASE x # n
    <3>1. x \in 1 .. Len(cs)
        BY <1>2, <2>2
    <3> QED BY <1>1, <1>4, <3>1 DEF Backward
  <2> QED BY <2>1, <2>2
<1>7. \A x \in 0 .. Len(cs) : Up(ct)[x] = Up(cs)[x]
    BY <1>1, <1>5, <1>6, HistoryStable
<1>8. \A c \in 1 .. Len(cs) : Agreed(ct, agreed, c) <=> Agreed(cs, agreed, c)
    BY <1>4 DEF Agreed
<1>9. agreed \subseteq 1 .. Len(ct)
    BY <1>2, <1>4 DEF HistoryOK
<1>10. ASSUME NEW c \in 1 .. n
       PROVE  /\ ct[c].tree \subseteq kept
              /\ ct[c].first # NoCommit => Agreed(ct, agreed, ct[c].first)
              /\ ct[c].second # NoCommit => Agreed(ct, agreed, ct[c].second)
              /\ Agreed(ct, agreed, c) =>
                    \A a \in Up(ct)[c] : ct[a].tree \ ct[c].tree \subseteq gone
  <2>1. CASE c # n
    <3>1. c \in 1 .. Len(cs) /\ ct[c] = cs[c]
        BY <1>2, <1>4, <2>1
    <3>2. cs[c].first \in 0 .. Len(cs) /\ cs[c].second \in 0 .. Len(cs)
        BY <1>1, <1>2, <3>1 DEF Backward
    <3>3. Up(cs)[c] \subseteq 1 .. c
        BY <1>1, <1>2, <3>1, UpIsBefore
    <3>4. \A a \in Up(cs)[c] : ct[a] = cs[a]
        BY <1>2, <1>4, <3>1, <3>3
    <3>5. /\ cs[c].tree \subseteq kept
          /\ cs[c].first # NoCommit => Agreed(cs, agreed, cs[c].first)
          /\ cs[c].second # NoCommit => Agreed(cs, agreed, cs[c].second)
          /\ Agreed(cs, agreed, c) =>
                \A a \in Up(cs)[c] : cs[a].tree \ cs[c].tree \subseteq gone
        BY <3>1 DEF HistoryOK
    <3>6. /\ cs[c].first # NoCommit => Agreed(ct, agreed, cs[c].first)
          /\ cs[c].second # NoCommit => Agreed(ct, agreed, cs[c].second)
        BY <1>8, <3>2, <3>5 DEF NoCommit
    <3>7. Up(ct)[c] = Up(cs)[c] /\ (Agreed(ct, agreed, c) <=> Agreed(cs, agreed, c))
        BY <1>2, <1>7, <1>8, <3>1
    <3> QED BY <3>1, <3>4, <3>5, <3>6, <3>7
  <2>2. CASE c = n
    <3>1. /\ k.first # NoCommit => Agreed(ct, agreed, k.first)
          /\ k.second # NoCommit => Agreed(ct, agreed, k.second)
        BY <1>8 DEF NoCommit
    <3>2. ASSUME Agreed(ct, agreed, n), NEW a \in Up(ct)[n]
          PROVE  ct[a].tree \ k.tree \subseteq gone
      <4>1. k.source = NoCommit
          BY <1>1, <1>2, <1>4, <3>2 DEF Agreed, HistoryOK
      <4>2. /\ Up(ct)[n] = {n} \cup Up(ct)[k.first] \cup Up(ct)[k.second]
            /\ Up(ct)[0] = {}
          BY <1>2, <1>4, <1>6, UpUnfolds
      <4>3. CASE a = n
          BY <1>4, <4>3
      <4>4. ASSUME NEW q \in {k.first, k.second}, a \in Up(ct)[q]
            PROVE  ct[a].tree \ k.tree \subseteq gone
        <5>1. q \in 1 .. Len(cs)
            BY <1>2, <4>2, <4>4
        <5>2. Agreed(cs, agreed, q) /\ cs[q].tree \ k.tree \subseteq gone
            BY <4>1, <5>1 DEF NoCommit
        <5>3. a \in Up(cs)[q] /\ a \in 1 .. Len(cs)
          <6>1. a \in Up(cs)[q]
              BY <1>7, <4>4, <5>1
          <6>2. Up(cs)[q] \subseteq 1 .. q
              BY <1>1, <5>1, UpIsBefore
          <6> QED BY <1>2, <5>1, <6>1, <6>2
        <5>4. cs[a].tree \ cs[q].tree \subseteq gone
            BY <5>1, <5>2, <5>3 DEF HistoryOK
        <5> QED BY <1>4, <5>2, <5>3, <5>4
      <4> QED BY <3>2, <4>2, <4>3, <4>4
    <3> QED BY <1>4, <2>2, <3>1, <3>2
  <2> QED BY <2>1, <2>2
<1>11. HistoryOK(ct, agreed, kept, gone)
    BY <1>2, <1>4, <1>6, <1>9, <1>10 DEF HistoryOK
<1> QED BY <1>3, <1>4, <1>5, <1>11

(* Files are saved and deleted.                                            *)
LEMMA MoreFilesKeepHistory ==
    ASSUME NEW cs, NEW agreed, NEW kept, NEW gone, HistoryOK(cs, agreed, kept, gone),
           NEW kept2, NEW gone2, kept \subseteq kept2, gone \subseteq gone2
    PROVE  HistoryOK(cs, agreed, kept2, gone2)
<1>1. /\ cs \in Seq(Commit) /\ Len(cs) \in CommitIds
      /\ Backward(cs)
      /\ agreed \subseteq 1 .. Len(cs)
    BY DEF HistoryOK
<1>2. ASSUME NEW c \in 1 .. Len(cs)
      PROVE  /\ cs[c].tree \subseteq kept2
             /\ cs[c].first # NoCommit => Agreed(cs, agreed, cs[c].first)
             /\ cs[c].second # NoCommit => Agreed(cs, agreed, cs[c].second)
             /\ Agreed(cs, agreed, c) =>
                   \A a \in Up(cs)[c] : cs[a].tree \ cs[c].tree \subseteq gone2
  <2>1. /\ cs[c].tree \subseteq kept
        /\ cs[c].first # NoCommit => Agreed(cs, agreed, cs[c].first)
        /\ cs[c].second # NoCommit => Agreed(cs, agreed, cs[c].second)
        /\ Agreed(cs, agreed, c) =>
              \A a \in Up(cs)[c] : cs[a].tree \ cs[c].tree \subseteq gone
      BY DEF HistoryOK
  <2> QED BY <2>1
<1> QED BY <1>1, <1>2 DEF HistoryOK

(* A user agrees to a commit that lacks only what users deleted.           *)
LEMMA AgreeingKeepsHistory ==
    ASSUME NEW cs, NEW agreed, NEW kept, NEW gone, HistoryOK(cs, agreed, kept, gone),
           NEW more, more \subseteq 1 .. Len(cs),
           \A c \in more : \A a \in Up(cs)[c] :
               cs[c].source # NoCommit => cs[a].tree \ cs[c].tree \subseteq gone
    PROVE  HistoryOK(cs, agreed \cup more, kept, gone)
<1> DEFINE all == agreed \cup more
<1>1. /\ cs \in Seq(Commit) /\ Len(cs) \in CommitIds
      /\ Backward(cs)
      /\ all \subseteq 1 .. Len(cs)
    BY DEF HistoryOK
<1>2. \A c : Agreed(cs, agreed, c) => Agreed(cs, all, c)
    BY DEF Agreed
<1>3. \A c : Agreed(cs, all, c) =>
                \/ Agreed(cs, agreed, c)
                \/ c \in more /\ cs[c].source # NoCommit
    BY DEF Agreed
<1>4. ASSUME NEW c \in 1 .. Len(cs)
      PROVE  /\ cs[c].tree \subseteq kept
             /\ cs[c].first # NoCommit => Agreed(cs, all, cs[c].first)
             /\ cs[c].second # NoCommit => Agreed(cs, all, cs[c].second)
             /\ Agreed(cs, all, c) =>
                   \A a \in Up(cs)[c] : cs[a].tree \ cs[c].tree \subseteq gone
  <2>1. /\ cs[c].tree \subseteq kept
        /\ cs[c].first # NoCommit => Agreed(cs, agreed, cs[c].first)
        /\ cs[c].second # NoCommit => Agreed(cs, agreed, cs[c].second)
        /\ Agreed(cs, agreed, c) =>
              \A a \in Up(cs)[c] : cs[a].tree \ cs[c].tree \subseteq gone
      BY DEF HistoryOK
  <2> HIDE DEF all
  <2> QED BY <1>2, <1>3, <2>1
<1> HIDE DEF all
<1>5. HistoryOK(cs, all, kept, gone)
    BY <1>1, <1>4 DEF HistoryOK
<1> QED BY <1>5 DEF all

(* Commits are appended and agreed to; the Head stays.                     *)
LEMMA MoreCommitsKeepRoles ==
    ASSUME NEW cs, NEW agreed, NEW ro, NEW h, RolesOK(cs, agreed, ro, h),
           NEW ct, NEW agreed2, Extends(cs, ct), Backward(cs), Backward(ct),
           Len(ct) \in CommitIds, agreed \subseteq agreed2,
           \A c \in 1 .. Len(ct) : c > Len(cs) => ro[c] # "mainline"
    PROVE  RolesOK(ct, agreed2, ro, h)
<1>1. Len(cs) \in Nat /\ Len(ct) \in Nat /\ Len(cs) <= Len(ct)
    BY DEF Backward, Extends
<1>2. h \in 1 .. Len(cs) /\ h \in 1 .. Len(ct)
    BY <1>1 DEF RolesOK
<1>3. Up(ct)[h] = Up(cs)[h]
    BY <1>1, <1>2, HistoryStable
<1>4. Agreed(ct, agreed2, h)
    BY <1>2 DEF Agreed, RolesOK, Extends
<1>5. ASSUME NEW c \in 1 .. Len(ct), ro[c] = "mainline"
      PROVE  ct[c].first = NoCommit \/ ro[ct[c].first] = "mainline"
  <2>1. c \in 1 .. Len(cs)
      BY <1>1, <1>5
  <2> QED BY <1>5, <2>1 DEF RolesOK, Extends
<1> QED BY <1>2, <1>3, <1>4, <1>5 DEF RolesOK

(* A commit that is not there yet has no role.                             *)
LEMMA NoRoleInAdvance ==
    ASSUME NEW cs, NEW agreed, NEW ro, NEW h, RolesOK(cs, agreed, ro, h), Backward(cs)
    PROVE  \A c \in CommitIds : ro[c] # "none" => c \in 1 .. Len(cs)
<1>1. Len(cs) \in Nat /\ h \in 1 .. Len(cs)
    BY DEF RolesOK, Backward
<1>2. Up(cs)[h] \subseteq 1 .. h
    BY <1>1, UpIsBefore
<1> QED BY <1>1, <1>2 DEF RolesOK

(* What the server does with a candidate it accepts.                       *)
NewRoles(cs, ro, c) ==
    [x \in CommitIds |-> IF x = c THEN "mainline"
                         ELSE IF x \in Chain(cs)[c] THEN "merge-source" ELSE ro[x]]

LEMMA PublicationKeepsRoles ==
    ASSUME NEW cs, NEW agreed, NEW ro, NEW h, RolesOK(cs, agreed, ro, h), Backward(cs),
           Len(cs) \in CommitIds,
           NEW c \in 1 .. Len(cs), cs[c].first = h, Agreed(cs, agreed, c),
           \A s \in Chain(cs)[cs[c].second] :
               /\ ro[s] = "none"
               /\ cs[s].first # NoCommit
               /\ ro[cs[s].first] = "mainline"
    PROVE  /\ RolesOK(cs, agreed, NewRoles(cs, ro, c), c)
           /\ \A x \in CommitIds : ro[x] = "mainline" => NewRoles(cs, ro, c)[x] = "mainline"
           /\ \A x \in CommitIds : ro[x] # "none" => NewRoles(cs, ro, c)[x] # "none"
<1> DEFINE r2 == NewRoles(cs, ro, c)
           C == Chain(cs)[cs[c].second]
<1>1. Len(cs) \in Nat /\ 1 .. Len(cs) \subseteq CommitIds
    BY CommitBound DEF CommitIds
<1>2. h \in 1 .. Len(cs) /\ cs[c].second \in 0 .. (c - 1) /\ cs[c].second \in 0 .. Len(cs)
    BY <1>1 DEF RolesOK, Backward
<1>3. Chain(cs)[c] = {c} \cup C
    BY ChainUnfolds
<1>4. C \subseteq Up(cs)[cs[c].second] /\ C \subseteq 1 .. Len(cs)
  <2>1. C \subseteq Up(cs)[cs[c].second]
      BY <1>2, UpAlongChain
  <2>2. Up(cs)[cs[c].second] \subseteq 1 .. cs[c].second
      BY <1>2, UpIsBefore
  <2> QED BY <1>1, <1>2, <2>1, <2>2
<1>5. Up(cs)[c] = {c} \cup Up(cs)[h] \cup Up(cs)[cs[c].second]
    BY UpUnfolds
<1>6. \A y \in Up(cs)[cs[c].second] : y \in C \/ y \in Up(cs)[h]
  <2> SUFFICES ASSUME NEW y \in Up(cs)[cs[c].second], y \notin C PROVE y \in Up(cs)[h]
      OBVIOUS
  <2>1. PICK z \in C : y \in Up(cs)[cs[z].first]
      BY <1>2, UpAlongChain
  <2>2. z \in 1 .. Len(cs) /\ ro[cs[z].first] = "mainline" /\ cs[z].first # NoCommit
      BY <1>4, <2>1
  <2>3. cs[z].first \in 0 .. Len(cs) /\ cs[z].first \in 1 .. Len(cs)
      BY <1>1, <2>2 DEF Backward, NoCommit
  <2>4. cs[z].first \in Up(cs)[h]
      BY <1>1, <2>2, <2>3 DEF RolesOK
  <2> QED BY <1>2, <2>1, <2>4, UpTransitive
<1>7. \A x \in CommitIds : r2[x] = IF x = c THEN "mainline"
                                   ELSE IF x \in C THEN "merge-source" ELSE ro[x]
    BY <1>3 DEF NewRoles
<1>8. r2 \in [CommitIds -> {"none", "mainline", "merge-source"}]
    BY DEF NewRoles, RolesOK
<1>9. \A x \in C : ro[x] = "none"
    OBVIOUS
<1> HIDE DEF r2, C
<1>10. \A x \in CommitIds : ro[x] = "mainline" => r2[x] = "mainline"
    BY <1>7, <1>9
<1>11. \A x \in CommitIds : ro[x] # "none" => r2[x] # "none"
    BY <1>7, <1>9
<1>12. \A x \in CommitIds : r2[x] # "none" <=> x \in Up(cs)[c]
  <2> SUFFICES ASSUME NEW x \in CommitIds PROVE r2[x] # "none" <=> x \in Up(cs)[c]
      OBVIOUS
  <2>1. ro[x] # "none" <=> x \in Up(cs)[h]
      BY DEF RolesOK
  <2>2. x \in Up(cs)[c] <=> x = c \/ x \in C \/ x \in Up(cs)[h]
      BY <1>4, <1>5, <1>6
  <2> QED BY <1>7, <2>1, <2>2
<1>13. r2[c] = "mainline"
    BY <1>1, <1>7
<1>14. ASSUME NEW x \in 1 .. Len(cs), r2[x] = "mainline"
       PROVE  cs[x].first = NoCommit \/ r2[cs[x].first] = "mainline"
  <2>1. ro[h] = "mainline" /\ h \in CommitIds
      BY <1>1, <1>2 DEF RolesOK
  <2>2. CASE x = c
      BY <1>10, <2>1, <2>2
  <2>3. CASE x # c
    <3>1. ro[x] = "mainline"
        BY <1>1, <1>7, <1>14, <2>3
    <3>2. cs[x].first = NoCommit \/ ro[cs[x].first] = "mainline"
        BY <3>1 DEF RolesOK
    <3>3. cs[x].first = NoCommit \/ cs[x].first \in CommitIds
      <4>1. cs[x].first \in 0 .. x - 1
          BY DEF Backward
      <4>2. cs[x].first = 0 \/ cs[x].first \in 1 .. Len(cs)
          BY <1>1, <4>1
      <4> QED BY <1>1, <4>2 DEF NoCommit
    <3> QED BY <1>10, <3>2, <3>3
  <2> QED BY <2>2, <2>3
<1>15. RolesOK(cs, agreed, r2, c)
    BY <1>8, <1>12, <1>13, <1>14 DEF RolesOK
<1> QED BY <1>10, <1>11, <1>15 DEF r2

-----------------------------------------------------------------------------
(* Trees.                                                                  *)

(* What a merge drops, one side has dropped since the base.                *)
LEMMA MergeDrops ==
    ASSUME NEW b, NEW local, NEW remote, NEW tree \in Merge(b, local, remote)
    PROVE  /\ remote \ tree \subseteq b \ local
           /\ local \ tree \subseteq b \ remote
           /\ tree \subseteq local \cup remote
<1>1. PICK kept : /\ kept \subseteq WithDirectory(b, local, remote)
                                     \cup WithDirectory(b, remote, local)
                  /\ tree = (local \cap remote) \cup (local \ b) \cup (remote \ b) \cup kept
    BY DEF Merge
<1>2. kept \subseteq local \cup remote
    BY <1>1 DEF WithDirectory
<1> QED BY <1>1, <1>2

(* What is news to one side, the other brought, or its directory did.      *)
LEMMA MergeBrings ==
    ASSUME NEW b, NEW local, NEW remote, NEW tree \in Merge(b, local, remote)
    PROVE  /\ tree \ remote \subseteq (local \ b) \cup WithDirectory(b, local, remote)
           /\ b \cap InPlace(b, local, remote, tree) \subseteq remote
           /\ InPlace(b, local, remote, tree) \subseteq tree
           /\ remote \ InPlace(b, local, remote, tree) = remote \ tree
<1>1. PICK kept : /\ kept \subseteq WithDirectory(b, local, remote)
                                     \cup WithDirectory(b, remote, local)
                  /\ tree = (local \cap remote) \cup (local \ b) \cup (remote \ b) \cup kept
    BY DEF Merge
<1>2. /\ WithDirectory(b, remote, local) \subseteq remote
      /\ WithDirectory(b, local, remote) \cap remote = {}
    BY DEF WithDirectory
<1> QED BY <1>1, <1>2 DEF InPlace

LEMMA DisjointUnion ==
    ASSUME NEW A, NEW B, IsFiniteSet(A), IsFiniteSet(B), A \cap B = {}
    PROVE  /\ Cardinality(A \cup B) = Cardinality(A) + Cardinality(B)
           /\ Cardinality(A) \in Nat /\ Cardinality(B) \in Nat
<1>1. /\ Cardinality(A \cup B) = Cardinality(A) + Cardinality(B) - Cardinality(A \cap B)
      /\ Cardinality(A) \in Nat /\ Cardinality(B) \in Nat
    BY FS_Union, FS_CardinalityType
<1>2. Cardinality(A \cap B) = 0
    BY FS_EmptySet
<1> QED BY <1>1, <1>2

LEMMA ShareGrows ==
    ASSUME NEW m \in Nat, NEW n \in Nat, NEW k \in Nat, NEW g \in Nat, g <= m,
           g > 100 \/ (m + n # 0 /\ g >= (m + n + 9) \div 10)
    PROVE  g + k > 100 \/ (m + k # 0 /\ g + k >= (m + k + 9) \div 10)
<1>1. CASE g > 100
    BY <1>1
<1>2. CASE m + n # 0 /\ g >= (m + n + 9) \div 10
  <2>1. g >= 1
      BY <1>2
  <2>2. m + n + 9 < 10 * g + 10
      BY <1>2
  <2>3. m + k + 9 < 10 * (g + k) + 10
      BY <2>2
  <2>4. (m + k + 9) \div 10 <= g + k
      BY <2>3
  <2> QED BY <2>1, <2>4
<1> QED BY <1>1, <1>2

(* A client compares a merge with its base, the server would compare it    *)
(* with the Head: what is protected there is protected here.               *)
LEMMA ProtectedAgainstBase ==
    ASSUME NEW b, NEW local, NEW remote, IsFiniteSet(b), IsFiniteSet(remote),
           NEW merged \in Merge(b, local, remote), Protected(remote, merged)
    PROVE  Protected(b, InPlace(b, local, remote, merged))
<1>1. PICK tree : tree = InPlace(b, local, remote, merged)
    OBVIOUS
<1>2. PICK lost : lost = remote \ merged
    OBVIOUS
<1>3. PICK mine : mine = b \ remote
    OBVIOUS
<1>4. PICK both : both = b \cap remote
    OBVIOUS
<1>5. PICK theirs : theirs = remote \ b
    OBVIOUS
<1>6. /\ remote \ tree = lost /\ lost \subseteq b /\ b \cap tree \subseteq remote
    BY <1>1, <1>2, MergeDrops, MergeBrings
<1>7. /\ b \ tree = lost \cup mine /\ lost \cap mine = {}
      /\ b = both \cup mine /\ both \cap mine = {}
      /\ remote = both \cup theirs /\ both \cap theirs = {}
      /\ lost \subseteq both
    BY <1>3, <1>4, <1>5, <1>6
<1>8. IsFiniteSet(lost) /\ IsFiniteSet(mine) /\ IsFiniteSet(both) /\ IsFiniteSet(theirs)
    BY <1>2, <1>3, <1>4, <1>5, FS_Subset
<1>9. /\ Cardinality(b \ tree) = Cardinality(lost) + Cardinality(mine)
      /\ Cardinality(b) = Cardinality(both) + Cardinality(mine)
      /\ Cardinality(remote) = Cardinality(both) + Cardinality(theirs)
      /\ Cardinality(lost) \in Nat /\ Cardinality(mine) \in Nat
      /\ Cardinality(both) \in Nat /\ Cardinality(theirs) \in Nat
  <2>1. /\ Cardinality(b \ tree) = Cardinality(lost) + Cardinality(mine)
        /\ Cardinality(lost) \in Nat /\ Cardinality(mine) \in Nat
      BY <1>7, <1>8, DisjointUnion
  <2>2. /\ Cardinality(b) = Cardinality(both) + Cardinality(mine)
        /\ Cardinality(both) \in Nat
      BY ONLY <1>7, <1>8, DisjointUnion
  <2>3. /\ Cardinality(remote) = Cardinality(both) + Cardinality(theirs)
        /\ Cardinality(theirs) \in Nat
      BY ONLY <1>7, <1>8, DisjointUnion
  <2> QED BY <2>1, <2>2, <2>3
<1>10. Cardinality(lost) <= Cardinality(both)
    BY <1>7, <1>8, FS_Subset
<1>11. \/ Cardinality(lost) > 100
       \/ /\ Cardinality(both) + Cardinality(theirs) # 0
          /\ Cardinality(lost) >= (Cardinality(both) + Cardinality(theirs) + 9) \div 10
    BY <1>1, <1>2, <1>9 DEF Protected
<1>12. \/ Cardinality(lost) + Cardinality(mine) > 100
       \/ /\ Cardinality(both) + Cardinality(mine) # 0
          /\ Cardinality(lost) + Cardinality(mine)
                >= (Cardinality(both) + Cardinality(mine) + 9) \div 10
    BY <1>9, <1>10, <1>11, ShareGrows
<1> QED BY <1>1, <1>9, <1>12 DEF Protected

-----------------------------------------------------------------------------
(* The inductive invariant.                                                *)

(* The Sync Base and the target of a checkout are published, and a device  *)
(* lacks no file of its Sync Base but those users deleted.                 *)
PlaceInv(d) ==
    /\ worktree[d] \subseteq saved
    /\ base[d] \in 1 .. Len(commits) /\ role[base[d]] # "none"
    /\ commits[base[d]].tree \ worktree[d] \subseteq deleted
    /\ checkout[d] # NoCommit =>
          /\ checkout[d] \in 1 .. Len(commits) /\ role[checkout[d]] = "mainline"
          /\ base[d] \in Up(commits)[checkout[d]]
          /\ pending[d] = NoPending

(* The candidate of a restore hangs off the Sync Base.                     *)
RestoreRow(d) ==
    LET p == pending[d]
    IN  /\ ~ p.protected
        /\ commits[p.candidate].second = NoCommit
        /\ p.base = base[d] /\ p.expected = base[d] /\ p.captured = base[d]

(* The candidate of a sync is what was captured on the Sync Base, or the   *)
(* last of a chain of merges with Heads that descend from it.              *)
SyncRow(d) ==
    LET p == pending[d]
        captured == commits[p.captured]
    IN  /\ captured = Captured(base[d], captured.tree)
        /\ p.captured \in Chain(commits)[p.candidate]
        /\ \A c \in Chain(commits)[p.candidate] :
              base[d] \in Up(commits)[commits[c].first]
        /\ IF p.candidate = p.captured
           THEN p.base = base[d] /\ p.expected = base[d]
           ELSE p.base = commits[commits[p.candidate].second].first
        /\ Protected(commits[p.expected].tree, commits[p.candidate].tree) => p.protected

RowInv(d) ==
    LET p == pending[d]
    IN  /\ p \in Pending
        /\ p # NoPending =>
              /\ {p.candidate, p.captured, p.expected} \subseteq 1 .. Len(commits)
              /\ role[p.expected] = "mainline"
              /\ commits[p.candidate].first = p.expected
              /\ commits[p.captured].tree \ worktree[d] \subseteq deleted
              /\ p.confirmed => p.candidate \in approved
              /\ commits[p.candidate].source # NoCommit => RestoreRow(d)
              /\ commits[p.candidate].source = NoCommit => SyncRow(d)

(* What a run has read is still good for what the run does with it.        *)
RunInv(d) ==
    LET p == pending[d]
        r == run[d]
    IN  /\ r \in Run
        /\ r.scan \subseteq saved
        /\ r.confirm # NoCommit => r.confirm \in approved
        /\ r.phase \in {"scanned", "merge"} /\ p = NoPending =>
              /\ commits[base[d]].tree \ r.scan \subseteq deleted
              /\ r.scan \ worktree[d] \subseteq deleted
        /\ r.phase \in {"merge", "observe"} =>
              /\ r.seen \in 1 .. Len(commits) /\ role[r.seen] = "mainline"
              /\ base[d] \in Up(commits)[r.seen]
              /\ p # NoPending => p.expected \in Up(commits)[r.seen]
        /\ r.phase = "merge" /\ p # NoPending => commits[p.candidate].source = NoCommit
        /\ r.phase \in {"verify", "publish", "await", "observe"} => p # NoPending
        /\ r.phase \in {"verify", "publish"} =>
              (p.protected \/ commits[p.candidate].source # NoCommit => p.confirmed)
        /\ r.phase = "checkout" => checkout[d] # NoCommit
        /\ r.phase \notin {"idle", "checkout"} => checkout[d] = NoCommit

DeviceInv(d) == PlaceInv(d) /\ RowInv(d) /\ RunInv(d)

(* A candidate on its way was confirmed where that is asked for.           *)
MessageInv(m) ==
    /\ m \in [device : Devices, candidate : CommitIds, expected : CommitIds]
    /\ m.candidate \in 1 .. Len(commits)
    /\ m.expected = commits[m.candidate].first
    /\ Agreed(commits, approved, m.candidate)
    /\ Protected(commits[m.expected].tree, commits[m.candidate].tree) =>
          m.candidate \in approved

FilesInv ==
    /\ saved \subseteq Files
    /\ deleted \subseteq saved /\ dropped \subseteq saved /\ forgotten \subseteq saved

Tables ==
    /\ worktree = [d \in Devices |-> worktree[d]]
    /\ base = [d \in Devices |-> base[d]]
    /\ pending = [d \in Devices |-> pending[d]]
    /\ checkout = [d \in Devices |-> checkout[d]]
    /\ run = [d \in Devices |-> run[d]]

SInv ==
    /\ HistoryOK(commits, approved, saved, deleted)
    /\ RolesOK(commits, approved, role, head)
    /\ FilesInv
    /\ Tables
    /\ \A d \in Devices : DeviceInv(d)
    /\ \A m \in net : MessageInv(m)

-----------------------------------------------------------------------------
(* What a step leaves alone.                                               *)

(* Commits, roles, files and agreements only become more.                  *)
Grows ==
    /\ Backward(commits) /\ Backward(commits') /\ Extends(commits, commits')
    /\ Len(commits) \in CommitIds /\ Len(commits') \in CommitIds
    /\ saved \subseteq saved' /\ deleted \subseteq deleted' /\ approved \subseteq approved'
    /\ \A c \in CommitIds : role[c] = "mainline" => role'[c] = "mainline"
    /\ \A c \in CommitIds : role[c] # "none" => role'[c] # "none"

(* Files leave the worktree only as users delete them.                     *)
Edited(d) ==
    /\ worktree'[d] \subseteq saved'
    /\ worktree[d] \ worktree'[d] \subseteq deleted'

LEMMA GrowthFacts ==
    ASSUME Grows
    PROVE  /\ \A c \in 1 .. Len(commits) :
                 c \in 1 .. Len(commits') /\ c \in CommitIds /\ commits'[c] = commits[c]
           /\ \A c \in 0 .. Len(commits) : /\ Up(commits')[c] = Up(commits)[c]
                                           /\ Chain(commits')[c] = Chain(commits)[c]
           /\ \A c \in 1 .. Len(commits) : /\ commits[c].first \in 0 .. Len(commits)
                                           /\ Chain(commits)[c] \subseteq 1 .. Len(commits)
<1>1. Len(commits) \in Nat /\ Len(commits') \in Nat /\ Len(commits) <= Len(commits')
    BY DEF Grows, Backward, Extends
<1>2. 1 .. Len(commits) \subseteq CommitIds
    BY <1>1, CommitBound DEF Grows, CommitIds
<1>3. \A c \in 0 .. Len(commits) : /\ Up(commits')[c] = Up(commits)[c]
                                   /\ Chain(commits')[c] = Chain(commits)[c]
    BY HistoryStable DEF Grows
<1>4. ASSUME NEW c \in 1 .. Len(commits)
      PROVE  /\ commits[c].first \in 0 .. Len(commits)
             /\ Chain(commits)[c] \subseteq 1 .. Len(commits)
  <2>1. commits[c].first \in 0 .. c - 1
      BY DEF Grows, Backward
  <2>2. Chain(commits)[c] \subseteq Up(commits)[c] /\ Up(commits)[c] \subseteq 1 .. c
      BY <1>1, UpAlongChain, UpIsBefore DEF Grows
  <2> QED BY <1>1, <2>1, <2>2
<1>5. \A c \in 1 .. Len(commits) : c \in 1 .. Len(commits') /\ commits'[c] = commits[c]
    BY <1>1 DEF Grows, Extends
<1> QED BY <1>2, <1>3, <1>4, <1>5

LEMMA PlaceStays ==
    ASSUME Grows, NEW d \in Devices, PlaceInv(d), Edited(d),
           base'[d] = base[d], checkout'[d] = checkout[d],
           checkout[d] = NoCommit \/ pending'[d] = pending[d]
    PROVE  PlaceInv(d)'
<1>1. /\ base'[d] \in 1 .. Len(commits') /\ role'[base'[d]] # "none"
      /\ commits'[base'[d]] = commits[base[d]]
    BY GrowthFacts DEF PlaceInv, Grows
<1>2. commits'[base'[d]].tree \ worktree'[d] \subseteq deleted'
    BY <1>1 DEF PlaceInv, Edited, Grows
<1>3. checkout'[d] # NoCommit =>
          /\ checkout'[d] \in 1 .. Len(commits') /\ role'[checkout'[d]] = "mainline"
          /\ base'[d] \in Up(commits')[checkout'[d]]
          /\ pending'[d] = NoPending
  <2> SUFFICES ASSUME checkout[d] # NoCommit
               PROVE  /\ checkout[d] \in 1 .. Len(commits') /\ role'[checkout[d]] = "mainline"
                      /\ base[d] \in Up(commits')[checkout[d]]
                      /\ pending'[d] = NoPending
      OBVIOUS
  <2>1. /\ checkout[d] \in 1 .. Len(commits) /\ role[checkout[d]] = "mainline"
        /\ base[d] \in Up(commits)[checkout[d]]
        /\ pending[d] = NoPending
      BY DEF PlaceInv
  <2>2. checkout[d] \in 0 .. Len(commits) /\ checkout[d] \in CommitIds
      BY <2>1, GrowthFacts
  <2> QED BY <2>1, <2>2, GrowthFacts DEF Grows
<1> QED BY <1>1, <1>2, <1>3 DEF PlaceInv, Edited

LEMMA RowStays ==
    ASSUME Grows, NEW d \in Devices, RowInv(d), base[d] \in 1 .. Len(commits), Edited(d),
           base'[d] = base[d], pending'[d] = pending[d]
    PROVE  RowInv(d)'
<1>1. PICK p : p = pending[d]
    OBVIOUS
<1>2. SUFFICES ASSUME p # NoPending
               PROVE  /\ {p.candidate, p.captured, p.expected} \subseteq 1 .. Len(commits')
                      /\ role'[p.expected] = "mainline"
                      /\ commits'[p.candidate].first = p.expected
                      /\ commits'[p.captured].tree \ worktree'[d] \subseteq deleted'
                      /\ p.confirmed => p.candidate \in approved'
                      /\ commits'[p.candidate].source # NoCommit => RestoreRow(d)'
                      /\ commits'[p.candidate].source = NoCommit => SyncRow(d)'
    BY <1>1 DEF RowInv
<1>3. /\ p.candidate \in 1 .. Len(commits) /\ p.captured \in 1 .. Len(commits)
      /\ p.expected \in 1 .. Len(commits)
      /\ role[p.expected] = "mainline"
      /\ commits[p.candidate].first = p.expected
      /\ commits[p.captured].tree \ worktree[d] \subseteq deleted
      /\ p.confirmed => p.candidate \in approved
      /\ commits[p.candidate].source # NoCommit => RestoreRow(d)
      /\ commits[p.candidate].source = NoCommit => SyncRow(d)
    BY <1>1, <1>2 DEF RowInv
<1>4. /\ commits'[p.candidate] = commits[p.candidate]
      /\ commits'[p.captured] = commits[p.captured]
      /\ commits'[p.expected] = commits[p.expected]
      /\ {p.candidate, p.captured, p.expected} \subseteq 1 .. Len(commits')
      /\ p.expected \in CommitIds
    BY <1>3, GrowthFacts
<1>5. role'[p.expected] = "mainline"
    BY <1>3, <1>4 DEF Grows
<1>6. commits'[p.captured].tree \ worktree'[d] \subseteq deleted'
    BY <1>3, <1>4 DEF Edited, Grows
<1>7. p.confirmed => p.candidate \in approved'
    BY <1>3 DEF Grows
<1>8. commits'[p.candidate].source # NoCommit => RestoreRow(d)'
    BY <1>1, <1>3, <1>4 DEF RestoreRow
<1>9. commits'[p.candidate].source = NoCommit => SyncRow(d)'
  <2> SUFFICES ASSUME commits'[p.candidate].source = NoCommit PROVE SyncRow(d)'
      OBVIOUS
  <2>1. /\ commits[p.captured] = Captured(base[d], commits[p.captured].tree)
        /\ p.captured \in Chain(commits)[p.candidate]
        /\ \A c \in Chain(commits)[p.candidate] :
              base[d] \in Up(commits)[commits[c].first]
        /\ IF p.candidate = p.captured
           THEN p.base = base[d] /\ p.expected = base[d]
           ELSE p.base = commits[commits[p.candidate].second].first
        /\ Protected(commits[p.expected].tree, commits[p.candidate].tree) => p.protected
      BY <1>1, <1>3, <1>4 DEF SyncRow
  <2>2. Chain(commits')[p.candidate] = Chain(commits)[p.candidate]
      BY <1>3, GrowthFacts
  <2>3. \A c \in Chain(commits')[p.candidate] :
            base[d] \in Up(commits')[commits'[c].first]
    <3> SUFFICES ASSUME NEW c \in Chain(commits)[p.candidate]
                 PROVE  base[d] \in Up(commits')[commits'[c].first]
        BY <2>2
    <3>1. c \in 1 .. Len(commits)
        BY <1>3, GrowthFacts
    <3>2. commits'[c] = commits[c] /\ commits[c].first \in 0 .. Len(commits)
        BY <3>1, GrowthFacts
    <3>3. Up(commits')[commits[c].first] = Up(commits)[commits[c].first]
        BY <3>2, GrowthFacts
    <3> QED BY <2>1, <3>2, <3>3
  <2>4. p.candidate # p.captured => p.base = commits'[commits'[p.candidate].second].first
    <3> SUFFICES ASSUME p.candidate # p.captured
                 PROVE  p.base = commits'[commits[p.candidate].second].first
        BY <1>4
    <3>1. p.captured \in Chain(commits)[commits[p.candidate].second]
        BY <1>3, <2>1, ChainUnfolds DEF Grows
    <3>2. commits[p.candidate].second \in 0 .. p.candidate - 1
        BY <1>3 DEF Grows, Backward
    <3>3. Chain(commits)[0] = {}
        BY ChainUnfolds DEF Grows
    <3>4. commits[p.candidate].second \in 1 .. Len(commits)
        BY <1>3, <3>1, <3>2, <3>3 DEF Grows, Backward
    <3>5. commits'[commits[p.candidate].second] = commits[commits[p.candidate].second]
        BY <3>4, GrowthFacts
    <3> QED BY <2>1, <3>5
  <2> QED BY <1>1, <1>4, <2>1, <2>2, <2>3, <2>4 DEF SyncRow
<1> QED BY <1>3, <1>4, <1>5, <1>6, <1>7, <1>8, <1>9

LEMMA RunStays ==
    ASSUME Grows, NEW d \in Devices, DeviceInv(d), Edited(d),
           base'[d] = base[d], pending'[d] = pending[d], checkout'[d] = checkout[d],
           run'[d] = run[d]
    PROVE  RunInv(d)'
<1>1. PICK p : p = pending[d]
    OBVIOUS
<1>2. PICK r : r = run[d]
    OBVIOUS
<1>3. /\ base[d] \in 1 .. Len(commits)
      /\ p # NoPending => p.candidate \in 1 .. Len(commits)
    BY <1>1 DEF DeviceInv, PlaceInv, RowInv
<1>4. /\ r \in Run
      /\ r.scan \subseteq saved
      /\ r.confirm # NoCommit => r.confirm \in approved
      /\ r.phase \in {"scanned", "merge"} /\ p = NoPending =>
            /\ commits[base[d]].tree \ r.scan \subseteq deleted
            /\ r.scan \ worktree[d] \subseteq deleted
      /\ r.phase \in {"merge", "observe"} =>
            /\ r.seen \in 1 .. Len(commits) /\ role[r.seen] = "mainline"
            /\ base[d] \in Up(commits)[r.seen]
            /\ p # NoPending => p.expected \in Up(commits)[r.seen]
      /\ r.phase = "merge" /\ p # NoPending => commits[p.candidate].source = NoCommit
      /\ r.phase \in {"verify", "publish", "await", "observe"} => p # NoPending
      /\ r.phase \in {"verify", "publish"} =>
            (p.protected \/ commits[p.candidate].source # NoCommit => p.confirmed)
      /\ r.phase = "checkout" => checkout[d] # NoCommit
      /\ r.phase \notin {"idle", "checkout"} => checkout[d] = NoCommit
    BY <1>1, <1>2 DEF DeviceInv, RunInv
<1>5. /\ commits'[base[d]] = commits[base[d]]
      /\ p # NoPending => commits'[p.candidate] = commits[p.candidate]
    BY <1>3, GrowthFacts
<1>6. /\ r.scan \subseteq saved'
      /\ r.confirm # NoCommit => r.confirm \in approved'
      /\ r.phase \in {"scanned", "merge"} /\ p = NoPending =>
            /\ commits'[base[d]].tree \ r.scan \subseteq deleted'
            /\ r.scan \ worktree'[d] \subseteq deleted'
    BY <1>4, <1>5 DEF Grows, Edited
<1>7. r.phase \in {"merge", "observe"} =>
          /\ r.seen \in 1 .. Len(commits') /\ role'[r.seen] = "mainline"
          /\ base[d] \in Up(commits')[r.seen]
          /\ p # NoPending => p.expected \in Up(commits')[r.seen]
  <2> SUFFICES ASSUME r.phase \in {"merge", "observe"}
               PROVE  /\ r.seen \in 1 .. Len(commits') /\ role'[r.seen] = "mainline"
                      /\ base[d] \in Up(commits')[r.seen]
                      /\ p # NoPending => p.expected \in Up(commits')[r.seen]
      OBVIOUS
  <2>1. r.seen \in 1 .. Len(commits) /\ r.seen \in 0 .. Len(commits) /\ r.seen \in CommitIds
      BY <1>4, GrowthFacts
  <2> QED BY <1>4, <2>1, GrowthFacts DEF Grows
<1>8. /\ r.phase = "merge" /\ p # NoPending => commits'[p.candidate].source = NoCommit
      /\ r.phase \in {"verify", "publish"} =>
            (p.protected \/ commits'[p.candidate].source # NoCommit => p.confirmed)
    BY <1>4, <1>5
<1> QED BY <1>1, <1>2, <1>4, <1>6, <1>7, <1>8 DEF RunInv

LEMMA MessageStays ==
    ASSUME Grows, NEW m, MessageInv(m)
    PROVE  MessageInv(m)'
<1>1. /\ m.candidate \in 1 .. Len(commits)
      /\ m.expected \in CommitIds
    BY DEF MessageInv
<1>2. commits[m.candidate].first \in 0 .. Len(commits)
    BY <1>1, GrowthFacts
<1>3. m.expected \in 1 .. Len(commits)
    BY <1>1, <1>2, CommitBound DEF CommitIds, MessageInv, Grows, Backward
<1>4. /\ m.candidate \in 1 .. Len(commits')
      /\ commits'[m.candidate] = commits[m.candidate]
      /\ commits'[m.expected] = commits[m.expected]
    BY <1>1, <1>3, GrowthFacts
<1> QED BY <1>4 DEF MessageInv, Agreed, Grows

-----------------------------------------------------------------------------
(* The steps.                                                              *)

(* A step of device d.                                                     *)
Only(d) ==
    /\ Tables'
    /\ \A e \in Devices \ {d} :
          /\ worktree'[e] = worktree[e] /\ base'[e] = base[e] /\ pending'[e] = pending[e]
          /\ checkout'[e] = checkout[e] /\ run'[e] = run[e]

LEMMA HistoryParts ==
    ASSUME SInv
    PROVE  /\ Backward(commits) /\ Len(commits) \in CommitIds /\ Len(commits) \in Nat
           /\ commits \in Seq(Commit) /\ 1 .. Len(commits) \subseteq CommitIds
           /\ approved \subseteq 1 .. Len(commits)
           /\ \A c \in 1 .. Len(commits) :
                 /\ commits[c].tree \subseteq saved
                 /\ commits[c].tree \subseteq Files
                 /\ commits[c] \in Commit
<1>1. HistoryOK(commits, approved, saved, deleted) /\ FilesInv
    BY DEF SInv
<1>2. /\ Backward(commits) /\ Len(commits) \in CommitIds
      /\ commits \in Seq(Commit)
      /\ approved \subseteq 1 .. Len(commits)
      /\ \A c \in 1 .. Len(commits) : commits[c].tree \subseteq saved
    BY <1>1 DEF HistoryOK
<1>3. /\ Len(commits) \in Nat /\ 1 .. Len(commits) \subseteq CommitIds
      /\ \A c \in 1 .. Len(commits) : commits[c] \in Commit
    BY <1>2, CommitTypes
<1> QED BY <1>1, <1>2, <1>3 DEF FilesInv

LEMMA MoreFilesGrow ==
    ASSUME SInv, commits' = commits, role' = role,
           saved \subseteq saved', deleted \subseteq deleted', approved \subseteq approved'
    PROVE  Grows
<1>1. Backward(commits) /\ Len(commits) \in CommitIds /\ Len(commits) \in Nat
    BY HistoryParts
<1>2. Extends(commits, commits)
    BY <1>1 DEF Extends
<1> QED BY <1>1, <1>2 DEF Grows

LEMMA MoreCommitsGrow ==
    ASSUME SInv, HistoryOK(commits', approved', saved', deleted'), Extends(commits, commits'),
           role' = role,
           saved \subseteq saved', deleted \subseteq deleted', approved \subseteq approved'
    PROVE  Grows
    BY HistoryParts DEF Grows, HistoryOK

LEMMA DeviceStep ==
    ASSUME SInv, NEW d \in Devices, Only(d), Grows,
           HistoryOK(commits', approved', saved', deleted'),
           role' = role, head' = head,
           FilesInv', DeviceInv(d)',
           \A m \in net' : m \in net \/ MessageInv(m)'
    PROVE  SInv'
<1>1. RolesOK(commits', approved', role', head')
  <2>1. RolesOK(commits, approved, role, head) /\ Backward(commits) /\ Backward(commits')
      BY DEF SInv, Grows
  <2>2. \A c \in CommitIds : role[c] # "none" => c \in 1 .. Len(commits)
      BY <2>1, NoRoleInAdvance
  <2>3. Len(commits) \in Nat /\ Len(commits') \in Nat /\ 1 .. Len(commits') \subseteq CommitIds
      BY <2>1, CommitBound DEF Grows, Backward, CommitIds
  <2>4. \A c \in 1 .. Len(commits') : c > Len(commits) => role[c] # "mainline"
      BY <2>2, <2>3
  <2> QED BY <2>1, <2>4, MoreCommitsKeepRoles DEF Grows
<1>2. ASSUME NEW e \in Devices PROVE DeviceInv(e)'
  <2>1. CASE e = d
      BY <2>1
  <2>2. CASE e # d
    <3>1. /\ worktree'[e] = worktree[e] /\ base'[e] = base[e] /\ pending'[e] = pending[e]
          /\ checkout'[e] = checkout[e] /\ run'[e] = run[e]
        BY <2>2 DEF Only
    <3>2. DeviceInv(e)
        BY DEF SInv
    <3>3. Edited(e)
        BY <3>1, <3>2 DEF Edited, DeviceInv, PlaceInv, Grows
    <3>4. base[e] \in 1 .. Len(commits)
        BY <3>2 DEF DeviceInv, PlaceInv
    <3>5. PlaceInv(e)' /\ RowInv(e)' /\ RunInv(e)'
        BY <3>1, <3>2, <3>3, <3>4, PlaceStays, RowStays, RunStays DEF DeviceInv
    <3> QED BY <3>5 DEF DeviceInv
  <2> QED BY <2>1, <2>2
<1>3. ASSUME NEW m \in net' PROVE MessageInv(m)'
    BY MessageStays DEF SInv
<1> QED BY <1>1, <1>2, <1>3 DEF SInv, Only

(* Most steps of a device change no commits, files or agreements.          *)
Quiet(d) ==
    /\ Only(d)
    /\ commits' = commits /\ role' = role /\ head' = head /\ dropped' = dropped
    /\ saved' = saved /\ deleted' = deleted /\ approved' = approved
    /\ worktree' = worktree

LEMMA QuietStep ==
    ASSUME SInv, NEW d \in Devices, Quiet(d), forgotten' \subseteq saved,
           DeviceInv(d)', \A m \in net' : m \in net \/ MessageInv(m)'
    PROVE  SInv'
<1>1. Grows
    BY MoreFilesGrow DEF Quiet
<1>2. HistoryOK(commits', approved', saved', deleted') /\ FilesInv' /\ Only(d)
    BY DEF SInv, Quiet, FilesInv
<1> QED BY <1>1, <1>2, DeviceStep DEF Quiet

LEMMA QuietFacts ==
    ASSUME SInv, NEW d \in Devices, Quiet(d)
    PROVE  /\ Grows /\ Edited(d) /\ DeviceInv(d)
           /\ PlaceInv(d) /\ RowInv(d) /\ RunInv(d)
           /\ base[d] \in 1 .. Len(commits)
           /\ worktree'[d] = worktree[d]
<1>1. DeviceInv(d)
    BY DEF SInv
<1>2. Grows
    BY MoreFilesGrow DEF Quiet
<1> QED BY <1>1, <1>2 DEF Quiet, DeviceInv, PlaceInv, Edited

LEMMA EndedFits ==
    ASSUME NEW d \in Devices, run'[d] = Ended
    PROVE  RunInv(d)'
<1>1. Ended \in Run
    BY DEF Ended, Run, Phases
<1> QED BY <1>1 DEF RunInv, Ended

(* A device whose rows stay, whatever its run does.                        *)
LEMMA RowsUnchanged ==
    ASSUME SInv, NEW d \in Devices, Quiet(d),
           base'[d] = base[d], pending'[d] = pending[d], checkout'[d] = checkout[d],
           RunInv(d)'
    PROVE  DeviceInv(d)'
    BY QuietFacts, PlaceStays, RowStays DEF DeviceInv

(* How the tables of the devices change.                                   *)
Changes(f, g, d) == g = f \/ \E v : g = [f EXCEPT ![d] = v]

LEMMA EntryAt ==
    ASSUME NEW S, NEW f, f = [x \in S |-> f[x]], NEW d \in S, NEW g, NEW v,
           g = [f EXCEPT ![d] = v]
    PROVE  g[d] = v
    OBVIOUS

LEMMA OtherEntries ==
    ASSUME NEW S, NEW f, f = [x \in S |-> f[x]], NEW d \in S, NEW g, Changes(f, g, d)
    PROVE  g = [x \in S |-> g[x]] /\ \A e \in S \ {d} : g[e] = f[e]
<1>1. CASE g = f
    BY <1>1
<1>2. CASE \E v : g = [f EXCEPT ![d] = v]
  <2>1. PICK v : g = [f EXCEPT ![d] = v]
      BY <1>2
  <2>2. g = [x \in S |-> IF x = d THEN v ELSE f[x]]
      BY <2>1
  <2> QED BY <2>2
<1> QED BY <1>1, <1>2 DEF Changes

LEMMA OnlyAt ==
    ASSUME Tables, NEW d \in Devices,
           Changes(worktree, worktree', d), Changes(base, base', d),
           Changes(pending, pending', d), Changes(checkout, checkout', d),
           Changes(run, run', d)
    PROVE  Only(d)
<1>1. /\ worktree' = [e \in Devices |-> worktree'[e]]
      /\ \A e \in Devices \ {d} : worktree'[e] = worktree[e]
    BY OtherEntries DEF Tables
<1>2. /\ base' = [e \in Devices |-> base'[e]]
      /\ \A e \in Devices \ {d} : base'[e] = base[e]
    BY OtherEntries DEF Tables
<1>3. /\ pending' = [e \in Devices |-> pending'[e]]
      /\ \A e \in Devices \ {d} : pending'[e] = pending[e]
    BY OtherEntries DEF Tables
<1>4. /\ checkout' = [e \in Devices |-> checkout'[e]]
      /\ \A e \in Devices \ {d} : checkout'[e] = checkout[e]
    BY OtherEntries DEF Tables
<1>5. /\ run' = [e \in Devices |-> run'[e]]
      /\ \A e \in Devices \ {d} : run'[e] = run[e]
    BY OtherEntries DEF Tables
<1> QED BY <1>1, <1>2, <1>3, <1>4, <1>5 DEF Only, Tables

LEMMA RunOnly ==
    ASSUME SInv, NEW d \in Devices, NEW r, run' = [run EXCEPT ![d] = r],
           worktree' = worktree, base' = base, pending' = pending, checkout' = checkout
    PROVE  /\ Only(d) /\ run'[d] = r
           /\ base'[d] = base[d] /\ pending'[d] = pending[d] /\ checkout'[d] = checkout[d]
<1>1. Changes(run, run', d)
    BY DEF Changes
<1>2. Only(d)
    BY <1>1, OnlyAt DEF Changes, SInv
<1> QED BY <1>2, EntryAt DEF Tables, SInv

LEMMA StopStep ==
    ASSUME SInv, NEW d \in Devices, Stop(d)
    PROVE  SInv'
<1>1. /\ run' = [run EXCEPT ![d] = Ended]
      /\ UNCHANGED <<commits, serverVars, net, userVars, rowVars, historyVars>>
    BY DEF Stop, End
<1>2. Quiet(d) /\ run'[d] = Ended
  <2>1. Only(d) /\ run'[d] = Ended
      BY <1>1, RunOnly DEF userVars, rowVars
  <2> QED BY <1>1, <2>1 DEF Quiet, serverVars, userVars, historyVars
<1>3. RunInv(d)'
    BY <1>2, EndedFits
<1>4. DeviceInv(d)'
    BY <1>1, <1>2, <1>3, RowsUnchanged DEF rowVars
<1> QED BY <1>1, <1>2, <1>4, QuietStep DEF historyVars, SInv, FilesInv

LEMMA VerifyStep ==
    ASSUME SInv, NEW d \in Devices, Verify(d)
    PROVE  SInv'
<1> DEFINE r == IF worktree[d] = CapturedTree(d) THEN [run[d] EXCEPT !.phase = "publish"]
                ELSE Ended
<1>1. /\ run' = [run EXCEPT ![d] = r]
      /\ UNCHANGED <<commits, serverVars, net, userVars, rowVars, historyVars>>
      /\ run[d].phase = "verify"
    BY DEF Verify, End, Goto, At
<1>2. /\ Quiet(d) /\ run'[d] = r
      /\ base'[d] = base[d] /\ pending'[d] = pending[d] /\ checkout'[d] = checkout[d]
  <2> HIDE DEF r
  <2>1. /\ Only(d) /\ run'[d] = r
        /\ base'[d] = base[d] /\ pending'[d] = pending[d] /\ checkout'[d] = checkout[d]
      BY <1>1, RunOnly DEF userVars, rowVars
  <2> QED BY <1>1, <2>1 DEF Quiet, serverVars, userVars, historyVars
<1>3. RunInv(d)'
  <2>1. CASE worktree[d] = CapturedTree(d)
    <3>1. /\ run[d] \in Run /\ run[d].phase = "verify"
          /\ run'[d] = [run[d] EXCEPT !.phase = "publish"]
          /\ RunInv(d)
        BY <1>1, <1>2, <2>1, QuietFacts DEF RunInv
    <3>2. /\ run'[d] \in Run /\ run'[d].phase = "publish"
          /\ run'[d].scan = run[d].scan /\ run'[d].confirm = run[d].confirm
        BY <3>1 DEF Run, Phases
    <3> QED BY <1>1, <1>2, <3>1, <3>2 DEF RunInv, userVars, historyVars
  <2>2. CASE worktree[d] # CapturedTree(d)
      BY <1>2, <2>2, EndedFits
  <2> QED BY <2>1, <2>2
<1>4. DeviceInv(d)'
    BY <1>2, <1>3, RowsUnchanged
<1> QED BY <1>1, <1>2, <1>4, QuietStep DEF historyVars, SInv, FilesInv

(* A commit with a role is one the Head descends from, and the other way.  *)
LEMMA Roles ==
    ASSUME SInv
    PROVE  /\ head \in 1 .. Len(commits) /\ role[head] = "mainline"
           /\ Agreed(commits, approved, head)
           /\ \A c \in 1 .. Len(commits) : role[c] # "none" => c \in Up(commits)[head]
           /\ \A c \in Up(commits)[head] :
                 c \in 1 .. Len(commits) /\ role[c] # "none" /\ Agreed(commits, approved, c)
<1>1. RolesOK(commits, approved, role, head) /\ HistoryOK(commits, approved, saved, deleted)
    BY DEF SInv
<1>2. head \in 1 .. Len(commits) /\ role[head] = "mainline" /\ Agreed(commits, approved, head)
    BY <1>1 DEF RolesOK
<1>3. \A c \in 1 .. Len(commits) : role[c] # "none" => c \in Up(commits)[head]
    BY <1>1, HistoryParts DEF RolesOK
<1>4. ASSUME NEW c \in Up(commits)[head]
      PROVE  c \in 1 .. Len(commits) /\ role[c] # "none" /\ Agreed(commits, approved, c)
  <2>1. Up(commits)[head] \subseteq 1 .. head /\ Len(commits) \in Nat
      BY <1>2, HistoryParts, UpIsBefore
  <2>2. c \in 1 .. Len(commits)
      BY <1>2, <2>1
  <2>3. role[c] # "none"
      BY <1>1, <2>2, HistoryParts DEF RolesOK
  <2>4. Agreed(commits, approved, c)
      BY <1>1, <1>2, AncestorsAgreed, HistoryParts
  <2> QED BY <2>2, <2>3, <2>4
<1> QED BY <1>2, <1>3, <1>4

LEMMA RereadStep ==
    ASSUME SInv, NEW d \in Devices, Reread(d)
    PROVE  SInv'
<1> DEFINE r == [run[d] EXCEPT !.phase = "observe", !.seen = head]
<1>1. /\ run' = [run EXCEPT ![d] = r]
      /\ UNCHANGED <<commits, serverVars, net, userVars, rowVars, historyVars>>
      /\ run[d].phase = "await"
    BY DEF Reread, At
<1>2. /\ Quiet(d) /\ run'[d] = r
      /\ base'[d] = base[d] /\ pending'[d] = pending[d] /\ checkout'[d] = checkout[d]
  <2> HIDE DEF r
  <2>1. /\ Only(d) /\ run'[d] = r
        /\ base'[d] = base[d] /\ pending'[d] = pending[d] /\ checkout'[d] = checkout[d]
      BY <1>1, RunOnly DEF userVars, rowVars
  <2> QED BY <1>1, <2>1 DEF Quiet, serverVars, userVars, historyVars
<1>3. PlaceInv(d) /\ RowInv(d) /\ RunInv(d)
    BY <1>2, QuietFacts
<1>4. head \in 1 .. Len(commits) /\ head \in CommitIds /\ role[head] = "mainline"
    BY Roles, HistoryParts
<1>5. /\ run'[d] \in Run /\ run'[d].phase = "observe"
      /\ run'[d].scan = run[d].scan /\ run'[d].confirm = run[d].confirm
      /\ run'[d].seen = head
    BY <1>2, <1>3, <1>4 DEF Run, Phases, RunInv
<1>6. base[d] \in Up(commits)[head]
    BY <1>3, Roles DEF PlaceInv
<1>7. pending[d] # NoPending => pending[d].expected \in Up(commits)[head]
    BY <1>3, Roles DEF RowInv
<1>8. RunInv(d)'
  <2>1. pending[d] # NoPending /\ checkout[d] = NoCommit
      BY <1>1, <1>3 DEF RunInv
  <2> QED BY <1>1, <1>2, <1>3, <1>4, <1>5, <1>6, <1>7, <2>1
          DEF RunInv, userVars, historyVars, serverVars
<1>9. DeviceInv(d)'
    BY <1>2, <1>8, RowsUnchanged
<1> QED BY <1>1, <1>2, <1>9, QuietStep DEF historyVars, SInv, FilesInv

LEMMA SaveStep ==
    ASSUME SInv, NEW d \in Devices, NEW f \in Files, Save(d, f)
    PROVE  SInv'
<1>1. /\ worktree' = [worktree EXCEPT ![d] = worktree[d] \cup {f}]
      /\ saved' = saved \cup {f}
      /\ UNCHANGED <<commits, serverVars, net, deleted, rowVars, run, historyVars>>
    BY DEF Save
<1>2. Only(d) /\ worktree'[d] = worktree[d] \cup {f}
  <2>1. Changes(worktree, worktree', d)
      BY <1>1 DEF Changes
  <2>2. Only(d)
      BY <1>1, <2>1, OnlyAt DEF Changes, SInv, rowVars
  <2> QED BY <1>1, <2>2, EntryAt DEF SInv, Tables
<1>3. Grows
    BY <1>1, MoreFilesGrow DEF serverVars, historyVars
<1>4. HistoryOK(commits', approved', saved', deleted')
    BY <1>1, MoreFilesKeepHistory DEF SInv, historyVars
<1>5. DeviceInv(d) /\ Edited(d) /\ base[d] \in 1 .. Len(commits)
    BY <1>1, <1>2 DEF SInv, DeviceInv, PlaceInv, Edited
<1>6. DeviceInv(d)'
    BY <1>1, <1>3, <1>5, PlaceStays, RowStays, RunStays DEF DeviceInv, rowVars
<1>7. FilesInv'
    BY <1>1 DEF SInv, FilesInv, serverVars, historyVars
<1> QED BY <1>1, <1>2, <1>3, <1>4, <1>6, <1>7, DeviceStep DEF serverVars

LEMMA DeleteStep ==
    ASSUME SInv, NEW d \in Devices, NEW f \in Files, Delete(d, f)
    PROVE  SInv'
<1>1. /\ worktree' = [worktree EXCEPT ![d] = worktree[d] \ {f}]
      /\ f \in worktree[d] /\ deleted' = deleted \cup {f}
      /\ UNCHANGED <<commits, serverVars, net, saved, rowVars, run, historyVars>>
    BY DEF Delete
<1>2. Only(d) /\ worktree'[d] = worktree[d] \ {f}
  <2>1. Changes(worktree, worktree', d)
      BY <1>1 DEF Changes
  <2>2. Only(d)
      BY <1>1, <2>1, OnlyAt DEF Changes, SInv, rowVars
  <2> QED BY <1>1, <2>2, EntryAt DEF SInv, Tables
<1>3. Grows
    BY <1>1, MoreFilesGrow DEF serverVars, historyVars
<1>4. HistoryOK(commits', approved', saved', deleted')
    BY <1>1, MoreFilesKeepHistory DEF SInv, historyVars
<1>5. DeviceInv(d) /\ Edited(d) /\ base[d] \in 1 .. Len(commits) /\ f \in saved
    BY <1>1, <1>2 DEF SInv, DeviceInv, PlaceInv, Edited
<1>6. DeviceInv(d)'
    BY <1>1, <1>3, <1>5, PlaceStays, RowStays, RunStays DEF DeviceInv, rowVars
<1>7. FilesInv'
    BY <1>1, <1>5 DEF SInv, FilesInv, serverVars, historyVars
<1> QED BY <1>1, <1>2, <1>3, <1>4, <1>6, <1>7, DeviceStep DEF serverVars

LEMMA BeginStep ==
    ASSUME SInv, NEW d \in Devices, NEW confirm \in {NoCommit, pending[d].candidate},
           Begin(d, confirm)
    PROVE  SInv'
<1> DEFINE more == {confirm} \ {NoCommit}
           r == IF checkout[d] # NoCommit THEN [Ended EXCEPT !.phase = "checkout"]
                ELSE [phase |-> "scanned", scan |-> worktree[d], seen |-> NoCommit,
                      confirm |-> confirm]
<1>1. /\ run' = [run EXCEPT ![d] = r]
      /\ approved' = approved \cup more
      /\ UNCHANGED <<commits, serverVars, net, userVars, rowVars, forgotten>>
      /\ confirm = NoCommit \/ (confirm = pending[d].candidate /\ pending[d].protected)
    BY DEF Begin
<1>2. /\ Only(d) /\ run'[d] = r /\ worktree'[d] = worktree[d]
      /\ base'[d] = base[d] /\ pending'[d] = pending[d] /\ checkout'[d] = checkout[d]
  <2> HIDE DEF r, more
  <2> QED BY <1>1, RunOnly DEF userVars, rowVars
<1>3. DeviceInv(d) /\ PlaceInv(d) /\ RowInv(d) /\ RunInv(d)
    BY DEF SInv, DeviceInv
<1>4. more \subseteq 1 .. Len(commits) /\ \A c \in more : commits[c].source = NoCommit
  <2> SUFFICES ASSUME confirm # NoCommit
               PROVE  confirm \in 1 .. Len(commits) /\ commits[confirm].source = NoCommit
      OBVIOUS
  <2>1. confirm = pending[d].candidate /\ pending[d].protected /\ pending[d] # NoPending
      BY <1>1 DEF NoPending
  <2>2. pending[d].candidate \in 1 .. Len(commits)
      BY <1>3, <2>1 DEF RowInv
  <2>3. commits[pending[d].candidate].source # NoCommit => ~ pending[d].protected
      BY <1>3, <2>1 DEF RowInv, RestoreRow
  <2> QED BY <2>1, <2>2, <2>3
<1>5. HistoryOK(commits', approved', saved', deleted')
  <2>1. HistoryOK(commits, approved, saved, deleted)
      BY DEF SInv
  <2> HIDE DEF more
  <2>2. HistoryOK(commits, approved \cup more, saved, deleted)
      BY <1>4, <2>1, AgreeingKeepsHistory
  <2> QED BY <1>1, <2>2 DEF userVars
<1>6. Grows
    BY <1>1, MoreFilesGrow DEF serverVars, userVars
<1>7. confirm \in {NoCommit} \cup CommitIds
    BY <1>4, HistoryParts
<1>8. RunInv(d)'
  <2>1. CASE checkout[d] # NoCommit
    <3>1. /\ run'[d] \in Run /\ run'[d].phase = "checkout" /\ run'[d].scan = {}
          /\ run'[d].confirm = NoCommit
        BY <1>2, <2>1 DEF Ended, Run, Phases
    <3> QED BY <1>2, <2>1, <3>1 DEF RunInv
  <2>2. CASE checkout[d] = NoCommit
    <3>1. /\ run'[d].phase = "scanned" /\ run'[d].scan = worktree[d]
          /\ run'[d].confirm = confirm
        BY <1>2, <2>2
    <3>2. run'[d] \in Run
        BY <1>2, <1>3, <1>7, <2>2 DEF Run, Phases, PlaceInv, SInv, FilesInv
    <3>3. confirm # NoCommit => confirm \in approved'
        BY <1>1
    <3> QED BY <1>1, <1>2, <1>3, <2>2, <3>1, <3>2, <3>3
            DEF RunInv, PlaceInv, userVars, rowVars
  <2> QED BY <2>1, <2>2
<1>9. Edited(d) /\ base[d] \in 1 .. Len(commits)
    BY <1>1, <1>2, <1>3 DEF Edited, PlaceInv, userVars
<1>10. DeviceInv(d)'
    BY <1>2, <1>3, <1>6, <1>8, <1>9, PlaceStays, RowStays DEF DeviceInv
<1>11. FilesInv'
    BY <1>1 DEF SInv, FilesInv, serverVars, userVars
<1> QED BY <1>1, <1>2, <1>5, <1>6, <1>10, <1>11, DeviceStep DEF serverVars

LEMMA ApplyStep ==
    ASSUME SInv, NEW d \in Devices, Apply(d)
    PROVE  SInv'
<1>1. /\ run[d].phase = "checkout"
      /\ checkout' = [checkout EXCEPT ![d] = NoCommit]
      /\ run' = [run EXCEPT ![d] = Ended]
      /\ UNCHANGED <<commits, serverVars, net, saved, deleted, pending, historyVars>>
      /\ \/ /\ worktree[d] = Tree(base[d])
            /\ worktree' = [worktree EXCEPT ![d] = Tree(checkout[d])]
            /\ base' = [base EXCEPT ![d] = checkout[d]]
         \/ UNCHANGED <<worktree, base>>
    BY DEF Apply, At, End
<1>2. /\ Only(d) /\ run'[d] = Ended /\ checkout'[d] = NoCommit /\ pending'[d] = pending[d]
      /\ \/ worktree'[d] = Tree(checkout[d]) /\ base'[d] = checkout[d]
         \/ worktree'[d] = worktree[d] /\ base'[d] = base[d]
  <2>1. /\ Changes(worktree, worktree', d) /\ Changes(base, base', d)
        /\ Changes(checkout, checkout', d) /\ Changes(run, run', d)
      BY <1>1 DEF Changes
  <2>2. Only(d)
      BY <1>1, <2>1, OnlyAt DEF Changes, SInv
  <2> QED BY <1>1, <2>2, EntryAt DEF SInv, Tables
<1>3. DeviceInv(d) /\ PlaceInv(d) /\ RowInv(d) /\ RunInv(d)
    BY DEF SInv, DeviceInv
<1>4. /\ checkout[d] \in 1 .. Len(commits) /\ role[checkout[d]] = "mainline"
      /\ pending[d] = NoPending
    BY <1>1, <1>3 DEF PlaceInv, RunInv
<1>5. Grows
    BY <1>1, MoreFilesGrow DEF serverVars, historyVars
<1>6. PlaceInv(d)'
    BY <1>1, <1>2, <1>3, <1>4, HistoryParts DEF PlaceInv, Tree, serverVars, historyVars
<1>7. RowInv(d)'
    BY <1>2, <1>3, <1>4 DEF RowInv
<1>8. RunInv(d)'
    BY <1>2, EndedFits
<1>9. HistoryOK(commits', approved', saved', deleted') /\ FilesInv'
    BY <1>1 DEF SInv, FilesInv, serverVars, historyVars
<1> QED BY <1>1, <1>2, <1>5, <1>6, <1>7, <1>8, <1>9, DeviceStep DEF DeviceInv, serverVars

-----------------------------------------------------------------------------
(* The server.                                                             *)

LEMMA LosePutStep ==
    ASSUME SInv, NEW m \in net, LosePut(m)
    PROVE  SInv'
    BY DEF LosePut, SInv, HistoryOK, RolesOK, FilesInv, Tables, MessageInv, DeviceInv,
           PlaceInv, RowInv, RestoreRow, SyncRow, RunInv, serverVars, userVars, rowVars,
           historyVars

(* What the server accepts follows the Head, and was agreed to.            *)
LEMMA AcceptedFacts ==
    ASSUME SInv, NEW m \in net, MeetsHead(m), Accepts(m.candidate)
    PROVE  /\ m.candidate \in 1 .. Len(commits)
           /\ commits[m.candidate].first = head
           /\ head \in Up(commits)[m.candidate]
           /\ Agreed(commits, approved, m.candidate)
           /\ commits[head].tree \ commits[m.candidate].tree \subseteq deleted
           /\ Protected(commits[head].tree, commits[m.candidate].tree) =>
                 m.candidate \in approved
<1>1. /\ m.candidate \in 1 .. Len(commits) /\ m.expected = head
      /\ commits[m.candidate].first = head
      /\ Agreed(commits, approved, m.candidate)
      /\ Protected(commits[head].tree, commits[m.candidate].tree) =>
            m.candidate \in approved
    BY DEF SInv, MessageInv, MeetsHead, Accepts
<1>2. Backward(commits) /\ Len(commits) \in Nat /\ head \in 1 .. Len(commits)
    BY HistoryParts, Roles
<1>3. /\ Up(commits)[head] = {head} \cup Up(commits)[commits[head].first]
                                    \cup Up(commits)[commits[head].second]
      /\ Up(commits)[m.candidate] = {m.candidate} \cup Up(commits)[head]
                                        \cup Up(commits)[commits[m.candidate].second]
    BY <1>1, <1>2, UpUnfolds
<1>4. head \in Up(commits)[m.candidate]
    BY <1>3
<1>5. commits[head].tree \ commits[m.candidate].tree \subseteq deleted
    BY <1>1, <1>4 DEF SInv, HistoryOK
<1> QED BY <1>1, <1>4, <1>5

LEMMA HandlePutStep ==
    ASSUME SInv, NEW m \in net, HandlePut(m)
    PROVE  SInv'
<1>1. CASE ~ (MeetsHead(m) /\ Accepts(m.candidate))
  <2>1. LosePut(m)
      BY <1>1 DEF HandlePut, LosePut
  <2> QED BY <2>1, LosePutStep
<1>2. CASE MeetsHead(m) /\ Accepts(m.candidate)
  <2>1. PICK c : c = m.candidate
      OBVIOUS
  <2>2. /\ net' = net \ {m} /\ head' = c
        /\ role' = NewRoles(commits, role, c)
        /\ dropped' = (dropped \ Returned(c)) \cup (Tree(head) \ Tree(c))
        /\ UNCHANGED <<commits, userVars, rowVars, run, historyVars>>
      BY <1>2, <2>1, SecondChainIsChain DEF HandlePut, NewRoles
  <2>3. /\ c \in 1 .. Len(commits) /\ commits[c].first = head
        /\ Agreed(commits, approved, c)
      BY <1>2, <2>1, AcceptedFacts
  <2>4. \A s \in Chain(commits)[commits[c].second] :
            /\ role[s] = "none"
            /\ commits[s].first # NoCommit
            /\ role[commits[s].first] = "mainline"
      BY <1>2, <2>1, SecondChainIsChain DEF Accepts
  <2>5. /\ RolesOK(commits, approved, role', head')
        /\ \A x \in CommitIds : role[x] = "mainline" => role'[x] = "mainline"
        /\ \A x \in CommitIds : role[x] # "none" => role'[x] # "none"
      BY <2>2, <2>3, <2>4, HistoryParts, PublicationKeepsRoles DEF SInv
  <2>6. Grows
    <3>1. Extends(commits, commits)
        BY HistoryParts DEF Extends
    <3> QED BY <2>2, <2>5, <3>1, HistoryParts DEF Grows, userVars, historyVars
  <2>7. ASSUME NEW e \in Devices PROVE DeviceInv(e)'
    <3>1. DeviceInv(e)
        BY DEF SInv
    <3>2. Edited(e) /\ base[e] \in 1 .. Len(commits)
        BY <2>2, <3>1 DEF Edited, DeviceInv, PlaceInv, userVars
    <3>3. PlaceInv(e)' /\ RowInv(e)' /\ RunInv(e)'
        BY <2>2, <2>6, <3>1, <3>2, PlaceStays, RowStays, RunStays
           DEF DeviceInv, rowVars
    <3> QED BY <3>3 DEF DeviceInv
  <2>8. \A x \in net' : MessageInv(x)'
      BY <2>2, <2>6, MessageStays DEF SInv
  <2>9. HistoryOK(commits', approved', saved', deleted') /\ Tables'
      BY <2>2 DEF SInv, Tables, userVars, rowVars, historyVars
  <2>10. FilesInv'
    <3>1. Tree(head) \subseteq saved
        BY Roles, HistoryParts DEF Tree
    <3> QED BY <2>2, <3>1 DEF SInv, FilesInv, userVars, historyVars
  <2>11. RolesOK(commits', approved', role', head')
      BY <2>2, <2>5 DEF historyVars
  <2> QED BY <2>7, <2>8, <2>9, <2>10, <2>11 DEF SInv
<1> QED BY <1>1, <1>2

-----------------------------------------------------------------------------
(* Going on from a row.                                                    *)

(* The steps of a device that change only its rows and its run.            *)
Still ==
    /\ commits' = commits /\ role' = role /\ head' = head /\ dropped' = dropped
    /\ saved' = saved /\ deleted' = deleted /\ approved' = approved
    /\ worktree' = worktree

LEMMA NoPendingIsPending == NoPending \in Pending
    BY DEF NoPending, Pending

(* The parts of a device, read off its entry.                              *)
LEMMA RunEntry ==
    ASSUME SInv, NEW d \in Devices, NEW r, run' = [run EXCEPT ![d] = r]
    PROVE  Changes(run, run', d) /\ run'[d] = r
    BY EntryAt DEF Changes, SInv, Tables

LEMMA PendingEntry ==
    ASSUME SInv, NEW d \in Devices, NEW p, pending' = [pending EXCEPT ![d] = p]
    PROVE  Changes(pending, pending', d) /\ pending'[d] = p
    BY EntryAt DEF Changes, SInv, Tables

LEMMA EndFits ==
    ASSUME SInv, NEW d \in Devices, Still, End(d), UNCHANGED rowVars
    PROVE  Quiet(d) /\ DeviceInv(d)'
<1>1. run' = [run EXCEPT ![d] = Ended] /\ worktree' = worktree
      /\ base' = base /\ pending' = pending /\ checkout' = checkout
    BY DEF End, rowVars, Still
<1>2. /\ Only(d) /\ run'[d] = Ended
      /\ base'[d] = base[d] /\ pending'[d] = pending[d] /\ checkout'[d] = checkout[d]
    BY <1>1, RunOnly
<1>3. Quiet(d)
    BY <1>2 DEF Quiet, Still
<1> QED BY <1>2, <1>3, EndedFits, RowsUnchanged

LEMMA AdvanceFits ==
    ASSUME SInv, NEW d \in Devices, Still, NEW c \in 1 .. Len(commits), NEW target,
           Advance(d, c, target), role[c] # "none",
           commits[c].tree \ worktree[d] \subseteq deleted,
           target # NoCommit =>
               /\ target \in 1 .. Len(commits) /\ role[target] = "mainline"
               /\ c \in Up(commits)[target]
    PROVE  Quiet(d) /\ DeviceInv(d)'
<1> DEFINE r == IF target = NoCommit THEN Ended ELSE [Ended EXCEPT !.phase = "checkout"]
<1>1. /\ base' = [base EXCEPT ![d] = c]
      /\ checkout' = [checkout EXCEPT ![d] = target]
      /\ pending' = [pending EXCEPT ![d] = NoPending]
      /\ run' = [run EXCEPT ![d] = r]
    BY DEF Advance, End, Checkout
<1> HIDE DEF r
<1>2. /\ Changes(base, base', d) /\ Changes(checkout, checkout', d)
      /\ Changes(pending, pending', d) /\ Changes(run, run', d)
      /\ Changes(worktree, worktree', d)
    BY <1>1 DEF Changes, Still
<1>3. Only(d)
    BY <1>2, OnlyAt DEF SInv
<1>4. base'[d] = c /\ checkout'[d] = target /\ pending'[d] = NoPending /\ run'[d] = r
    BY <1>1, EntryAt DEF SInv, Tables
<1>5. Quiet(d)
    BY <1>3 DEF Quiet, Still
<1>6. PlaceInv(d)
    BY DEF SInv, DeviceInv
<1>7. PlaceInv(d)'
    BY <1>4, <1>6 DEF PlaceInv, Still
<1>8. RowInv(d)'
    BY <1>4, NoPendingIsPending DEF RowInv
<1>9. RunInv(d)'
  <2>1. CASE target = NoCommit
      BY <1>4, <2>1, EndedFits DEF r
  <2>2. CASE target # NoCommit
    <3>1. /\ run'[d] \in Run /\ run'[d].phase = "checkout" /\ run'[d].scan = {}
          /\ run'[d].confirm = NoCommit
        BY <1>4, <2>2 DEF Ended, Run, Phases, r
    <3> QED BY <1>4, <2>2, <3>1 DEF RunInv
  <2> QED BY <2>1, <2>2
<1> QED BY <1>5, <1>7, <1>8, <1>9 DEF DeviceInv

LEMMA DropFits ==
    ASSUME SInv, NEW d \in Devices, Still, End(d), UNCHANGED <<base, checkout>>,
           pending' = [pending EXCEPT ![d] = NoPending]
    PROVE  Quiet(d) /\ DeviceInv(d)'
<1>1. run' = [run EXCEPT ![d] = Ended]
    BY DEF End
<1>2. /\ Changes(pending, pending', d) /\ pending'[d] = NoPending
      /\ Changes(run, run', d) /\ run'[d] = Ended
    BY <1>1, RunEntry, PendingEntry
<1>3. Only(d)
    BY <1>2, OnlyAt DEF SInv, Still, Changes
<1>4. Quiet(d)
    BY <1>3 DEF Quiet, Still
<1>5. PlaceInv(d)
    BY DEF SInv, DeviceInv
<1>6. PlaceInv(d)'
    BY <1>2, <1>5 DEF PlaceInv, Still
<1>7. RowInv(d)'
    BY <1>2, NoPendingIsPending DEF RowInv
<1> QED BY <1>2, <1>4, <1>6, <1>7, EndedFits DEF DeviceInv

(* A row whose confirmation is written down.                               *)
LEMMA ConfirmedRow ==
    ASSUME NEW d \in Devices, RowInv(d), commits' = commits, role' = role,
           worktree' = worktree, base' = base,
           deleted \subseteq deleted', approved \subseteq approved',
           pending[d] # NoPending, NEW x \in BOOLEAN,
           pending'[d] = [pending[d] EXCEPT !.confirmed = x],
           x => pending[d].candidate \in approved'
    PROVE  /\ RowInv(d)' /\ pending'[d] # NoPending
           /\ pending'[d].candidate = pending[d].candidate
           /\ pending'[d].protected = pending[d].protected
           /\ pending'[d].confirmed = x
<1>1. PICK p : p = pending[d]
    OBVIOUS
<1>2. PICK q : q = pending'[d]
    OBVIOUS
<1>3. /\ p \in Pending
      /\ p.candidate \in 1 .. Len(commits) /\ p.captured \in 1 .. Len(commits)
      /\ p.expected \in 1 .. Len(commits)
      /\ role[p.expected] = "mainline"
      /\ commits[p.candidate].first = p.expected
      /\ commits[p.captured].tree \ worktree[d] \subseteq deleted
      /\ commits[p.candidate].source # NoCommit => RestoreRow(d)
      /\ commits[p.candidate].source = NoCommit => SyncRow(d)
    BY <1>1 DEF RowInv
<1>4. /\ q \in Pending
      /\ q.candidate = p.candidate /\ q.captured = p.captured /\ q.expected = p.expected
      /\ q.base = p.base /\ q.protected = p.protected /\ q.confirmed = x
    BY <1>1, <1>2, <1>3 DEF Pending
<1>5. q # NoPending
    BY <1>3, <1>4 DEF NoPending, NoCommit
<1>6. commits[q.candidate].source # NoCommit => RestoreRow(d)'
    BY <1>1, <1>2, <1>3, <1>4 DEF RestoreRow
<1>7. commits[q.candidate].source = NoCommit => SyncRow(d)'
    BY <1>1, <1>2, <1>3, <1>4 DEF SyncRow
<1>8. RowInv(d)'
    BY <1>1, <1>2, <1>3, <1>4, <1>6, <1>7 DEF RowInv
<1> QED BY <1>1, <1>2, <1>4, <1>5, <1>8

LEMMA IsRestoreMeans ==
    ASSUME NEW d \in Devices, RowInv(d), pending[d] # NoPending
    PROVE  IsRestore(d) <=> commits[pending[d].candidate].source # NoCommit
    BY DEF RowInv, IsRestore, Restores

(* What was captured for a published candidate is published.               *)
LEMMA PublishedFacts ==
    ASSUME SInv, NEW d \in Devices, pending[d] # NoPending,
           NEW h \in 1 .. Len(commits), role[h] = "mainline",
           base[d] \in Up(commits)[h], Published(d, h)
    PROVE  /\ pending[d].captured \in 1 .. Len(commits)
           /\ pending[d].captured \in Up(commits)[h]
           /\ role[pending[d].captured] # "none"
           /\ commits[pending[d].captured].tree \ worktree[d] \subseteq deleted
<1>1. PICK p : p = pending[d]
    OBVIOUS
<1>2. /\ p.candidate \in 1 .. Len(commits) /\ p.captured \in 1 .. Len(commits)
      /\ commits[p.captured].tree \ worktree[d] \subseteq deleted
      /\ commits[p.candidate].source # NoCommit => RestoreRow(d)
      /\ commits[p.candidate].source = NoCommit => SyncRow(d)
    BY <1>1 DEF SInv, DeviceInv, RowInv
<1>3. /\ Backward(commits) /\ Len(commits) \in Nat /\ 1 .. Len(commits) \subseteq CommitIds
      /\ p.candidate \in 0 .. Len(commits) /\ h \in 0 .. Len(commits)
    BY <1>2, HistoryParts
<1>4. p.candidate \in Up(commits)[h]
    BY <1>1, AncestorsAreUp DEF Published
<1>5. p.captured \in Up(commits)[h]
  <2>1. CASE commits[p.candidate].source # NoCommit
      BY <1>1, <1>2, <2>1 DEF RestoreRow
  <2>2. CASE commits[p.candidate].source = NoCommit
    <3>1. p.captured \in Chain(commits)[p.candidate]
        BY <1>1, <1>2, <2>2 DEF SyncRow
    <3>2. p.captured \in Up(commits)[p.candidate]
        BY <1>3, <3>1, UpAlongChain
    <3>3. Up(commits)[p.candidate] \subseteq Up(commits)[h]
        BY <1>3, <1>4, UpTransitive
    <3> QED BY <3>2, <3>3
  <2> QED BY <2>1, <2>2
<1>6. p.captured \in Up(commits)[head]
  <2>1. h \in Up(commits)[head] /\ head \in 0 .. Len(commits)
      BY <1>3, Roles
  <2>2. Up(commits)[h] \subseteq Up(commits)[head]
      BY <1>3, <2>1, UpTransitive
  <2> QED BY <1>5, <2>2
<1>7. role[p.captured] # "none"
    BY <1>6, Roles
<1> QED BY <1>1, <1>2, <1>5, <1>7

(* What a run has read when it goes on from a row.                         *)
Resumable(d, t, h) ==
    /\ pending[d] # NoPending /\ checkout[d] = NoCommit
    /\ t \subseteq saved
    /\ h \in 1 .. Len(commits) /\ role[h] = "mainline"
    /\ base[d] \in Up(commits)[h] /\ pending[d].expected \in Up(commits)[h]

LEMMA AgainFits ==
    ASSUME SInv, NEW d \in Devices, NEW t, NEW h, Resumable(d, t, h), Still,
           UNCHANGED <<base, checkout>>, NEW x \in BOOLEAN,
           \/ pending' = [pending EXCEPT ![d].confirmed = x]
           \/ pending' = pending /\ x = pending[d].confirmed,
           x => pending[d].candidate \in approved,
           pending[d].protected \/ IsRestore(d) => x,
           run' = [run EXCEPT ![d].phase = "verify", ![d].scan = t]
    PROVE  Quiet(d) /\ DeviceInv(d)'
<1> DEFINE r == [run[d] EXCEPT !.phase = "verify", !.scan = t]
           q == [pending[d] EXCEPT !.confirmed = x]
<1>1. PlaceInv(d) /\ RowInv(d) /\ RunInv(d)
    BY DEF SInv, DeviceInv
<1>2. run' = [run EXCEPT ![d] = r]
    OBVIOUS
<1>3. pending[d] = [pending[d] EXCEPT !.confirmed = pending[d].confirmed]
    BY <1>1 DEF RowInv, Pending
<1>4. pending' = [pending EXCEPT ![d] = q] \/ (pending' = pending /\ pending[d] = q)
    BY <1>3
<1> HIDE DEF r, q
<1>5. Changes(run, run', d) /\ run'[d] = r
    BY <1>2, RunEntry
<1>6. Changes(pending, pending', d) /\ pending'[d] = q
    BY <1>4, PendingEntry DEF Changes
<1>7. Only(d)
    BY <1>5, <1>6, OnlyAt DEF SInv, Still, Changes
<1>8. Quiet(d)
    BY <1>7 DEF Quiet, Still
<1>9. PlaceInv(d)'
    BY <1>1 DEF PlaceInv, Still, Resumable
<1>10. /\ RowInv(d)' /\ pending'[d] # NoPending
       /\ pending'[d].candidate = pending[d].candidate
       /\ pending'[d].protected = pending[d].protected
       /\ pending'[d].confirmed = x
    BY <1>1, <1>6, ConfirmedRow DEF Still, Resumable, q
<1>11. /\ run'[d] \in Run /\ run'[d].phase = "verify" /\ run'[d].scan = t
       /\ run'[d].confirm = run[d].confirm
  <2>1. run[d] \in Run /\ t \subseteq Files
      BY <1>1 DEF RunInv, Resumable, SInv, FilesInv
  <2>2. "verify" \in Phases /\ t \in SUBSET Files
      BY <2>1 DEF Phases
  <2> QED BY <1>5, <2>1, <2>2 DEF r, Run
<1>12. pending[d].protected \/ commits[pending[d].candidate].source # NoCommit => x
    BY <1>1, IsRestoreMeans DEF Resumable
<1>13. RunInv(d)'
  <2>1. /\ t \subseteq saved' /\ checkout'[d] = NoCommit /\ commits' = commits
        /\ run[d].confirm # NoCommit => run[d].confirm \in approved'
      BY <1>1 DEF RunInv, Resumable, Still
  <2> QED BY <1>10, <1>11, <1>12, <2>1 DEF RunInv
<1> QED BY <1>8, <1>9, <1>10, <1>13 DEF DeviceInv

LEMMA ToMergeFits ==
    ASSUME SInv, NEW d \in Devices, NEW t, NEW h, Resumable(d, t, h), Still,
           UNCHANGED rowVars, ~ IsRestore(d),
           run' = [run EXCEPT ![d].phase = "merge", ![d].scan = t, ![d].seen = h]
    PROVE  Quiet(d) /\ DeviceInv(d)'
<1> DEFINE r == [run[d] EXCEPT !.phase = "merge", !.scan = t, !.seen = h]
<1>1. PlaceInv(d) /\ RowInv(d) /\ RunInv(d)
    BY DEF SInv, DeviceInv
<1>2. run' = [run EXCEPT ![d] = r]
    OBVIOUS
<1> HIDE DEF r
<1>3. /\ Only(d) /\ run'[d] = r
      /\ base'[d] = base[d] /\ pending'[d] = pending[d] /\ checkout'[d] = checkout[d]
    BY <1>2, RunOnly DEF rowVars, Still
<1>4. Quiet(d)
    BY <1>3 DEF Quiet, Still
<1>5. h \in CommitIds
    BY HistoryParts DEF Resumable
<1>6. /\ run'[d] \in Run /\ run'[d].phase = "merge" /\ run'[d].scan = t
      /\ run'[d].confirm = run[d].confirm /\ run'[d].seen = h
  <2>1. run[d] \in Run /\ t \subseteq Files
      BY <1>1 DEF RunInv, Resumable, SInv, FilesInv
  <2>2. "merge" \in Phases /\ t \in SUBSET Files
      BY <2>1 DEF Phases
  <2>3. run'[d] = [run[d] EXCEPT !.phase = "merge", !.scan = t, !.seen = h]
      BY <1>3 DEF r
  <2>4. PICK e \in Run : e = run[d]
      BY <2>1
  <2>5. PICK s : s = run'[d]
      OBVIOUS
  <2>6. s = [e EXCEPT !.phase = "merge", !.scan = t, !.seen = h]
      BY <2>3, <2>4, <2>5
  <2>7. s \in Run /\ s.phase = "merge" /\ s.scan = t /\ s.seen = h /\ s.confirm = e.confirm
    <3>1. s = [phase |-> "merge", scan |-> t, seen |-> h, confirm |-> e.confirm]
        BY ONLY <2>6, e \in Run DEF Run
    <3>2. e.confirm \in {NoCommit} \cup CommitIds
        BY DEF Run
    <3> QED BY ONLY <1>5, <2>2, <3>1, <3>2 DEF Run
  <2> QED BY <2>4, <2>5, <2>7
<1>7. commits[pending[d].candidate].source = NoCommit
    BY <1>1, IsRestoreMeans DEF Resumable
<1>8. RunInv(d)'
  <2>1. /\ t \subseteq saved' /\ checkout[d] = NoCommit /\ commits' = commits /\ role' = role
        /\ pending[d] # NoPending
        /\ h \in 1 .. Len(commits) /\ role[h] = "mainline"
        /\ base[d] \in Up(commits)[h] /\ pending[d].expected \in Up(commits)[h]
        /\ run[d].confirm # NoCommit => run[d].confirm \in approved'
      BY <1>1 DEF RunInv, Resumable, Still
  <2> QED BY <1>3, <1>6, <1>7, <2>1 DEF RunInv
<1> QED BY <1>3, <1>4, <1>8, RowsUnchanged

LEMMA ResumeSyncFits ==
    ASSUME SInv, NEW d \in Devices, NEW t, NEW h, Resumable(d, t, h), Still,
           ~ IsRestore(d), ResumeSync(d, t, h)
    PROVE  Quiet(d) /\ DeviceInv(d)' /\ forgotten' \subseteq saved
<1>1. PlaceInv(d) /\ RowInv(d) /\ RunInv(d) /\ forgotten \subseteq saved
    BY DEF SInv, DeviceInv, FilesInv
<1>2. CASE Stray(d) /\ End(d) /\ UNCHANGED <<rowVars, forgotten>>
    BY <1>1, <1>2, EndFits
<1>3. CASE Published(d, h) /\ (Recover(d, t) \/ Finalize(d, t, h)) /\ UNCHANGED forgotten
  <2>1. /\ pending[d].captured \in 1 .. Len(commits)
        /\ pending[d].captured \in Up(commits)[h]
        /\ role[pending[d].captured] # "none"
        /\ commits[pending[d].captured].tree \ worktree[d] \subseteq deleted
      BY <1>3, PublishedFacts DEF Resumable
  <2>2. CASE Recover(d, t)
    <3>1. Advance(d, pending[d].captured, NoCommit)
        BY <2>2 DEF Recover
    <3> QED BY <1>1, <1>3, <2>1, <3>1, AdvanceFits
  <2>3. CASE Advance(d, pending[d].captured, h)
      BY <1>1, <1>3, <2>1, <2>3, AdvanceFits DEF Resumable
  <2>4. CASE /\ h = pending[d].candidate
             /\ Tree(pending[d].candidate) = Tree(pending[d].captured)
             /\ Advance(d, pending[d].candidate, NoCommit)
    <3>1. /\ role[h] # "none" /\ h \in 1 .. Len(commits)
          /\ commits[h].tree \ worktree[d] \subseteq deleted
          /\ Advance(d, h, NoCommit)
        BY <2>1, <2>4 DEF Resumable, Tree
    <3> QED BY <1>1, <1>3, <3>1, AdvanceFits
  <2> QED BY <1>3, <2>2, <2>3, <2>4 DEF Finalize
<1>4. CASE Discard(d, t)
  <2>1. CapturedTree(d) \subseteq saved
      BY <1>1, HistoryParts DEF RowInv, Resumable, CapturedTree, Tree
  <2>2. forgotten' \subseteq saved
      BY <1>1, <1>4, <2>1 DEF Discard
  <2> QED BY <1>4, <2>2, DropFits DEF Discard
<1>5. CASE Retry(d, t)
  <2>1. CASE ~ Allowed(d)
      BY <1>1, <1>5, <2>1, EndFits DEF Retry, rowVars
  <2>2. CASE Allowed(d)
    <3>1. /\ pending' = [pending EXCEPT ![d].confirmed = pending[d].protected]
          /\ run' = [run EXCEPT ![d].phase = "verify", ![d].scan = t]
          /\ UNCHANGED <<base, checkout, forgotten>>
        BY <1>5, <2>2 DEF Retry
    <3>2. /\ pending[d].protected \in BOOLEAN
          /\ pending[d].candidate \in 1 .. Len(commits)
          /\ pending[d].confirmed => pending[d].candidate \in approved
        BY <1>1 DEF RowInv, Pending, Resumable
    <3>3. pending[d].protected => pending[d].candidate \in approved
      <4>1. pending[d].candidate # NoCommit
          BY <3>2 DEF NoCommit
      <4> QED BY <1>1, <2>2, <3>2, <4>1 DEF Allowed, RunInv
    <3>4. PICK x \in BOOLEAN : x = pending[d].protected
        BY <3>2
    <3>5. Quiet(d) /\ DeviceInv(d)'
        BY <3>1, <3>3, <3>4, AgainFits
    <3> QED BY <1>1, <3>1, <3>5
  <2> QED BY <2>1, <2>2
<1>6. CASE /\ run' = [run EXCEPT ![d].phase = "merge", ![d].scan = t, ![d].seen = h]
           /\ UNCHANGED <<rowVars, forgotten>>
    BY <1>1, <1>6, ToMergeFits
<1> QED BY <1>2, <1>3, <1>4, <1>5, <1>6 DEF ResumeSync

LEMMA ResumeRestoreFits ==
    ASSUME SInv, NEW d \in Devices, NEW t, NEW h, Resumable(d, t, h), Still,
           IsRestore(d), ResumeRestore(d, t, h)
    PROVE  Quiet(d) /\ DeviceInv(d)'
<1>1. PlaceInv(d) /\ RowInv(d) /\ RunInv(d)
    BY DEF SInv, DeviceInv
<1>2. CASE End(d) /\ UNCHANGED rowVars
    BY <1>2, EndFits
<1>3. CASE Published(d, h) /\ Advance(d, pending[d].captured, h)
  <2>1. /\ pending[d].captured \in 1 .. Len(commits)
        /\ pending[d].captured \in Up(commits)[h]
        /\ role[pending[d].captured] # "none"
        /\ commits[pending[d].captured].tree \ worktree[d] \subseteq deleted
      BY <1>3, PublishedFacts DEF Resumable
  <2> QED BY <1>3, <2>1, AdvanceFits DEF Resumable
<1>4. CASE DiscardRestore(d)
    BY <1>4, DropFits DEF DiscardRestore
<1>5. CASE /\ pending[d].confirmed
           /\ run' = [run EXCEPT ![d].phase = "verify", ![d].scan = t]
           /\ UNCHANGED rowVars
  <2>1. TRUE => pending[d].candidate \in approved
      BY <1>1, <1>5 DEF RowInv, Resumable
  <2>2. pending[d].confirmed = TRUE
      BY <1>1, <1>5 DEF RowInv, Pending
  <2> QED BY <1>5, <2>1, <2>2, AgainFits DEF rowVars
<1> QED BY <1>2, <1>3, <1>4, <1>5 DEF ResumeRestore

LEMMA ResumeFits ==
    ASSUME SInv, NEW d \in Devices, NEW t, NEW h, Resumable(d, t, h), Still,
           Resume(d, t, h)
    PROVE  Quiet(d) /\ DeviceInv(d)' /\ forgotten' \subseteq saved
<1>1. CASE IsRestore(d)
    BY <1>1, ResumeRestoreFits DEF Resume, SInv, FilesInv
<1>2. CASE ~ IsRestore(d)
    BY <1>2, ResumeSyncFits DEF Resume
<1> QED BY <1>1, <1>2

(* The Head is good to go on with.                                         *)
LEMMA HeadIsResumable ==
    ASSUME SInv, NEW d \in Devices, NEW t, t \subseteq saved,
           pending[d] # NoPending, checkout[d] = NoCommit
    PROVE  Resumable(d, t, head)
<1>1. PlaceInv(d) /\ RowInv(d)
    BY DEF SInv, DeviceInv
<1>2. base[d] \in Up(commits)[head]
    BY <1>1, Roles DEF PlaceInv
<1>3. pending[d].expected \in Up(commits)[head]
    BY <1>1, Roles DEF RowInv
<1> QED BY <1>2, <1>3, Roles DEF Resumable

LEMMA PublishStep ==
    ASSUME SInv, NEW d \in Devices, Publish(d)
    PROVE  SInv'
<1>1. PlaceInv(d) /\ RowInv(d) /\ RunInv(d)
    BY DEF SInv, DeviceInv
<1>2. run[d].phase = "publish" /\ pending[d] # NoPending /\ checkout[d] = NoCommit
    BY <1>1 DEF Publish, At, RunInv
<1>3. CASE /\ head # pending[d].expected
           /\ Resume(d, run[d].scan, head)
           /\ UNCHANGED net
  <2>1. Still
      BY DEF Publish, Still, serverVars, userVars
  <2>2. Resumable(d, run[d].scan, head)
      BY <1>1, <1>2, HeadIsResumable DEF RunInv
  <2>3. Quiet(d) /\ DeviceInv(d)' /\ forgotten' \subseteq saved
      BY <1>3, <2>1, <2>2, ResumeFits
  <2> QED BY <1>3, <2>3, QuietStep
<1>4. CASE /\ head = pending[d].expected
           /\ net' = net \cup {[device |-> d, candidate |-> pending[d].candidate,
                                expected |-> pending[d].expected]}
           /\ run' = [run EXCEPT ![d].phase = "await", ![d].scan = {},
                                 ![d].seen = NoCommit]
           /\ UNCHANGED <<rowVars, forgotten>>
  <2> DEFINE r == [run[d] EXCEPT !.phase = "await", !.scan = {}, !.seen = NoCommit]
  <2>1. /\ run' = [run EXCEPT ![d] = r]
        /\ UNCHANGED <<commits, serverVars, userVars, rowVars, approved, forgotten>>
      BY <1>4 DEF Publish
  <2>2. /\ Quiet(d) /\ run'[d] = r
        /\ base'[d] = base[d] /\ pending'[d] = pending[d] /\ checkout'[d] = checkout[d]
    <3> HIDE DEF r
    <3>1. /\ Only(d) /\ run'[d] = r
          /\ base'[d] = base[d] /\ pending'[d] = pending[d] /\ checkout'[d] = checkout[d]
        BY <2>1, RunOnly DEF userVars, rowVars
    <3> QED BY <2>1, <3>1 DEF Quiet, serverVars, userVars
  <2>3. /\ run'[d] \in Run /\ run'[d].phase = "await" /\ run'[d].scan = {}
        /\ run'[d].confirm = run[d].confirm
      BY <1>1, <2>2 DEF Run, Phases, RunInv
  <2>4. RunInv(d)'
      BY <1>1, <1>2, <2>1, <2>2, <2>3 DEF RunInv
  <2>5. DeviceInv(d)'
      BY <2>2, <2>4, RowsUnchanged
  <2>6. PICK m : m = [device |-> d, candidate |-> pending[d].candidate,
                      expected |-> pending[d].expected]
      OBVIOUS
  <2>7. MessageInv(m)'
    <3>1. PICK p : p = pending[d]
        OBVIOUS
    <3>2. /\ p.candidate \in 1 .. Len(commits) /\ p.expected \in 1 .. Len(commits)
          /\ commits[p.candidate].first = p.expected
          /\ p.confirmed => p.candidate \in approved
          /\ commits[p.candidate].source = NoCommit =>
                (Protected(commits[p.expected].tree, commits[p.candidate].tree)
                    => p.protected)
          /\ p.protected \/ commits[p.candidate].source # NoCommit => p.confirmed
        BY <1>1, <1>2, <3>1 DEF RowInv, SyncRow, RunInv
    <3>3. m.candidate = p.candidate /\ m.expected = p.expected /\ m.device = d
        BY <2>6, <3>1
    <3>4. m \in [device : Devices, candidate : CommitIds, expected : CommitIds]
        BY <2>6, <3>1, <3>2, HistoryParts
    <3>5. MessageInv(m)
        BY <3>2, <3>3, <3>4 DEF MessageInv, Agreed
    <3>6. Grows
        BY <2>2, QuietFacts
    <3> QED BY <3>5, <3>6, MessageStays
  <2>8. \A x \in net' : x \in net \/ x = m
      BY <1>4, <2>6
  <2> QED BY <2>1, <2>2, <2>5, <2>7, <2>8, QuietStep DEF SInv, FilesInv
<1> QED BY <1>3, <1>4 DEF Publish

LEMMA ObserveStep ==
    ASSUME SInv, NEW d \in Devices, Observe(d)
    PROVE  SInv'
<1>1. PlaceInv(d) /\ RowInv(d) /\ RunInv(d)
    BY DEF SInv, DeviceInv
<1>2. Still /\ net' = net
    BY DEF Observe, Still, serverVars, userVars
<1>3. CASE End(d) /\ UNCHANGED <<rowVars, forgotten>>
    BY <1>2, <1>3, EndFits, QuietStep DEF SInv, FilesInv
<1>4. CASE Resume(d, worktree[d], run[d].seen)
  <2>1. Resumable(d, worktree[d], run[d].seen)
      BY <1>1 DEF Observe, At, RunInv, PlaceInv, Resumable
  <2>2. Quiet(d) /\ DeviceInv(d)' /\ forgotten' \subseteq saved
      BY <1>2, <1>4, <2>1, ResumeFits
  <2> QED BY <1>2, <2>2, QuietStep
<1> QED BY <1>3, <1>4 DEF Observe

-----------------------------------------------------------------------------
(* Starting a publication.                                                 *)

(* A row that is written, for commits just made.                           *)
LEMMA PrepareFits ==
    ASSUME SInv, NEW d \in Devices, Grows, worktree' = worktree,
           NEW row, Prepare(d, row), row # NoPending, row.protected \in BOOLEAN,
           checkout[d] = NoCommit, run[d].scan \subseteq saved,
           commits'[row.candidate].source = NoCommit,
           pending'[d] = row => RowInv(d)'
    PROVE  Only(d) /\ DeviceInv(d)'
<1> DEFINE r == IF row.protected THEN Ended
                ELSE [run[d] EXCEPT !.phase = "verify", !.seen = NoCommit]
<1>1. PlaceInv(d) /\ RowInv(d) /\ RunInv(d)
    BY DEF SInv, DeviceInv
<1>2. /\ run' = [run EXCEPT ![d] = r]
      /\ pending' = [pending EXCEPT ![d] = row]
      /\ UNCHANGED <<base, checkout>>
    BY DEF Prepare, End
<1> HIDE DEF r
<1>3. /\ Changes(run, run', d) /\ run'[d] = r
      /\ Changes(pending, pending', d) /\ pending'[d] = row
    BY <1>2, RunEntry, PendingEntry
<1>4. Only(d)
    BY <1>2, <1>3, OnlyAt DEF SInv, Changes
<1>5. Edited(d)
    BY <1>1 DEF Edited, PlaceInv, Grows
<1>6. PlaceInv(d)'
    BY <1>1, <1>2, <1>5, PlaceStays
<1>7. RowInv(d)'
    BY <1>3
<1>8. RunInv(d)'
  <2>1. CASE row.protected
      BY <1>3, <2>1, EndedFits DEF r
  <2>2. CASE ~ row.protected
    <3>1. /\ run[d] \in Run /\ run'[d] = [run[d] EXCEPT !.phase = "verify", !.seen = NoCommit]
        BY <1>1, <1>3, <2>2 DEF RunInv, r
    <3>2. /\ run'[d] \in Run /\ run'[d].phase = "verify"
          /\ run'[d].scan = run[d].scan /\ run'[d].confirm = run[d].confirm
        BY <3>1 DEF Run, Phases
    <3>3. /\ run'[d].scan \subseteq saved'
          /\ run'[d].confirm # NoCommit => run'[d].confirm \in approved'
        BY <1>1, <3>2 DEF RunInv, Grows
    <3> QED BY <1>2, <1>3, <2>2, <3>2, <3>3 DEF RunInv
  <2> QED BY <2>1, <2>2
<1> QED BY <1>4, <1>6, <1>7, <1>8 DEF DeviceInv

(* The row of a sync, for a candidate of commits'.                         *)
LEMMA SyncRowFits ==
    ASSUME NEW d \in Devices, NEW row \in Pending, pending'[d] = row, row # NoPending,
           row.candidate \in 1 .. Len(commits'), row.captured \in 1 .. Len(commits'),
           row.expected \in 1 .. Len(commits'),
           role'[row.expected] = "mainline",
           commits'[row.candidate].first = row.expected,
           commits'[row.captured].tree \ worktree'[d] \subseteq deleted',
           row.confirmed = FALSE,
           commits'[row.candidate].source = NoCommit,
           SyncRow(d)'
    PROVE  RowInv(d)'
    BY DEF RowInv

LEMMA PublishedIsAgreed ==
    ASSUME SInv, NEW c \in 1 .. Len(commits), role[c] # "none"
    PROVE  Agreed(commits, approved, c)
    BY Roles

LEMMA CaptureStep ==
    ASSUME SInv, NEW d \in Devices, run[d].phase = "scanned", pending[d] = NoPending,
           head = base[d], NEW c, c = Len(commits) + 1, c <= MaxCommit,
           commits' = Append(commits, Captured(base[d], run[d].scan)),
           Prepare(d, [base |-> base[d], expected |-> head, candidate |-> c,
                       captured |-> c,
                       protected |-> Protected(Tree(base[d]), run[d].scan),
                       confirmed |-> FALSE]),
           UNCHANGED <<serverVars, net, userVars, approved, forgotten>>
    PROVE  SInv'
<1>1. PlaceInv(d) /\ RowInv(d) /\ RunInv(d)
    BY DEF SInv, DeviceInv
<1>2. PICK b : b = base[d]
    OBVIOUS
<1>3. PICK scan : scan = run[d].scan
    OBVIOUS
<1>4. PICK k : k = Captured(b, scan)
    OBVIOUS
<1>5. PICK row : row = [base |-> b, expected |-> b, candidate |-> c, captured |-> c,
                        protected |-> Protected(commits[b].tree, scan),
                        confirmed |-> FALSE]
    OBVIOUS
<1>6. /\ b \in 1 .. Len(commits) /\ role[b] = "mainline" /\ b \in CommitIds
      /\ scan \subseteq saved /\ scan \subseteq Files
      /\ commits[b].tree \ scan \subseteq deleted
      /\ scan \ worktree[d] \subseteq deleted
      /\ checkout[d] = NoCommit
    BY <1>1, <1>2, <1>3, Roles, HistoryParts DEF PlaceInv, RunInv, SInv, FilesInv
<1>7. k.first = b /\ k.second = NoCommit /\ k.tree = scan /\ k.source = NoCommit /\ k \in Commit
    BY <1>4, <1>6 DEF Captured, Commit
<1>8. Len(commits) \in Nat /\ Backward(commits)
    BY HistoryParts
<1>9. /\ HistoryOK(Append(commits, k), approved, saved, deleted)
      /\ Extends(commits, Append(commits, k))
      /\ Len(Append(commits, k)) = c
      /\ Append(commits, k)[c] = k
  <2>1. HistoryOK(commits, approved, saved, deleted)
      BY DEF SInv
  <2>2. Agreed(commits, approved, b)
      BY <1>6, PublishedIsAgreed
  <2>3. k.first \in 0 .. Len(commits) /\ k.second \in 0 .. Len(commits) /\ k.second = 0
      BY <1>6, <1>7, <1>8 DEF NoCommit
  <2> QED BY <1>6, <1>7, <2>1, <2>2, <2>3, AppendKeepsHistory DEF NoCommit
<1>10. commits' = Append(commits, k) /\ Prepare(d, row)
    BY <1>2, <1>3, <1>4, <1>5 DEF Tree
<1>11. /\ HistoryOK(commits', approved', saved', deleted') /\ Extends(commits, commits')
       /\ Len(commits') = c /\ commits'[c] = k
    BY <1>9, <1>10 DEF userVars
<1>12. Grows
    BY <1>11, MoreCommitsGrow DEF serverVars, userVars
<1>13. c \in 1 .. Len(commits') /\ c \in CommitIds /\ c # NoCommit
    BY <1>8, <1>11, CommitBound DEF CommitIds, NoCommit
<1>14. /\ row \in Pending /\ row # NoPending
       /\ row.base = b /\ row.expected = b /\ row.candidate = c /\ row.captured = c
       /\ row.protected = Protected(commits[b].tree, scan) /\ row.confirmed = FALSE
       /\ row.protected \in BOOLEAN
    BY <1>5, <1>6, <1>13 DEF Pending, NoPending, Protected
<1>15. ASSUME pending'[d] = row PROVE RowInv(d)'
  <2>1. b \in 1 .. Len(commits') /\ commits'[b] = commits[b] /\ role'[b] = "mainline"
      BY <1>6, <1>12, GrowthFacts DEF serverVars
  <2>2. base'[d] = b
      BY <1>2 DEF Prepare
  <2>3. Chain(commits')[c] = {c}
    <3>1. Backward(commits')
        BY <1>12 DEF Grows
    <3>2. /\ Chain(commits')[0] = {}
          /\ Chain(commits')[c] = {c} \cup Chain(commits')[commits'[c].second]
        BY <1>13, <3>1, ChainUnfolds
    <3> QED BY <1>7, <1>11, <3>2 DEF NoCommit
  <2>4. b \in Up(commits')[b]
    <3>1. Backward(commits')
        BY <1>12 DEF Grows
    <3>2. Up(commits')[b] = {b} \cup Up(commits')[commits'[b].first]
                                \cup Up(commits')[commits'[b].second]
        BY <2>1, <3>1, UpUnfolds
    <3> QED BY <3>2
  <2>5. SyncRow(d)'
    <3>1. /\ commits'[row.captured] = Captured(base'[d], commits'[row.captured].tree)
        BY <1>4, <1>7, <1>11, <1>14, <2>2
    <3>2. /\ row.captured \in Chain(commits')[row.candidate]
          /\ \A x \in Chain(commits')[row.candidate] :
                base'[d] \in Up(commits')[commits'[x].first]
        BY <1>7, <1>11, <1>14, <2>2, <2>3, <2>4
    <3>3. Protected(commits'[row.expected].tree, commits'[row.candidate].tree) => row.protected
        BY <1>7, <1>11, <1>14, <2>1
    <3> QED BY <1>14, <1>15, <2>2, <3>1, <3>2, <3>3 DEF SyncRow
  <2>6. commits'[row.captured].tree \ worktree'[d] \subseteq deleted'
      BY <1>6, <1>7, <1>11, <1>14 DEF userVars
  <2> QED BY <1>7, <1>11, <1>13, <1>14, <1>15, <2>1, <2>5, <2>6, SyncRowFits
<1>16. Only(d) /\ DeviceInv(d)'
  <2>1. commits'[row.candidate].source = NoCommit
      BY <1>7, <1>11, <1>14
  <2> QED BY <1>3, <1>6, <1>10, <1>12, <1>14, <1>15, <2>1, PrepareFits DEF userVars
<1>17. FilesInv'
    BY DEF SInv, FilesInv, serverVars, userVars
<1> QED BY <1>11, <1>12, <1>16, <1>17, DeviceStep DEF serverVars

LEMMA ReadHeadStep ==
    ASSUME SInv, NEW d \in Devices, ReadHead(d)
    PROVE  SInv'
<1>1. PlaceInv(d) /\ RowInv(d) /\ RunInv(d)
    BY DEF SInv, DeviceInv
<1>2. /\ run[d].phase = "scanned" /\ checkout[d] = NoCommit
      /\ UNCHANGED <<serverVars, net, userVars, approved>>
    BY <1>1 DEF ReadHead, At, RunInv
<1>3. CASE pending[d] # NoPending
  <2>1. Still
      BY <1>2, <1>3 DEF ReadHead, Still, serverVars, userVars
  <2>2. Resumable(d, run[d].scan, head)
      BY <1>1, <1>2, <1>3, HeadIsResumable DEF RunInv
  <2>3. Quiet(d) /\ DeviceInv(d)' /\ forgotten' \subseteq saved
      BY <1>3, <2>1, <2>2, ResumeFits DEF ReadHead
  <2> QED BY <1>2, <2>3, QuietStep
<1>4. CASE pending[d] = NoPending
  <2>1. Start(d) /\ UNCHANGED forgotten
      BY <1>4 DEF ReadHead
  <2>2. CASE End(d) /\ UNCHANGED <<commits, rowVars>>
    <3>1. Still
        BY <1>2, <2>2 DEF Still, serverVars, userVars
    <3> QED BY <1>2, <2>1, <2>2, <3>1, EndFits, QuietStep DEF SInv, FilesInv
  <2>3. CASE /\ run' = [run EXCEPT ![d].phase = "merge", ![d].seen = head]
             /\ UNCHANGED <<commits, rowVars>>
    <3> DEFINE r == [run[d] EXCEPT !.phase = "merge", !.seen = head]
    <3>1. run' = [run EXCEPT ![d] = r]
        BY <2>3
    <3>2. /\ Quiet(d) /\ run'[d] = r
          /\ base'[d] = base[d] /\ pending'[d] = pending[d] /\ checkout'[d] = checkout[d]
      <4> HIDE DEF r
      <4>1. /\ Only(d) /\ run'[d] = r
            /\ base'[d] = base[d] /\ pending'[d] = pending[d] /\ checkout'[d] = checkout[d]
          BY <1>2, <2>3, <3>1, RunOnly DEF userVars, rowVars
      <4> QED BY <1>2, <2>3, <4>1 DEF Quiet, serverVars, userVars
    <3>3. head \in 1 .. Len(commits) /\ head \in CommitIds /\ role[head] = "mainline"
        BY Roles, HistoryParts
    <3>4. base[d] \in Up(commits)[head]
        BY <1>1, Roles DEF PlaceInv
    <3>5. /\ run'[d] \in Run /\ run'[d].phase = "merge" /\ run'[d].scan = run[d].scan
          /\ run'[d].confirm = run[d].confirm /\ run'[d].seen = head
        BY <1>1, <3>2, <3>3 DEF Run, Phases, RunInv
    <3>6. RunInv(d)'
      <4>1. /\ run[d].scan \subseteq saved
            /\ run[d].confirm # NoCommit => run[d].confirm \in approved
            /\ commits[base[d]].tree \ run[d].scan \subseteq deleted
            /\ run[d].scan \ worktree[d] \subseteq deleted
          BY <1>1, <1>2, <1>4 DEF RunInv
      <4>2. /\ commits' = commits /\ role' = role /\ worktree' = worktree
            /\ saved' = saved /\ deleted' = deleted /\ approved' = approved
            /\ pending'[d] = NoPending /\ checkout'[d] = NoCommit
          BY <1>2, <1>4, <2>3, <3>2 DEF serverVars, userVars
      <4> QED BY <3>2, <3>3, <3>4, <3>5, <4>1, <4>2 DEF RunInv
    <3>7. DeviceInv(d)'
        BY <3>2, <3>6, RowsUnchanged
    <3> QED BY <1>2, <2>1, <3>2, <3>7, QuietStep DEF SInv, FilesInv
  <2>4. CASE /\ checkout' = [checkout EXCEPT ![d] = head]
             /\ Checkout(d)
             /\ UNCHANGED <<commits, base, pending>>
    <3> DEFINE r == [Ended EXCEPT !.phase = "checkout"]
    <3>1. run' = [run EXCEPT ![d] = r]
        BY <2>4 DEF Checkout
    <3> HIDE DEF r
    <3>2. Changes(checkout, checkout', d) /\ Changes(run, run', d)
        BY <2>4, <3>1 DEF Changes
    <3>3. Only(d)
        BY <1>2, <2>4, <3>2, OnlyAt DEF SInv, Changes, userVars
    <3>4. checkout'[d] = head /\ run'[d] = r
        BY <2>4, <3>1, EntryAt DEF SInv, Tables
    <3>5. Quiet(d)
        BY <1>2, <2>4, <3>3 DEF Quiet, serverVars, userVars
    <3>6. head \in 1 .. Len(commits) /\ role[head] = "mainline" /\ head # NoCommit
        BY Roles DEF NoCommit
    <3>7. base[d] \in Up(commits)[head]
        BY <1>1, Roles DEF PlaceInv
    <3>8. PlaceInv(d)'
        BY <1>1, <1>2, <1>4, <2>4, <3>4, <3>6, <3>7
           DEF PlaceInv, serverVars, userVars
    <3>9. RowInv(d)'
        BY <1>1, <1>4, <2>4 DEF RowInv
    <3>10. RunInv(d)'
      <4>1. /\ run'[d] \in Run /\ run'[d].phase = "checkout" /\ run'[d].scan = {}
            /\ run'[d].confirm = NoCommit
          BY <3>4 DEF Ended, Run, Phases, r
      <4> QED BY <3>4, <3>6, <4>1 DEF RunInv
    <3> QED BY <1>2, <2>1, <3>5, <3>8, <3>9, <3>10, QuietStep DEF DeviceInv, SInv, FilesInv
  <2>5. CASE /\ head = base[d]
             /\ Len(commits) + 1 <= MaxCommit
             /\ commits' = Append(commits, Captured(base[d], run[d].scan))
             /\ Prepare(d, [base |-> base[d], expected |-> head,
                            candidate |-> Len(commits) + 1,
                            captured |-> Len(commits) + 1,
                            protected |-> Protected(Tree(base[d]), run[d].scan),
                            confirmed |-> FALSE])
      BY <1>2, <1>4, <2>1, <2>5, CaptureStep
  <2> QED BY <2>1, <2>2, <2>3, <2>4, <2>5 DEF Start
<1> QED BY <1>3, <1>4

-----------------------------------------------------------------------------
(* Merging.                                                                *)

LEMMA AppendTwo ==
    ASSUME NEW S, NEW s \in Seq(S), NEW x \in S, NEW y \in S
    PROVE  s \o <<x, y>> = Append(Append(s, x), y)
    OBVIOUS

LEMMA AncestorsDropped ==
    ASSUME SInv, NEW c \in 1 .. Len(commits), Agreed(commits, approved, c),
           NEW a \in Up(commits)[c]
    PROVE  commits[a].tree \ commits[c].tree \subseteq deleted
    BY DEF SInv, HistoryOK

LEMMA TreesAreFinite ==
    ASSUME SInv, NEW c \in 1 .. Len(commits)
    PROVE  IsFiniteSet(commits[c].tree)
    BY TreeAssumption, HistoryParts, FS_Subset

(* A merge of the Head that was read with what a device has captured on b, *)
(* in the row that is written for it.                                      *)
LEMMA MergeRowFits ==
    ASSUME SInv, NEW d \in Devices, Grows, role' = role, worktree' = worktree,
           deleted' = deleted, base' = base,
           NEW h \in 1 .. Len(commits), role[h] = "mainline",
           base[d] \in Up(commits)[h],
           NEW b \in 1 .. Len(commits),
           NEW old \in 1 .. Len(commits'), commits'[old].first = b,
           NEW captured \in Chain(commits')[old],
           captured \in 1 .. Len(commits'),
           commits'[captured] = Captured(base[d], commits'[captured].tree),
           commits'[captured].tree \ worktree[d] \subseteq deleted,
           \A x \in Chain(commits')[old] : base[d] \in Up(commits')[commits'[x].first],
           NEW c, c = Len(commits'), c # captured,
           NEW tree \in Merge(commits[b].tree, commits'[old].tree, commits[h].tree),
           NEW placed,
           placed = InPlace(commits[b].tree, commits'[old].tree, commits[h].tree, tree),
           commits'[c] = MergeCommit(h, old, tree),
           NEW row, row = [base |-> b, expected |-> h, candidate |-> c,
                           captured |-> captured,
                           protected |-> Protected(commits[b].tree, placed),
                           confirmed |-> FALSE],
           pending'[d] = row
    PROVE  RowInv(d)'
<1>1. /\ Backward(commits') /\ Len(commits') \in CommitIds /\ Len(commits') \in Nat
      /\ 1 .. Len(commits') \subseteq CommitIds
    BY CommitBound DEF Grows, Backward, CommitIds
<1>2. /\ c \in 1 .. Len(commits') /\ h \in 1 .. Len(commits') /\ b \in 1 .. Len(commits')
      /\ commits'[h] = commits[h] /\ commits'[b] = commits[b]
      /\ Up(commits')[h] = Up(commits)[h]
  <2>1. c \in 1 .. Len(commits')
      BY <1>1, CommitBound DEF CommitIds
  <2>2. h \in 0 .. Len(commits)
      OBVIOUS
  <2> QED BY <2>1, <2>2, GrowthFacts
<1>3. /\ commits'[c].first = h /\ commits'[c].second = old /\ commits'[c].tree = tree
      /\ commits'[c].source = NoCommit
    BY DEF MergeCommit
<1>4. /\ row.base = b /\ row.expected = h /\ row.candidate = c /\ row.captured = captured
      /\ row.protected = Protected(commits[b].tree, placed) /\ row.confirmed = FALSE
    OBVIOUS
<1>5. Protected(commits[b].tree, placed) \in BOOLEAN
    BY DEF Protected
<1>6. row \in Pending
    BY <1>1, <1>2, <1>5 DEF Pending
<1>7. row # NoPending
    BY <1>2, <1>4 DEF NoPending, NoCommit
<1>8. Chain(commits')[c] = {c} \cup Chain(commits')[old]
    BY <1>1, <1>2, <1>3, ChainUnfolds
<1>9. Protected(commits'[h].tree, commits'[c].tree) => row.protected
    BY <1>2, <1>3, <1>4, TreesAreFinite, ProtectedAgainstBase
<1>10. SyncRow(d)'
  <2>1. commits'[row.captured] = Captured(base'[d], commits'[row.captured].tree)
      BY <1>4
  <2>2. row.captured \in Chain(commits')[row.candidate]
      BY <1>4, <1>8
  <2>3. \A x \in Chain(commits')[row.candidate] :
            base'[d] \in Up(commits')[commits'[x].first]
      BY <1>2, <1>3, <1>4, <1>8
  <2>4. row.candidate # row.captured /\ row.base = commits'[commits'[row.candidate].second].first
      BY <1>3, <1>4
  <2> HIDE DEF SInv
  <2> QED BY <1>4, <1>9, <2>1, <2>2, <2>3, <2>4 DEF SyncRow
<1> QED BY <1>2, <1>3, <1>4, <1>6, <1>7, <1>10, SyncRowFits

LEMMA StartMergeStep ==
    ASSUME SInv, NEW d \in Devices, run[d].phase = "merge", StartMerge(d),
           UNCHANGED <<serverVars, net, userVars, historyVars>>
    PROVE  SInv'
<1>1. PlaceInv(d) /\ RowInv(d) /\ RunInv(d)
    BY DEF SInv, DeviceInv
<1>2. PICK b : b = base[d]
    OBVIOUS
<1>3. PICK scan : scan = run[d].scan
    OBVIOUS
<1>4. PICK h : h = run[d].seen
    OBVIOUS
<1>5. PICK c : c = Len(commits) + 1
    OBVIOUS
<1>6. PICK tree \in Merge(commits[b].tree, scan, commits[h].tree) :
          /\ commits' = commits \o <<Captured(b, scan), MergeCommit(h, c, tree)>>
          /\ Prepare(d, [base |-> b, expected |-> h, candidate |-> c + 1, captured |-> c,
                         protected |-> Protected(commits[b].tree,
                             InPlace(commits[b].tree, scan, commits[h].tree, tree)),
                         confirmed |-> FALSE])
    BY <1>2, <1>3, <1>4, <1>5 DEF StartMerge, Tree
<1>7. PICK placed : placed = InPlace(commits[b].tree, scan, commits[h].tree, tree)
    OBVIOUS
<1>8. PICK ka : ka = Captured(b, scan)
    OBVIOUS
<1>9. PICK kb : kb = MergeCommit(h, c, tree)
    OBVIOUS
<1>10. PICK row : row = [base |-> b, expected |-> h, candidate |-> c + 1, captured |-> c,
                        protected |-> Protected(commits[b].tree, placed),
                        confirmed |-> FALSE]
    OBVIOUS
<1>11. /\ pending[d] = NoPending /\ worktree[d] = scan /\ c + 1 <= MaxCommit
       /\ commits' = commits \o <<ka, kb>>
       /\ Prepare(d, row)
  <2>1. pending[d] = NoPending /\ worktree[d] = scan /\ c + 1 <= MaxCommit
      BY <1>3, <1>5 DEF StartMerge
  <2> QED BY <1>6, <1>8, <1>9, <1>10, <1>7, <2>1
<1>12. /\ b \in 1 .. Len(commits) /\ b \in CommitIds
       /\ role[b] # "none"
       /\ h \in 1 .. Len(commits) /\ h \in CommitIds /\ role[h] = "mainline"
       /\ b \in Up(commits)[h]
       /\ scan \subseteq saved /\ scan \subseteq Files
       /\ commits[b].tree \ scan \subseteq deleted
       /\ checkout[d] = NoCommit
  <2>1. saved \subseteq Files
      BY DEF SInv, FilesInv
  <2> QED BY <1>1, <1>2, <1>3, <1>4, <1>11, <2>1, HistoryParts DEF PlaceInv, RunInv
<1>13. /\ Len(commits) \in Nat /\ Backward(commits) /\ commits \in Seq(Commit)
       /\ commits[b].tree \subseteq saved /\ commits[h].tree \subseteq saved
       /\ commits[b].tree \subseteq Files /\ commits[h].tree \subseteq Files
    BY <1>12, HistoryParts
<1>14. /\ Agreed(commits, approved, b) /\ Agreed(commits, approved, h)
       /\ commits[b].tree \ commits[h].tree \subseteq deleted
    BY <1>12, PublishedIsAgreed, AncestorsDropped
<1>15. /\ tree \subseteq saved /\ tree \subseteq Files
       /\ commits[h].tree \ tree \subseteq deleted
       /\ scan \ tree \subseteq deleted
    BY <1>6, <1>12, <1>13, <1>14, MergeDrops
<1>16. c \in CommitIds /\ c + 1 \in CommitIds
    BY <1>5, <1>11, <1>13, CommitBound DEF CommitIds
<1>17. /\ ka.first = b /\ ka.second = NoCommit /\ ka.tree = scan /\ ka.source = NoCommit
       /\ ka \in Commit
    BY <1>8, <1>12 DEF Captured, Commit
<1>18. /\ kb.first = h /\ kb.second = c /\ kb.tree = tree /\ kb.source = NoCommit
       /\ kb \in Commit
    BY <1>9, <1>12, <1>15, <1>16 DEF MergeCommit, Commit
<1>19. PICK cs : cs = Append(commits, ka)
    OBVIOUS
<1>20. /\ HistoryOK(cs, approved, saved, deleted)
       /\ Extends(commits, cs)
       /\ Len(cs) = c
       /\ cs[c] = ka
  <2>1. HistoryOK(commits, approved, saved, deleted)
      BY DEF SInv
  <2>2. ka.first \in 0 .. Len(commits) /\ ka.second \in 0 .. Len(commits) /\ ka.second = 0
      BY <1>12, <1>13, <1>17 DEF NoCommit
  <2>3. Len(commits) + 1 <= MaxCommit
      BY <1>5, <1>11, <1>13, CommitBound
  <2> QED BY <1>5, <1>12, <1>14, <1>17, <1>19, <2>1, <2>2, <2>3, AppendKeepsHistory
          DEF NoCommit
<1>21. /\ cs[h] = commits[h] /\ cs[b] = commits[b]
    BY <1>12, <1>20 DEF Extends
<1>22. PICK ct : ct = Append(cs, kb)
    OBVIOUS
<1>23. /\ HistoryOK(ct, approved, saved, deleted)
       /\ Extends(cs, ct)
       /\ Len(ct) = c + 1
       /\ ct[c + 1] = kb
  <2>1. /\ kb.first \in 0 .. Len(cs) /\ kb.second \in 0 .. Len(cs)
        /\ Len(cs) + 1 <= MaxCommit
      BY <1>5, <1>11, <1>12, <1>13, <1>18, <1>20
  <2>2. Agreed(cs, approved, h) /\ Agreed(cs, approved, c)
      BY <1>14, <1>17, <1>20, <1>21 DEF Agreed
  <2>3. cs[kb.first].tree \ kb.tree \subseteq deleted /\ cs[kb.second].tree \ kb.tree \subseteq deleted
      BY <1>15, <1>17, <1>18, <1>20, <1>21
  <2> QED BY <1>15, <1>18, <1>20, <1>22, <2>1, <2>2, <2>3, AppendKeepsHistory
<1>24. commits' = ct
    BY <1>11, <1>13, <1>17, <1>18, <1>19, <1>22, AppendTwo
<1>25. ct[c] = ka /\ Extends(commits, ct)
    BY <1>5, <1>13, <1>20, <1>23 DEF Extends
<1>26. /\ HistoryOK(commits', approved', saved', deleted') /\ Extends(commits, commits')
       /\ Len(commits') = c + 1 /\ commits'[c + 1] = kb /\ commits'[c] = ka
    BY <1>23, <1>24, <1>25 DEF userVars, historyVars
<1>27. Grows
    BY <1>26, MoreCommitsGrow DEF serverVars, userVars, historyVars
<1>28. /\ c \in 1 .. Len(commits') /\ c + 1 # NoCommit /\ c # c + 1 /\ c \in Nat
    BY <1>5, <1>13, <1>26 DEF NoCommit
<1>29. Backward(commits')
    BY <1>27 DEF Grows
<1>30. Chain(commits')[c] = {c}
  <2>1. /\ Chain(commits')[0] = {}
        /\ Chain(commits')[c] = {c} \cup Chain(commits')[commits'[c].second]
      BY <1>28, <1>29, ChainUnfolds
  <2> QED BY <1>17, <1>26, <2>1 DEF NoCommit
<1>31. b \in Up(commits')[b]
  <2>1. b \in 1 .. Len(commits')
      BY <1>12, <1>27, GrowthFacts
  <2>2. Up(commits')[b] = {b} \cup Up(commits')[commits'[b].first]
                              \cup Up(commits')[commits'[b].second]
      BY <1>29, <2>1, UpUnfolds
  <2> QED BY <2>2
<1>32. ASSUME pending'[d] = row PROVE RowInv(d)'
  <2>1. role' = role /\ worktree' = worktree /\ deleted' = deleted /\ base' = base
      BY <1>11 DEF Prepare, serverVars, userVars
  <2>2. /\ commits'[c].first = b /\ commits'[c].tree = scan
        /\ commits'[c] = Captured(base[d], commits'[c].tree)
        /\ commits'[c].tree \ worktree[d] \subseteq deleted
      BY <1>2, <1>8, <1>11, <1>17, <1>26
  <2>3. \A x \in Chain(commits')[c] : base[d] \in Up(commits')[commits'[x].first]
      BY <1>2, <1>30, <1>31, <2>2
  <2>4. c \in Chain(commits')[c] /\ c + 1 = Len(commits') /\ c + 1 # c
      BY <1>26, <1>28, <1>30
  <2>5. base[d] \in Up(commits)[h]
      BY <1>2, <1>12
  <2>6. /\ commits'[c + 1] = MergeCommit(h, c, tree)
        /\ tree \in Merge(commits[b].tree, commits'[c].tree, commits[h].tree)
        /\ placed = InPlace(commits[b].tree, commits'[c].tree, commits[h].tree, tree)
      BY <1>6, <1>9, <1>26, <1>7, <2>2
  <2> QED BY <1>10, <1>12, <1>27, <1>28, <1>32, <2>1, <2>2, <2>3, <2>4, <2>5, <2>6,
             MergeRowFits
<1>33. /\ row # NoPending /\ row.protected \in BOOLEAN
       /\ commits'[row.candidate].source = NoCommit
  <2>1. row.candidate = c + 1 /\ row.protected = Protected(commits[b].tree, placed)
      BY <1>10
  <2> QED BY <1>18, <1>26, <1>28, <2>1 DEF NoPending, Protected
<1>34. Only(d) /\ DeviceInv(d)'
    BY <1>3, <1>11, <1>12, <1>27, <1>32, <1>33, PrepareFits DEF userVars
<1>35. FilesInv'
    BY DEF SInv, FilesInv, serverVars, userVars, historyVars
<1> QED BY <1>26, <1>27, <1>34, <1>35, DeviceStep DEF serverVars

LEMMA ReplacePendingStep ==
    ASSUME SInv, NEW d \in Devices, run[d].phase = "merge", ReplacePending(d),
           UNCHANGED <<serverVars, net, userVars, historyVars>>
    PROVE  SInv'
<1>1. PlaceInv(d) /\ RowInv(d) /\ RunInv(d)
    BY DEF SInv, DeviceInv
<1>2. PICK p : p = pending[d]
    OBVIOUS
<1>3. PICK b : b = p.expected
    OBVIOUS
<1>4. PICK old : old = p.candidate
    OBVIOUS
<1>5. PICK h : h = run[d].seen
    OBVIOUS
<1>6. PICK c : c = Len(commits) + 1
    OBVIOUS
<1>7. PICK tree \in Merge(commits[b].tree, commits[old].tree, commits[h].tree) :
          /\ commits' = Append(commits, MergeCommit(h, old, tree))
          /\ Prepare(d, [base |-> b, expected |-> h, candidate |-> c,
                         captured |-> p.captured,
                         protected |-> Protected(commits[b].tree,
                             InPlace(commits[b].tree, commits[old].tree, commits[h].tree,
                                     tree)),
                         confirmed |-> FALSE])
    BY <1>2, <1>3, <1>4, <1>5, <1>6
       DEF ReplacePending, ReplacementBase, ReplacementConfirmed, Tree, Prepare
<1>8. PICK placed : placed = InPlace(commits[b].tree, commits[old].tree,
                                          commits[h].tree, tree)
    OBVIOUS
<1>9. PICK k : k = MergeCommit(h, old, tree)
    OBVIOUS
<1>10. PICK row : row = [base |-> b, expected |-> h, candidate |-> c, captured |-> p.captured,
                        protected |-> Protected(commits[b].tree, placed),
                        confirmed |-> FALSE]
    OBVIOUS
<1>11. p # NoPending /\ c <= MaxCommit /\ commits' = Append(commits, k)
    BY <1>2, <1>6, <1>7, <1>9 DEF ReplacePending
<1>12. Prepare(d, row)
    BY <1>7, <1>10, <1>8
<1>13. /\ old \in 1 .. Len(commits) /\ b \in 1 .. Len(commits)
       /\ p.captured \in 1 .. Len(commits)
       /\ commits[old].first = b
       /\ commits[p.captured].tree \ worktree[d] \subseteq deleted
       /\ commits[old].source = NoCommit
       /\ SyncRow(d)
    BY <1>1, <1>2, <1>3, <1>4, <1>11 DEF RowInv, RunInv
<1>14. /\ h \in 1 .. Len(commits) /\ role[h] = "mainline"
       /\ base[d] \in Up(commits)[h] /\ b \in Up(commits)[h]
       /\ checkout[d] = NoCommit /\ run[d].scan \subseteq saved
    BY <1>1, <1>2, <1>3, <1>5, <1>11 DEF RunInv
<1>15. /\ commits[p.captured] = Captured(base[d], commits[p.captured].tree)
       /\ p.captured \in Chain(commits)[old]
       /\ \A x \in Chain(commits)[old] : base[d] \in Up(commits)[commits[x].first]
    BY <1>2, <1>4, <1>13 DEF SyncRow
<1>16. /\ Len(commits) \in Nat /\ Backward(commits)
       /\ 1 .. Len(commits) \subseteq CommitIds
       /\ commits[b].tree \subseteq saved /\ commits[h].tree \subseteq saved
       /\ commits[old].tree \subseteq saved
       /\ commits[h].tree \subseteq Files /\ commits[old].tree \subseteq Files
    BY <1>13, <1>14, HistoryParts
<1>17. Agreed(commits, approved, h) /\ Agreed(commits, approved, old)
    BY <1>13, <1>14, PublishedIsAgreed DEF Agreed
<1>18. commits[b].tree \ commits[h].tree \subseteq deleted
    BY <1>14, <1>17, AncestorsDropped
<1>19. commits[b].tree \ commits[old].tree \subseteq deleted
  <2>1. /\ Up(commits)[old] = {old} \cup Up(commits)[commits[old].first]
                                    \cup Up(commits)[commits[old].second]
        /\ Up(commits)[b] = {b} \cup Up(commits)[commits[b].first]
                                \cup Up(commits)[commits[b].second]
      BY <1>13, <1>16, UpUnfolds
  <2>2. b \in Up(commits)[old]
      BY <1>13, <2>1
  <2> QED BY <1>13, <1>17, <2>2, AncestorsDropped
<1>20. /\ tree \subseteq saved /\ tree \subseteq Files
       /\ commits[h].tree \ tree \subseteq deleted
       /\ commits[old].tree \ tree \subseteq deleted
    BY <1>7, <1>16, <1>18, <1>19, MergeDrops
<1>21. /\ k.first = h /\ k.second = old /\ k.tree = tree /\ k.source = NoCommit
       /\ k \in Commit
    BY <1>9, <1>13, <1>14, <1>16, <1>20 DEF MergeCommit, Commit
<1>22. /\ HistoryOK(Append(commits, k), approved, saved, deleted)
       /\ Extends(commits, Append(commits, k))
       /\ Len(Append(commits, k)) = c
       /\ Append(commits, k)[c] = k
  <2>1. HistoryOK(commits, approved, saved, deleted)
      BY DEF SInv
  <2>2. k.first \in 0 .. Len(commits) /\ k.second \in 0 .. Len(commits)
      BY <1>13, <1>14, <1>16, <1>21
  <2>3. Len(commits) + 1 <= MaxCommit
      BY <1>6, <1>11
  <2> QED BY <1>6, <1>17, <1>20, <1>21, <2>1, <2>2, <2>3, AppendKeepsHistory
<1>23. /\ HistoryOK(commits', approved', saved', deleted') /\ Extends(commits, commits')
       /\ Len(commits') = c /\ commits'[c] = k
    BY <1>11, <1>22 DEF userVars, historyVars
<1>24. Grows
    BY <1>23, MoreCommitsGrow DEF serverVars, userVars, historyVars
<1>25. /\ c \in 1 .. Len(commits') /\ c # NoCommit /\ c \notin 1 .. Len(commits)
    BY <1>6, <1>16, <1>23 DEF NoCommit
<1>26. ASSUME pending'[d] = row PROVE RowInv(d)'
  <2>1. role' = role /\ worktree' = worktree /\ deleted' = deleted /\ base' = base
      BY <1>12 DEF Prepare, serverVars, userVars
  <2>2. /\ old \in 1 .. Len(commits') /\ commits'[old] = commits[old]
        /\ p.captured \in 1 .. Len(commits') /\ commits'[p.captured] = commits[p.captured]
        /\ Chain(commits')[old] = Chain(commits)[old]
    <3>1. old \in 0 .. Len(commits)
        BY <1>13
    <3> QED BY <1>13, <1>24, <3>1, GrowthFacts
  <2>3. \A x \in Chain(commits')[old] : base[d] \in Up(commits')[commits'[x].first]
    <3> SUFFICES ASSUME NEW x \in Chain(commits)[old]
                 PROVE  base[d] \in Up(commits')[commits'[x].first]
        BY <2>2
    <3>1. x \in 1 .. Len(commits)
        BY <1>13, <1>24, GrowthFacts
    <3>2. commits'[x] = commits[x] /\ commits[x].first \in 0 .. Len(commits)
        BY <1>24, <3>1, GrowthFacts
    <3>3. Up(commits')[commits[x].first] = Up(commits)[commits[x].first]
        BY <1>24, <3>2, GrowthFacts
    <3> QED BY <1>15, <3>2, <3>3
  <2>4. c = Len(commits') /\ c # p.captured
      BY <1>13, <1>23, <1>25
  <2>5. /\ commits'[c] = MergeCommit(h, old, tree)
        /\ tree \in Merge(commits[b].tree, commits'[old].tree, commits[h].tree)
        /\ placed = InPlace(commits[b].tree, commits'[old].tree, commits[h].tree, tree)
      BY <1>7, <1>9, <1>23, <1>8, <2>2
  <2>6. /\ commits'[p.captured] = Captured(base[d], commits'[p.captured].tree)
        /\ commits'[p.captured].tree \ worktree[d] \subseteq deleted
        /\ p.captured \in Chain(commits')[old]
        /\ commits'[old].first = b
      BY <1>13, <1>15, <2>2
  <2> QED BY <1>10, <1>13, <1>14, <1>24, <1>26, <2>1, <2>2, <2>3, <2>4, <2>5, <2>6,
             MergeRowFits
<1>27. /\ row # NoPending /\ row.protected \in BOOLEAN
       /\ commits'[row.candidate].source = NoCommit
  <2>1. row.candidate = c /\ row.protected = Protected(commits[b].tree, placed)
      BY <1>10
  <2> QED BY <1>21, <1>23, <1>25, <2>1 DEF NoPending, Protected
<1>28. Only(d) /\ DeviceInv(d)'
    BY <1>12, <1>14, <1>24, <1>26, <1>27, PrepareFits DEF userVars
<1>29. FilesInv'
    BY DEF SInv, FilesInv, serverVars, userVars, historyVars
<1> QED BY <1>23, <1>24, <1>28, <1>29, DeviceStep DEF serverVars

LEMMA MergeTreesStep ==
    ASSUME SInv, NEW d \in Devices, MergeTrees(d)
    PROVE  SInv'
<1>1. /\ run[d].phase = "merge"
      /\ UNCHANGED <<serverVars, net, userVars, historyVars>>
    BY DEF MergeTrees, At
<1>2. CASE End(d) /\ UNCHANGED <<commits, rowVars>>
  <2>1. Still
      BY <1>1, <1>2 DEF Still, serverVars, userVars, historyVars
  <2> QED BY <1>1, <1>2, <2>1, EndFits, QuietStep DEF historyVars, SInv, FilesInv
<1> QED BY <1>1, <1>2, StartMergeStep, ReplacePendingStep DEF MergeTrees

-----------------------------------------------------------------------------
(* Restores.                                                               *)

LEMMA PreviewRestoreStep ==
    ASSUME SInv, NEW d \in Devices, PreviewRestore(d)
    PROVE  SInv'
<1>1. PlaceInv(d) /\ RowInv(d) /\ RunInv(d)
    BY DEF SInv, DeviceInv
<1>2. PICK b : b = base[d]
    OBVIOUS
<1>3. PICK c : c = Len(commits) + 1
    OBVIOUS
<1>4. /\ run[d].phase = "idle" /\ c <= MaxCommit
      /\ checkout[d] = NoCommit /\ pending[d] = NoPending
      /\ worktree[d] = commits[b].tree /\ head = b
      /\ UNCHANGED <<serverVars, net, userVars, base, checkout, run, historyVars>>
    BY <1>2, <1>3 DEF PreviewRestore, At, Tree
<1>5. PICK s \in {x \in DOMAIN commits : role[x] # "none"} :
          \E tree \in Overlays(worktree[d], Tree(s)) \ {worktree[d]} :
              commits' = Append(commits, RestoreCommit(head, tree, s))
    BY DEF PreviewRestore
<1>6. PICK tree \in Overlays(worktree[d], Tree(s)) :
          commits' = Append(commits, RestoreCommit(head, tree, s))
    BY <1>5
<1>7. PICK k : k = RestoreCommit(b, tree, s)
    OBVIOUS
<1>8. PICK row : row = [base |-> b, expected |-> b, candidate |-> c, captured |-> b,
                        protected |-> FALSE, confirmed |-> FALSE]
    OBVIOUS
<1>9. pending' = [pending EXCEPT ![d] = row] /\ commits' = Append(commits, k)
  <2>1. pending' = [pending EXCEPT ![d] = row]
      BY <1>2, <1>3, <1>4, <1>8 DEF PreviewRestore
  <2>2. commits' = Append(commits, k)
      BY <1>4, <1>6, <1>7
  <2> QED BY <2>1, <2>2
<1>10. /\ Len(commits) \in Nat /\ Backward(commits) /\ commits \in Seq(Commit)
       /\ b \in 1 .. Len(commits) /\ b \in CommitIds /\ role[b] = "mainline"
       /\ 1 .. Len(commits) \subseteq CommitIds
    BY <1>1, <1>2, <1>4, HistoryParts, Roles DEF PlaceInv
<1>11. s \in 1 .. Len(commits) /\ s \in CommitIds /\ s # NoCommit
  <2>1. s \in 1 .. Len(commits)
      BY <1>5, <1>10
  <2> QED BY <1>10, <2>1 DEF NoCommit
<1>12. tree \subseteq saved /\ tree \subseteq Files
  <2>1. tree \subseteq worktree[d] \cup commits[s].tree
      BY <1>6 DEF Overlays, Tree
  <2>2. worktree[d] \subseteq saved /\ commits[s].tree \subseteq saved /\ saved \subseteq Files
      BY <1>1, <1>11, HistoryParts DEF PlaceInv, SInv, FilesInv
  <2> QED BY <2>1, <2>2
<1>13. /\ k.first = b /\ k.second = NoCommit /\ k.tree = tree /\ k.source = s
       /\ k \in Commit
    BY <1>7, <1>10, <1>11, <1>12 DEF RestoreCommit, Commit
<1>14. /\ HistoryOK(Append(commits, k), approved, saved, deleted)
       /\ Extends(commits, Append(commits, k))
       /\ Len(Append(commits, k)) = c
       /\ Append(commits, k)[c] = k
  <2>1. HistoryOK(commits, approved, saved, deleted)
      BY DEF SInv
  <2>2. k.first \in 0 .. Len(commits) /\ k.second \in 0 .. Len(commits) /\ k.second = 0
      BY <1>10, <1>13 DEF NoCommit
  <2>3. Len(commits) + 1 <= MaxCommit
      BY <1>3, <1>4
  <2>4. Agreed(commits, approved, b)
      BY <1>10, PublishedIsAgreed
  <2> QED BY <1>3, <1>11, <1>12, <1>13, <2>1, <2>2, <2>3, <2>4, AppendKeepsHistory
          DEF NoCommit
<1>15. /\ HistoryOK(commits', approved', saved', deleted') /\ Extends(commits, commits')
       /\ Len(commits') = c /\ commits'[c] = k
    BY <1>4, <1>9, <1>14 DEF userVars, historyVars
<1>16. Grows
    BY <1>4, <1>15, MoreCommitsGrow DEF serverVars, userVars, historyVars
<1>17. Changes(pending, pending', d) /\ pending'[d] = row
    BY <1>9, PendingEntry
<1>18. Only(d)
    BY <1>4, <1>17, OnlyAt DEF SInv, Changes, userVars
<1>19. /\ worktree'[d] = worktree[d] /\ base'[d] = b /\ checkout'[d] = NoCommit
       /\ run'[d] = run[d]
    BY <1>2, <1>4 DEF userVars
<1>20. PlaceInv(d)'
  <2>1. Edited(d)
      BY <1>1, <1>4 DEF Edited, PlaceInv, userVars
  <2> QED BY <1>1, <1>2, <1>4, <1>16, <1>19, <2>1, PlaceStays
<1>21. RowInv(d)'
  <2>1. c \in 1 .. Len(commits') /\ c \in CommitIds /\ c # NoCommit
      BY <1>3, <1>4, <1>10, <1>15, CommitBound DEF CommitIds, NoCommit
  <2>2. b \in 1 .. Len(commits') /\ commits'[b] = commits[b] /\ role'[b] = "mainline"
      BY <1>4, <1>10, <1>16, GrowthFacts DEF serverVars
  <2>3. /\ row.base = b /\ row.expected = b /\ row.candidate = c /\ row.captured = b
        /\ row.protected = FALSE /\ row.confirmed = FALSE
        /\ row \in Pending
      BY <1>8, <1>10, <2>1 DEF Pending
  <2>4. commits'[b].tree \ worktree'[d] = {}
      BY <1>4, <1>19, <2>2
  <2>5. RestoreRow(d)'
      BY <1>13, <1>15, <1>17, <1>19, <2>3 DEF RestoreRow
  <2> QED BY <1>11, <1>13, <1>15, <1>17, <2>1, <2>2, <2>3, <2>4, <2>5 DEF RowInv
<1>22. RunInv(d)'
  <2>1. /\ run[d] \in Run /\ run[d].scan \subseteq saved'
        /\ run[d].confirm # NoCommit => run[d].confirm \in approved'
      BY <1>1, <1>16 DEF RunInv, Grows
  <2> QED BY <1>4, <1>19, <2>1 DEF RunInv
<1>23. FilesInv'
    BY <1>4 DEF SInv, FilesInv, serverVars, userVars, historyVars
<1> QED BY <1>4, <1>15, <1>16, <1>18, <1>20, <1>21, <1>22, <1>23, DeviceStep
        DEF DeviceInv, serverVars

LEMMA ConfirmRestoreStep ==
    ASSUME SInv, NEW d \in Devices, ConfirmRestore(d)
    PROVE  SInv'
<1>1. PlaceInv(d) /\ RowInv(d) /\ RunInv(d)
    BY DEF SInv, DeviceInv
<1>2. /\ checkout[d] = NoCommit /\ IsRestore(d) /\ run[d].phase = "idle"
      /\ UNCHANGED <<commits, serverVars, net, worktree, saved, forgotten>>
    BY DEF ConfirmRestore, At
<1>3. pending[d] # NoPending
  <2>1. pending[d].candidate \in 1 .. Len(commits)
      BY <1>2 DEF IsRestore, Restores
  <2> QED BY <2>1 DEF NoPending, NoCommit
<1>4. CASE /\ UNCHANGED <<approved, deleted>>
           /\ ResumeRestore(d, worktree[d], head) \/ DiscardRestore(d)
  <2>1. Still
      BY <1>2, <1>4 DEF Still, serverVars
  <2>2. Resumable(d, worktree[d], head)
      BY <1>1, <1>2, <1>3, HeadIsResumable DEF PlaceInv
  <2>3. CASE ResumeRestore(d, worktree[d], head)
      BY <1>2, <2>1, <2>2, <2>3, ResumeRestoreFits, QuietStep DEF SInv, FilesInv
  <2>4. CASE DiscardRestore(d)
      BY <1>2, <2>1, <2>4, DropFits, QuietStep DEF DiscardRestore, SInv, FilesInv
  <2> QED BY <1>4, <2>3, <2>4
<1>5. CASE /\ head = pending[d].expected /\ worktree[d] = CapturedTree(d)
           /\ pending' = [pending EXCEPT ![d].confirmed = TRUE]
           /\ approved' = approved \cup {pending[d].candidate}
           /\ deleted' = deleted \cup (worktree[d] \ Tree(pending[d].candidate))
           /\ run' = [run EXCEPT ![d] = [Ended EXCEPT !.phase = "verify", !.scan = worktree[d]]]
           /\ UNCHANGED <<base, checkout>>
  <2>1. PICK c : c = pending[d].candidate
      OBVIOUS
  <2>2. /\ c \in 1 .. Len(commits) /\ commits[c].source # NoCommit
        /\ commits[c].first = head /\ commits[c].second = NoCommit
        /\ worktree[d] = commits[head].tree
    <3>1. commits[c].source # NoCommit /\ RestoreRow(d) /\ c \in 1 .. Len(commits)
        BY <1>1, <1>2, <1>3, <2>1, IsRestoreMeans DEF RowInv
    <3> QED BY <1>1, <1>3, <1>5, <2>1, <3>1 DEF RowInv, RestoreRow, CapturedTree, Tree
  <2>3. PICK gone : gone = deleted \cup (worktree[d] \ commits[c].tree)
      OBVIOUS
  <2>4. deleted' = gone /\ approved' = approved \cup {c} /\ deleted \subseteq gone
      BY <1>5, <2>1, <2>3 DEF Tree
  <2>5. HistoryOK(commits', approved', saved', deleted')
    <3>1. HistoryOK(commits, approved, saved, gone)
        BY <2>4, MoreFilesKeepHistory DEF SInv
    <3>2. /\ Up(commits)[c] = {c} \cup Up(commits)[head] \cup Up(commits)[commits[c].second]
          /\ Up(commits)[0] = {}
        BY <2>2, HistoryParts, UpUnfolds
    <3>3. head \in 1 .. Len(commits) /\ Agreed(commits, approved, head)
        BY Roles
    <3>4. \A a \in Up(commits)[head] : commits[a].tree \ commits[head].tree \subseteq deleted
        BY <3>3, AncestorsDropped
    <3>5. \A a \in Up(commits)[c] : commits[a].tree \ commits[c].tree \subseteq gone
      <4> SUFFICES ASSUME NEW a \in Up(commits)[c]
                   PROVE  commits[a].tree \ commits[c].tree \subseteq gone
          OBVIOUS
      <4>1. CASE a = c
          BY <4>1
      <4>2. CASE a \in Up(commits)[head]
          BY <2>2, <2>3, <3>4, <4>2
      <4> QED BY <2>2, <3>2, <4>1, <4>2 DEF NoCommit
    <3>6. HistoryOK(commits, approved \cup {c}, saved, gone)
      <4>1. /\ {c} \subseteq 1 .. Len(commits)
            /\ \A x \in {c} : \A a \in Up(commits)[x] :
                  commits[x].source # NoCommit => commits[a].tree \ commits[x].tree \subseteq gone
          BY <2>2, <3>5
      <4> QED BY <3>1, <4>1, AgreeingKeepsHistory
    <3> QED BY <1>2, <2>4, <3>6
  <2>6. Grows
      BY <1>2, <2>4, MoreFilesGrow DEF serverVars
  <2> DEFINE r == [Ended EXCEPT !.phase = "verify", !.scan = worktree[d]]
             q == [pending[d] EXCEPT !.confirmed = TRUE]
  <2>7. run' = [run EXCEPT ![d] = r] /\ pending' = [pending EXCEPT ![d] = q]
      BY <1>5
  <2> HIDE DEF r, q
  <2>8. /\ Changes(run, run', d) /\ run'[d] = r
        /\ Changes(pending, pending', d) /\ pending'[d] = q
      BY <2>7, RunEntry, PendingEntry
  <2>9. Only(d)
      BY <1>2, <1>5, <2>8, OnlyAt DEF SInv, Changes
  <2>10. PlaceInv(d)'
    <3>1. Edited(d)
        BY <1>1, <1>2 DEF Edited, PlaceInv
    <3> QED BY <1>1, <1>2, <1>5, <2>6, <3>1, PlaceStays
  <2>11. /\ RowInv(d)' /\ pending'[d] # NoPending
         /\ pending'[d].candidate = c /\ pending'[d].confirmed = TRUE
    <3>1. pending'[d] = [pending[d] EXCEPT !.confirmed = TRUE]
        BY <2>8 DEF q
    <3>2. TRUE \in BOOLEAN /\ pending[d].candidate \in approved' /\ deleted \subseteq deleted'
          /\ approved \subseteq approved'
        BY <2>1, <2>4
    <3> QED BY <1>1, <1>2, <1>3, <1>5, <2>1, <3>1, <3>2, ConfirmedRow DEF serverVars
  <2>12. /\ run'[d] \in Run /\ run'[d].phase = "verify" /\ run'[d].scan = worktree[d]
         /\ run'[d].confirm = NoCommit
    <3>1. worktree[d] \in SUBSET Files
        BY <1>1 DEF PlaceInv, SInv, FilesInv
    <3> QED BY <2>8, <3>1 DEF r, Ended, Run, Phases
  <2>13. RunInv(d)'
    <3>1. worktree[d] \subseteq saved' /\ checkout'[d] = NoCommit
        BY <1>1, <1>2, <1>5 DEF PlaceInv
    <3> QED BY <2>11, <2>12, <3>1 DEF RunInv
  <2>14. FilesInv'
      BY <1>1, <1>2, <2>3, <2>4 DEF SInv, FilesInv, PlaceInv, serverVars
  <2> QED BY <1>2, <2>5, <2>6, <2>9, <2>10, <2>11, <2>13, <2>14, DeviceStep
          DEF DeviceInv, serverVars
<1> QED BY <1>4, <1>5 DEF ConfirmRestore

-----------------------------------------------------------------------------
(* The invariant holds.                                                    *)

LEMMA InitHolds == Init => SInv
<1> SUFFICES ASSUME Init PROVE SInv
    OBVIOUS
<1>1. PICK k : k = Captured(NoCommit, FirstTree)
    OBVIOUS
<1>2. /\ k.first = 0 /\ k.second = 0 /\ k.tree = FirstTree /\ k.source = NoCommit
      /\ k \in Commit
    BY <1>1, TreeAssumption DEF Captured, Commit, NoCommit
<1>3. /\ commits \in Seq(Commit) /\ Len(commits) = 1 /\ commits[1] = k
      /\ 1 \in CommitIds
    BY <1>1, <1>2, CommitBound DEF Init, CommitIds
<1>4. Backward(commits)
    BY <1>2, <1>3 DEF Backward
<1>5. Up(commits)[1] = {1}
  <2>1. /\ Up(commits)[0] = {}
        /\ \A x \in 1 .. Len(commits) :
              Up(commits)[x] = {x} \cup Up(commits)[commits[x].first] \cup Up(commits)[commits[x].second]
      BY <1>4, UpUnfolds
  <2>2. 1 \in 1 .. Len(commits)
      BY <1>3
  <2>3. Up(commits)[1] = {1} \cup Up(commits)[commits[1].first] \cup Up(commits)[commits[1].second]
      BY <2>1, <2>2
  <2> QED BY <1>2, <1>3, <2>1, <2>3
<1>6. saved = FirstTree /\ deleted = {} /\ dropped = {} /\ forgotten = {} /\ approved = {}
      /\ head = 1
    BY DEF Init, FirstCommit
<1>7. HistoryOK(commits, approved, saved, deleted)
    BY <1>2, <1>3, <1>4, <1>5, <1>6 DEF HistoryOK, Agreed, NoCommit
<1>8. RolesOK(commits, approved, role, head)
    BY <1>2, <1>3, <1>5, <1>6 DEF RolesOK, Agreed, Init, FirstCommit, NoCommit
<1>9. FilesInv
    BY <1>6, TreeAssumption DEF FilesInv
<1>10. Tables
    BY DEF Init, Tables
<1>11. ASSUME NEW d \in Devices PROVE DeviceInv(d)
  <2>1. /\ worktree[d] = FirstTree /\ base[d] = 1 /\ pending[d] = NoPending
        /\ checkout[d] = NoCommit /\ run[d] = Ended
      BY DEF Init, FirstCommit
  <2>2. PlaceInv(d)
      BY <1>2, <1>3, <1>6, <2>1 DEF PlaceInv, Init, FirstCommit
  <2>3. RowInv(d)
      BY <2>1, NoPendingIsPending DEF RowInv
  <2>4. RunInv(d)
    <3>1. Ended \in Run
        BY DEF Ended, Run, Phases
    <3> QED BY <2>1, <3>1 DEF RunInv, Ended
  <2> QED BY <2>2, <2>3, <2>4 DEF DeviceInv
<1>12. net = {}
    BY DEF Init
<1> QED BY <1>7, <1>8, <1>9, <1>10, <1>11, <1>12 DEF SInv

LEMMA StutteringHolds ==
    ASSUME SInv, UNCHANGED vars
    PROVE  SInv'
    BY DEF vars, SInv, HistoryOK, RolesOK, FilesInv, Tables, MessageInv, DeviceInv,
           PlaceInv, RowInv, RestoreRow, SyncRow, RunInv, serverVars, userVars, rowVars,
           historyVars

LEMMA StepHolds == SInv /\ [Next]_vars => SInv'
<1> SUFFICES ASSUME SInv, [Next]_vars PROVE SInv'
    OBVIOUS
<1>1. ASSUME NEW d \in Devices, NEW c \in {NoCommit, pending[d].candidate}, Begin(d, c)
      PROVE  SInv'
    BY <1>1, BeginStep
<1>2. ASSUME NEW d \in Devices, Continue(d) PROVE SInv'
    BY <1>2, ReadHeadStep, MergeTreesStep, VerifyStep, PublishStep, RereadStep,
       ObserveStep, ApplyStep DEF Continue
<1>3. ASSUME NEW d \in Devices, PreviewRestore(d) \/ ConfirmRestore(d) PROVE SInv'
    BY <1>3, PreviewRestoreStep, ConfirmRestoreStep
<1>4. ASSUME NEW d \in Devices, Stop(d) PROVE SInv'
    BY <1>4, StopStep
<1>5. ASSUME NEW d \in Devices, NEW f \in Files, Save(d, f) \/ Delete(d, f) PROVE SInv'
    BY <1>5, SaveStep, DeleteStep
<1>6. ASSUME NEW m \in net, HandlePut(m) \/ LosePut(m) PROVE SInv'
    BY <1>6, HandlePutStep, LosePutStep
<1>7. CASE UNCHANGED vars
    BY <1>7, StutteringHolds
<1> QED BY <1>1, <1>2, <1>3, <1>4, <1>5, <1>6, <1>7 DEF Next

LEMMA SInvHolds == Spec => []SInv
<1>1. Init => SInv
    BY InitHolds
<1>2. SInv /\ [Next]_vars => SInv'
    BY StepHolds
<1> QED BY <1>1, <1>2, PTL DEF Spec

-----------------------------------------------------------------------------
(* What follows from it.                                                   *)

LEMMA SInvHasTypes == SInv => TypeOK
<1> SUFFICES ASSUME SInv PROVE TypeOK
    OBVIOUS
<1>1. /\ commits \in Seq(Commit) /\ Len(commits) \in CommitIds
      /\ approved \subseteq CommitIds
      /\ 1 .. Len(commits) \subseteq CommitIds
    BY HistoryParts
<1>2. /\ head \in 1 .. Len(commits)
      /\ role \in [CommitIds -> {"none", "mainline", "merge-source"}]
    BY DEF SInv, RolesOK
<1>3. net \subseteq [device : Devices, candidate : CommitIds, expected : CommitIds]
    BY DEF SInv, MessageInv
<1>4. ASSUME NEW d \in Devices
      PROVE  /\ worktree[d] \in SUBSET saved /\ base[d] \in 1 .. Len(commits)
             /\ pending[d] \in Pending /\ checkout[d] \in {NoCommit} \cup CommitIds
             /\ run[d] \in Run
             /\ run[d].phase \in {"verify", "publish", "await", "observe"}
                   => pending[d] # NoPending
             /\ At(d, "checkout") => checkout[d] # NoCommit
  <2>1. PlaceInv(d) /\ RowInv(d) /\ RunInv(d)
      BY DEF SInv, DeviceInv
  <2>2. checkout[d] \in {NoCommit} \cup CommitIds
      BY <1>1, <2>1 DEF PlaceInv
  <2> QED BY <2>1, <2>2 DEF PlaceInv, RowInv, RunInv, At
<1>5. /\ worktree \in [Devices -> SUBSET saved]
      /\ base \in [Devices -> 1 .. Len(commits)]
      /\ pending \in [Devices -> Pending]
      /\ checkout \in [Devices -> {NoCommit} \cup CommitIds]
      /\ run \in [Devices -> Run]
    BY <1>4 DEF SInv, Tables
<1> QED BY <1>1, <1>2, <1>3, <1>4, <1>5 DEF TypeOK, SInv, FilesInv

(* The rows of clients and server, runs, messages and commits keep their   *)
(* types: no row names a commit that was not made.                         *)
THEOREM TypeCorrect == Spec => []TypeOK
<1>1. SInv => TypeOK
    BY SInvHasTypes
<1> QED BY <1>1, SInvHolds, PTL

(* Sync Bases and checkout targets are published commits of which the Head *)
(* descends, although a device advances its Sync Base from what it saw of  *)
(* the Head long before, and other devices publish in between.             *)
THEOREM BasesArePublished == Spec => []BindingIsPublished
<1>1. SInv => BindingIsPublished
  <2> SUFFICES ASSUME SInv, NEW d \in Devices
               PROVE  /\ role[base[d]] # "none" /\ base[d] \in Ancestors(head)
                      /\ checkout[d] # NoCommit => /\ role[checkout[d]] = "mainline"
                                                   /\ base[d] \in Ancestors(checkout[d])
      BY DEF BindingIsPublished
  <2>1. PlaceInv(d)
      BY DEF SInv, DeviceInv
  <2>2. role[base[d]] # "none" /\ base[d] \in Up(commits)[head]
      BY <2>1, Roles DEF PlaceInv
  <2> QED BY <2>1, <2>2, AncestorsAreUp DEF PlaceInv
<1> QED BY <1>1, SInvHolds, PTL

(* The row of a publication always fits the binding it was written for, so *)
(* that the next run, after a crash too, can verify it and go on: with the *)
(* capture itself, a chain of merges over it, or a restore.                *)
THEOREM RowsMatchBindings == Spec => []PendingMatchesBinding
<1>1. SInv => PendingMatchesBinding
  <2> SUFFICES ASSUME SInv, NEW d \in Devices, NEW p, p = pending[d], p # NoPending
               PROVE  /\ checkout[d] = NoCommit
                      /\ ~ IsRestore(d) =>
                            commits[p.captured] = Captured(base[d], CapturedTree(d))
                      /\ IF IsRestore(d)
                         THEN {p.base, p.expected, p.captured,
                               commits[p.candidate].first} = {base[d]}
                         ELSE IF p.candidate = p.captured
                         THEN p.base = base[d] /\ p.expected = base[d]
                         ELSE /\ commits[p.candidate].first = p.expected
                              /\ p.captured \in SecondChain(p.candidate)
                              /\ p.base = commits[commits[p.candidate].second].first
                              /\ \A c \in SecondChain(p.candidate) :
                                    base[d] \in Ancestors(commits[c].first)
      BY DEF PendingMatchesBinding
  <2>1. PlaceInv(d) /\ RowInv(d)
      BY DEF SInv, DeviceInv
  <2>2. checkout[d] = NoCommit
      BY <2>1 DEF PlaceInv
  <2>3. /\ commits[p.candidate].first = p.expected
        /\ IsRestore(d) => RestoreRow(d)
        /\ ~ IsRestore(d) => SyncRow(d)
      BY <2>1, IsRestoreMeans DEF RowInv
  <2>4. CASE IsRestore(d)
    <3>1. p.base = base[d] /\ p.expected = base[d] /\ p.captured = base[d]
        BY <2>3, <2>4 DEF RestoreRow
    <3> QED BY <2>2, <2>3, <2>4, <3>1
  <2>5. CASE ~ IsRestore(d)
    <3>1. /\ commits[p.captured] = Captured(base[d], commits[p.captured].tree)
          /\ p.captured \in Chain(commits)[p.candidate]
          /\ \A c \in Chain(commits)[p.candidate] :
                base[d] \in Up(commits)[commits[c].first]
          /\ IF p.candidate = p.captured
             THEN p.base = base[d] /\ p.expected = base[d]
             ELSE p.base = commits[commits[p.candidate].second].first
        BY <2>3, <2>5 DEF SyncRow
    <3>2. CapturedTree(d) = commits[p.captured].tree
        BY DEF CapturedTree, Tree
    <3>3. SecondChain(p.candidate) = Chain(commits)[p.candidate]
        BY SecondChainIsChain
    <3>4. \A c \in SecondChain(p.candidate) : base[d] \in Ancestors(commits[c].first)
        BY <3>1, <3>3, AncestorsAreUp
    <3> QED BY <2>2, <2>3, <2>5, <3>1, <3>2, <3>3, <3>4
  <2> QED BY <2>4, <2>5
<1> QED BY <1>1, SInvHolds, PTL

-----------------------------------------------------------------------------
(* Steps.                                                                  *)

(* The Head moves only to a candidate the server accepts.                  *)
LEMMA HeadMoves ==
    ASSUME Next
    PROVE  \/ head' = head
           \/ /\ \E m \in net : /\ MeetsHead(m) /\ Accepts(m.candidate)
                                /\ head' = m.candidate
              /\ UNCHANGED commits
<1>1. ASSUME NEW d \in Devices, NEW c, Begin(d, c) PROVE head' = head
    BY <1>1 DEF Begin, serverVars
<1>2. ASSUME NEW d \in Devices, Continue(d) PROVE head' = head
    BY <1>2 DEF Continue, ReadHead, MergeTrees, Verify, Publish, Reread, Observe, Apply,
                serverVars
<1>3. ASSUME NEW d \in Devices, PreviewRestore(d) \/ ConfirmRestore(d) \/ Stop(d)
      PROVE  head' = head
    BY <1>3 DEF PreviewRestore, ConfirmRestore, Stop, serverVars
<1>4. ASSUME NEW d \in Devices, NEW f, Save(d, f) \/ Delete(d, f) PROVE head' = head
    BY <1>4 DEF Save, Delete, serverVars
<1>5. ASSUME NEW m \in net, LosePut(m) PROVE head' = head
    BY <1>5 DEF LosePut, serverVars
<1>6. ASSUME NEW m \in net, HandlePut(m)
      PROVE  \/ head' = head
             \/ /\ MeetsHead(m) /\ Accepts(m.candidate) /\ head' = m.candidate
                /\ UNCHANGED commits
    BY <1>6 DEF HandlePut, serverVars
<1> QED BY <1>1, <1>2, <1>3, <1>4, <1>5, <1>6 DEF Next

LEMMA CommitsStay ==
    ASSUME SInv, Next
    PROVE  \A c \in 1 .. Len(commits) : commits'[c] = commits[c]
<1>1. commits \in Seq(Commit) /\ Len(commits) \in Nat
    BY HistoryParts
<1>2. \A k : \A c \in 1 .. Len(commits) : Append(commits, k)[c] = commits[c]
    BY <1>1
<1>3. \A x, y : \A c \in 1 .. Len(commits) : (commits \o <<x, y>>)[c] = commits[c]
    BY <1>1
<1>4. ASSUME NEW d \in Devices, NEW c, Begin(d, c) PROVE commits' = commits
    BY <1>4 DEF Begin
<1>5. ASSUME NEW d \in Devices, ReadHead(d)
      PROVE  commits' = commits \/ \E k : commits' = Append(commits, k)
    BY <1>5 DEF ReadHead, Start
<1>6. ASSUME NEW d \in Devices, MergeTrees(d)
      PROVE  \/ commits' = commits \/ \E k : commits' = Append(commits, k)
             \/ \E x, y : commits' = commits \o <<x, y>>
    BY <1>6 DEF MergeTrees, StartMerge, ReplacePending
<1>7. ASSUME NEW d \in Devices,
             Verify(d) \/ Publish(d) \/ Reread(d) \/ Observe(d) \/ Apply(d)
      PROVE  commits' = commits
    BY <1>7 DEF Verify, Publish, Reread, Observe, Apply
<1>8. ASSUME NEW d \in Devices, PreviewRestore(d)
      PROVE  \E k : commits' = Append(commits, k)
    BY <1>8 DEF PreviewRestore
<1>9. ASSUME NEW d \in Devices, ConfirmRestore(d) \/ Stop(d) PROVE commits' = commits
    BY <1>9 DEF ConfirmRestore, Stop
<1>10. ASSUME NEW d \in Devices, NEW f, Save(d, f) \/ Delete(d, f) PROVE commits' = commits
    BY <1>10 DEF Save, Delete
<1>11. ASSUME NEW m \in net, HandlePut(m) \/ LosePut(m) PROVE commits' = commits
    BY <1>11 DEF HandlePut, LosePut
<1>12. \/ commits' = commits \/ \E k : commits' = Append(commits, k)
       \/ \E x, y : commits' = commits \o <<x, y>>
    BY <1>4, <1>5, <1>6, <1>7, <1>8, <1>9, <1>10, <1>11 DEF Next, Continue
<1> QED BY <1>2, <1>3, <1>12

(* A checkout takes from a worktree only what users deleted.               *)
LEMMA WorktreesKeepFiles ==
    ASSUME SInv, Next, NEW d \in Devices
    PROVE  worktree[d] \ worktree'[d] \subseteq deleted'
<1>1. ASSUME NEW e \in Devices, NEW c, Begin(e, c) PROVE worktree' = worktree
    BY <1>1 DEF Begin, userVars
<1>2. ASSUME NEW e \in Devices,
             \/ ReadHead(e) \/ MergeTrees(e) \/ Verify(e) \/ Publish(e) \/ Reread(e)
             \/ Observe(e) \/ PreviewRestore(e) \/ ConfirmRestore(e) \/ Stop(e)
      PROVE  worktree' = worktree
    BY <1>2 DEF ReadHead, MergeTrees, Verify, Publish, Reread, Observe, PreviewRestore,
                ConfirmRestore, Stop, userVars
<1>3. ASSUME NEW m \in net, HandlePut(m) \/ LosePut(m) PROVE worktree' = worktree
    BY <1>3 DEF HandlePut, LosePut, userVars
<1>4. ASSUME NEW e \in Devices, NEW f, Save(e, f) PROVE worktree[d] \subseteq worktree'[d]
  <2>1. worktree' = [worktree EXCEPT ![e] = worktree[e] \cup {f}]
      BY <1>4 DEF Save
  <2> QED BY <2>1 DEF SInv, Tables
<1>5. ASSUME NEW e \in Devices, NEW f, Delete(e, f)
      PROVE  worktree[d] \ worktree'[d] \subseteq deleted'
  <2>1. /\ worktree' = [worktree EXCEPT ![e] = worktree[e] \ {f}]
        /\ deleted' = deleted \cup {f}
      BY <1>5 DEF Delete
  <2> QED BY <2>1 DEF SInv, Tables
<1>6. ASSUME NEW e \in Devices, Apply(e)
      PROVE  worktree[d] \ worktree'[d] \subseteq deleted'
  <2>1. CASE worktree' = worktree
      BY <2>1
  <2>2. CASE /\ worktree[e] = Tree(base[e])
             /\ worktree' = [worktree EXCEPT ![e] = Tree(checkout[e])]
    <3>1. PlaceInv(e) /\ RunInv(e) /\ run[e].phase = "checkout"
        BY <1>6 DEF SInv, DeviceInv, Apply, At
    <3>2. /\ checkout[e] \in 1 .. Len(commits) /\ role[checkout[e]] = "mainline"
          /\ base[e] \in Up(commits)[checkout[e]]
        BY <3>1 DEF PlaceInv, RunInv
    <3>3. commits[base[e]].tree \ commits[checkout[e]].tree \subseteq deleted
        BY <3>2, PublishedIsAgreed, AncestorsDropped
    <3>4. deleted' = deleted
        BY <1>6 DEF Apply
    <3>5. CASE d = e
      <4>1. worktree[d] = commits[base[e]].tree /\ worktree'[d] = commits[checkout[e]].tree
          BY <2>2, <3>5 DEF SInv, Tables, Tree
      <4> QED BY <3>3, <3>4, <4>1
    <3>6. CASE d # e
      <4>1. worktree'[d] = worktree[d]
          BY <2>2, <3>6 DEF SInv, Tables
      <4> QED BY <4>1
    <3> QED BY <3>5, <3>6
  <2> QED BY <1>6, <2>1, <2>2 DEF Apply
<1> QED BY <1>1, <1>2, <1>3, <1>4, <1>5, <1>6 DEF Next, Continue

(* No merge and no checkout loses a file, whatever users, crashes and late *)
(* PUTs do between what a run reads and what it does with it: a version    *)
(* leaves a worktree or the Head only because some user deleted it.        *)
THEOREM NoFileIsLost == Spec => NothingLost
<1>1. SInv /\ [Next]_vars =>
         [/\ \A d \in Devices : worktree[d] \ worktree'[d] \subseteq deleted'
          /\ Tree(head) \ Tree(head)' \subseteq deleted]_vars
  <2> SUFFICES ASSUME SInv, Next
               PROVE  /\ \A d \in Devices : worktree[d] \ worktree'[d] \subseteq deleted'
                      /\ Tree(head) \ Tree(head)' \subseteq deleted
      OBVIOUS
  <2>1. \A d \in Devices : worktree[d] \ worktree'[d] \subseteq deleted'
      BY WorktreesKeepFiles
  <2>2. commits[head].tree \ commits'[head'].tree \subseteq deleted
    <3>1. CASE head' = head
        BY <3>1, CommitsStay, Roles
    <3>2. CASE \E m \in net : /\ MeetsHead(m) /\ Accepts(m.candidate)
                              /\ head' = m.candidate /\ commits' = commits
        BY <3>2, AcceptedFacts
    <3> QED BY <3>1, <3>2, HeadMoves
  <2> QED BY <2>1, <2>2 DEF Tree
<1> QED BY <1>1, SInvHolds, PTL DEF Spec, NothingLost

(* The server never takes a publication that removes protected files, or   *)
(* restores old ones, without a user's word for that very candidate: not   *)
(* from a later run, nor by merging an unconfirmed candidate into another. *)
THEOREM OnlyConfirmedIsPublished == Spec => PublicationsConfirmed
<1>1. SInv /\ [Next]_vars =>
         [head' # head /\ (Protected(Tree(head), Tree(head)') \/ head' \in Restores)
            => head' \in approved]_vars
  <2> SUFFICES ASSUME SInv, Next, head' # head,
                      Protected(Tree(head), Tree(head)') \/ head' \in Restores
               PROVE  head' \in approved
      OBVIOUS
  <2>1. PICK m \in net : /\ MeetsHead(m) /\ Accepts(m.candidate)
                         /\ head' = m.candidate /\ commits' = commits
      BY HeadMoves
  <2>2. CASE Protected(Tree(head), Tree(head)')
    <3>1. Protected(commits[head].tree, commits[m.candidate].tree)
        BY <2>1, <2>2 DEF Tree
    <3> QED BY <2>1, <3>1, AcceptedFacts
  <2>3. CASE head' \in Restores
      BY <2>1, <2>3, AcceptedFacts DEF Restores, Agreed
  <2> QED BY <2>2, <2>3
<1> QED BY <1>1, SInvHolds, PTL DEF Spec, PublicationsConfirmed
===============================================================================
