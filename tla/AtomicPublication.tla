------------------------- MODULE AtomicPublication -------------------------
(***************************************************************************)
(* What the server promises about the Head of a library: a publication is  *)
(* one atomic step.  At the instant the Head moves, everything validation  *)
(* is there to establish is true at once - the candidate follows the Head, *)
(* the commits it introduces are new, hang off the mainline and form the   *)
(* whole second-parent chain, and every object of each of them is stored.  *)
(*                                                                         *)
(* HeadPublication implements this specification with requests that read,  *)
(* validate and compare-and-swap in separate steps.                        *)
(***************************************************************************)
EXTENDS Integers

CONSTANTS Commits, Contents, Graphs, Uploaded

VARIABLES graph, head, version, published, role, stored

vars == <<graph, head, version, published, role, stored>>

NoCommit == 0

Unpublished    == [kind |-> "none", mainline |-> NoCommit]
Mainline(c)    == [kind |-> "mainline", mainline |-> c]
MergeSource(c) == [kind |-> "merge-source", mainline |-> c]

Init ==
    /\ graph \in Graphs
    /\ head = NoCommit
    /\ version = 0
    /\ published = {}
    /\ role = [c \in Commits |-> Unpublished]
    /\ stored = Uploaded

(* S is what the second parents lead to from c, and nothing else.          *)
SecondParentChain(c, S) ==
    /\ \A x \in S \cup {c} : graph.second[x] \in S \cup {NoCommit}
    /\ \A s \in S : \E x \in S \cup {c} : graph.second[x] = s

Complete(x) == x \in stored /\ graph.snapshot[x] \subseteq stored

(* The Head moves to c, which introduces the commits S.                    *)
Publish(c, S) ==
    /\ graph.first[c] = head
    /\ SecondParentChain(c, S)
    /\ \A x \in S \cup {c} :
          x \notin published /\ x \notin graph.refused /\ Complete(x)
    /\ \A s \in S : /\ graph.first[s] \in published
                    /\ role[graph.first[s]] = Mainline(graph.first[s])
    /\ head' = c
    /\ version' = version + 1
    /\ published' = published \cup S \cup {c}
    /\ role' = [x \in Commits |-> IF x = c THEN Mainline(c)
                                  ELSE IF x \in S THEN MergeSource(c)
                                  ELSE role[x]]
    /\ UNCHANGED <<graph, stored>>

(* Objects only ever appear.                                               *)
Upload ==
    /\ \E o \in Commits \cup Contents : stored' = stored \cup {o}
    /\ UNCHANGED <<graph, head, version, published, role>>

Next == Upload \/ \E c \in Commits, S \in SUBSET Commits : Publish(c, S)

Spec == Init /\ [][Next]_vars
=============================================================================
