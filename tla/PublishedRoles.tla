--------------------------- MODULE PublishedRoles ---------------------------
(***************************************************************************)
(* The proof of history roles that migration 6 runs over a library written *)
(* by an older server (internal/storage/published_roles.go).  It rebuilds  *)
(* every role from the Head and the commit objects alone, or refuses.      *)
(***************************************************************************)
EXTENDS HeadPublication

(* The commits met on the way back from c over the parents next gives; the *)
(* walk ends at a commit that has none.                                    *)
Chains(next) ==
    LET chain[c \in CommitOrNone] ==
            IF c = NoCommit THEN {} ELSE {c} \cup chain[next[c]]
    IN  chain

Readable(c) == c \in stored

(* The commits the second parent of a mainline commit m leads to.          *)
SourcesOf(m, seconds) == seconds[graph.second[m]]

(* provePublishedCommitRoles succeeds.                                     *)
ProofAccepts(firsts, seconds) ==
    /\ \A m \in firsts[head] :
          /\ Readable(m) /\ m \notin graph.refused
          /\ SourcesOf(m, seconds) \cap firsts[head] = {}
          /\ \A n \in firsts[head] \ {m} :
                SourcesOf(m, seconds) \cap SourcesOf(n, seconds) = {}
          /\ Cardinality(SourcesOf(m, seconds)) <= MaxIntroducedCommits
          /\ \A s \in SourcesOf(m, seconds) :
                /\ Readable(s) /\ ShapedSource(s)
                /\ graph.first[s] \in firsts[graph.first[m]]
    /\ published = firsts[head] \cup
                   UNION {SourcesOf(m, seconds) : m \in firsts[head]}

(* The roles it finds.                                                     *)
ProvenRoles(firsts, seconds) ==
    [c \in Commits |->
        IF c \in firsts[head] THEN Mainline(c)
        ELSE IF \E m \in firsts[head] : c \in SourcesOf(m, seconds)
        THEN MergeSource(CHOOSE m \in firsts[head] : c \in SourcesOf(m, seconds))
        ELSE Unpublished]

(* The rows written one publication at a time are the rows the migration   *)
(* would prove from the objects: history recorded online and history read  *)
(* offline never disagree, and the migration accepts every library the     *)
(* server has written.                                                     *)
RolesProvable ==
    LET firsts  == Chains(graph.first)
        seconds == Chains(graph.second)
    IN  ProofAccepts(firsts, seconds) /\ role = ProvenRoles(firsts, seconds)
=============================================================================
