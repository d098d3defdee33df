------------------------- MODULE MCHeadPublication -------------------------
(***************************************************************************)
(* Instances of HeadPublication for TLC.                                   *)
(***************************************************************************)
EXTENDS HeadPublication, PublishedRoles, TLC

CONSTANTS r1, r2, tree, other

MCRequests == {r1, r2}

(* Every graph of four commits in which commit 1 is the only one without   *)
(* parents; all commits share one snapshot object.                         *)
FourCommits == 1 .. 4

AllParents(parent(_, _)) == {f \in [FourCommits -> 0 .. 3] :
                                \A c \in FourCommits : parent(c, f[c])}

AllGraphs ==
    {[first |-> f, second |-> s,
      snapshot |-> [c \in FourCommits |-> {tree}], refused |-> {}] :
        f \in AllParents(LAMBDA c, p : IF c = 1 THEN p = 0 ELSE p \in 1 .. c - 1),
        s \in AllParents(LAMBDA c, p : IF c = 1 THEN p = 0 ELSE p \in 0 .. c - 1)}

OneTree == {tree}

AllUploaded == FourCommits \cup OneTree

(* One history: commits 2 and 3 are captured beside commit 1, 3 after 2,   *)
(* and 4 merges them.  The snapshots of 2 and 4 hold an object no other    *)
(* commit needs.                                                           *)
MergeHistory(refused) ==
    [first    |-> <<0, 1, 1, 1>>,
     second   |-> <<0, 0, 2, 3>>,
     snapshot |-> <<{tree}, {tree, other}, {tree}, {tree, other}>>,
     refused  |-> refused]

(* The same history with a merge source of another author.                 *)
TwoGraphs == {MergeHistory({}), MergeHistory({2})}

TwoTrees == {tree, other}

(* Two commits are there, the second without its snapshot; the rest has to *)
(* be uploaded.                                                            *)
FirstUploaded == {1, 2, tree}

Symmetry == Permutations(MCRequests)
=============================================================================
