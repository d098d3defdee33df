------------------------ MODULE MCGarbageCollection ------------------------
(***************************************************************************)
(* Instances of GarbageCollection for TLC.                                 *)
(***************************************************************************)
EXTENDS GarbageCollection

CONSTANTS r1, tree, block

OneRequest == {r1}

(* Commit 2 is captured beside the first one and commit 3 merges it; the   *)
(* block of 2 is also the block of 3.                                      *)
ThreeCommits == 1 .. 3

MergeOfTwo ==
    {[first    |-> <<0, 1, 1>>,
      second   |-> <<0, 0, 2>>,
      snapshot |-> <<{tree}, {tree, block}, {tree, block}>>,
      refused  |-> {}]}

TreeAndBlock == {tree, block}

OneBlock == {block}

FirstUploaded == {1, tree}
=============================================================================
