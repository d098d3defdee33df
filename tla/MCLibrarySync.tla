--------------------------- MODULE MCLibrarySync ---------------------------
(***************************************************************************)
(* Instances of LibrarySync for TLC.                                       *)
(***************************************************************************)
EXTENDS LibrarySync, TLC

CONSTANTS laptop, desktop, draft, notes

TwoDevices == {laptop, desktop}

TwoFiles == {draft, notes}

OneFile == {draft}

Nothing == {}

\* Both are saved below one directory.
OneFolder == {TwoFiles}

Symmetry == Permutations(TwoDevices)
=============================================================================
