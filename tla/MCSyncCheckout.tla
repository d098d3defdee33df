--------------------------- MODULE MCSyncCheckout ---------------------------
(***************************************************************************)
(* Small checkouts for TLC.                                                *)
(***************************************************************************)
EXTENDS SyncCheckout

U(name) == <<"user", name, 0>>
A == <<U("a")>>
B == <<U("b")>>
D == <<U("d")>>
DF == <<U("d"), U("f")>>
DG == <<U("d"), U("g")>>
Conflict(p) == Renamed(p, "user", 1)

Nothing == <<>>
File(p, bytes, mtime) == p :> [kind |-> "File", data |-> <<bytes, mtime>>]
Directory(p, mtime) == p :> [kind |-> "Directory", data |-> <<"", mtime>>]
With(S, e, k) == {[s EXCEPT !.edits = e, !.kills = k] : s \in S}

\* remotely, one file changed and one was deleted; a file changed inside a directory
TwoFiles == File(A, "a1", 1) @@ File(B, "b1", 1)
OneInside(bytes, mtime) == Directory(D, mtime) @@ File(DF, bytes, mtime)
ChangedFile == Scenario(TwoFiles, TwoFiles, <<File(A, "a2", 3)>>, {})
ChangedDirectory == Scenario(OneInside("f1", 1), OneInside("f1", 1), <<OneInside("f2", 3)>>, {})

\* a file changed on both sides, and one inside a directory
FileConflict == Scenario(File(A, "a0", 1), File(A, "a1", 2), <<File(A, "a2", 3)>>, {Conflict(A)})
NestedConflict == Scenario(OneInside("f0", 1), OneInside("f1", 2), <<OneInside("f2", 3)>>, {Conflict(DF)})

\* bind into an empty worktree; unbind, in the middle of a bind or of a synchronisation
FirstBind == [Scenario(Nothing, Nothing, <<File(A, "a1", 1) @@ OneInside("f1", 1)>>, {A}) EXCEPT !.bind = TRUE]
Unbinds(S) == {[s EXCEPT !.unbind = TRUE] : s \in S}

\* every merge over a small base: what can have become of one file, and of a directory
FileSides(mtime, other) ==
    {Nothing, File(A, "a0", 1), File(A, "a0", mtime), File(A, "a9", mtime), File(A, other, mtime)}
DirectorySides(mtime, other) ==
    {Nothing, OneInside("f0", 1), OneInside(other, mtime), Directory(D, mtime), File(D, other, mtime),
     Directory(D, mtime) @@ File(DF, "f0", 1) @@ File(DG, other, mtime)}
Merges(bases, locals, remotes) ==
    {s \in {Scenario(b, l, <<r>>, {}) : b \in bases, l \in locals, r \in remotes} : s.target # s.base}
MergedFiles == Merges({Nothing, File(A, "a0", 1)}, FileSides(2, "a1"), FileSides(3, "a2"))
MergedDirectories ==
    Merges({Nothing, OneInside("f0", 1), File(D, "d0", 1)}, DirectorySides(2, "f1"), DirectorySides(3, "f2"))

\* two files in a directory that both sides kept
PairSides(mtime, f, g) ==
    {Directory(D, mtime) @@ x @@ y : x \in {Nothing, File(DF, "f0", 1), File(DF, f, mtime)},
                                     y \in {Nothing, File(DG, "g0", 1), File(DG, g, mtime)}}
MergedPairs == Merges({OneInside("f0", 1) @@ File(DG, "g0", 1)}, PairSides(2, "f1", "g1"), PairSides(3, "f2", "g2"))

\* candidates that were overtaken: a second conflict of one file, a directory that becomes a file
MergedAgain ==
    {Scenario(File(A, "a0", 1), File(A, "a1", 2), <<File(A, "a2", 3), File(A, "a3", 4)>>, {}),
     Scenario(OneInside("f0", 1), Directory(D, 2) @@ File(DF, "f0", 1) @@ File(DG, "g1", 2),
              <<OneInside("f2", 3), File(D, "d3", 4)>>, {})}

\* restores of one path or of everything, over a file, a directory, or neither of them
RestoredSides ==
    {OneInside("f0", 1), OneInside("f1", 2), File(D, "d1", 2), Directory(D, 2) @@ File(DG, "g1", 2),
     OneInside("f1", 2) @@ File(DG, "g1", 2) @@ File(A, "a1", 2), File(A, "a2", 3)}
Restores ==
    {s \in {Restoration(x[1], x[2], p) : x \in RestoredSides \X RestoredSides, p \in {<<>>, A, D, DF}} :
        /\ s.restore.path \in {<<>>} \cup DOMAIN s.restore.source
        /\ s.target # s.base}

Syncs == {ChangedFile, ChangedDirectory, FileConflict, NestedConflict}
All == With(Syncs \cup {FirstBind}, 1, 2)
       \cup With({ChangedFile, ChangedDirectory, FirstBind}, 2, 2)
       \cup With({FileConflict, NestedConflict}, 2, 1)
       \cup With(Unbinds(Syncs \cup {FirstBind}), 1, 2)
       \cup With(Unbinds({FileConflict, NestedConflict}), 2, 1)
       \cup With(MergedFiles \cup MergedDirectories \cup MergedPairs \cup MergedAgain \cup Restores, 0, 1)

\* a directory whose captured file the user still writes; unbind after a kill
Edited       == With({ChangedDirectory}, 1, 0)
UnboundEarly == With(Unbinds({ChangedFile}), 0, 1)

Texts == << <<"x1", 8>>, <<"x2", 9>> >>
=============================================================================
