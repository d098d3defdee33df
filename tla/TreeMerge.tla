------------------------------ MODULE TreeMerge ------------------------------
(***************************************************************************)
(* The three-way merge of snapshots by path                                *)
(* (src/cmd/filecloud/library_merge.go): base b, local l and remote r are  *)
(* trees, functions from paths to [kind, data] without the root.  The      *)
(* identifier of a directory is what is below it.                          *)
(*                                                                         *)
(* Remote keeps the original path of a conflict, the local object gets a   *)
(* conflict name beside it.  The lineage tells where each captured file    *)
(* went, so that the checkout can move the file itself there.              *)
(*                                                                         *)
(* Left out: names that differ only in case, conflict names that would be  *)
(* too long, a conflict about an object that has a conflict name itself.   *)
(***************************************************************************)
EXTENDS Worktree

Subtree(t, p) == [q \in Under(t, p) |-> t[q]]
Same(t, u, p) == Subtree(t, p) = Subtree(u, p)
Relocated(t, p, q) == [x \in {q \o Rest(p, y) : y \in Under(t, p)} |-> t[p \o Rest(q, x)]]
Later(d, e) == IF d[2] > e[2] THEN d ELSE e

(***************************************************************************)
(* What becomes of the entry at p, once the merge gets there.              *)
(***************************************************************************)
AllDiffer(b, l, r, p) == ~ Same(l, b, p) /\ ~ Same(r, b, p) /\ ~ Same(l, r, p)

(* Mutant of LocalConflictCopy: of two different files the later one wins. *)
ConflictOfKinds(b, l, r, p) ==
    /\ AllDiffer(b, l, r, p) /\ p \in DOMAIN l
    /\ p \notin DOMAIN r \/ l[p].kind # r[p].kind

LocalConflictCopy(b, l, r, p) ==
    /\ AllDiffer(b, l, r, p) /\ p \in DOMAIN l
    /\ \/ p \notin DOMAIN r
       \/ l[p].kind # r[p].kind
       \/ l[p].kind = "File" /\ l[p].data[1] # r[p].data[1]
Descends(b, l, r, p) == AllDiffer(b, l, r, p) /\ IsDir(l, p) /\ IsDir(r, p)

ConflictCopyName(b, l, r, p) ==
    LET occupied == DOMAIN b \cup DOMAIN l \cup DOMAIN r
        free == {n \in 1 .. MaxOrdinal : Renamed(p, "user", n) \notin occupied}
    IN  Renamed(p, "user", Min(free))

(* Only a directory that is the remote's, or only the local one's, keeps   *)
(* that one's mtime; otherwise the later one.                              *)
DirectoryData(l, r, p, below) ==
    LET Contents(t) == [q \in Under(t, p) \ {p} |-> t[q]] IN
    IF below = Contents(r) /\ below # Contents(l) THEN r[p].data
    ELSE IF below = Contents(l) /\ below # Contents(r) THEN l[p].data
    ELSE Later(l[p].data, r[p].data)

(***************************************************************************)
(* The merge of two trees over their base.                                 *)
(***************************************************************************)
MergeEntry(b, l, r, p, below) ==
    CASE LocalConflictCopy(b, l, r, p) -> Subtree(r, p) @@ Relocated(l, p, ConflictCopyName(b, l, r, p))
      [] Same(l, b, p) -> Subtree(r, p)
      [] ~ Same(l, b, p) /\ (Same(r, b, p) \/ Same(l, r, p)) -> Subtree(l, p)
      [] AllDiffer(b, l, r, p) /\ p \notin DOMAIN l -> Subtree(r, p)
      [] Descends(b, l, r, p) ->
             (p :> [kind |-> "Directory", data |-> DirectoryData(l, r, p, below)]) @@ below
      [] OTHER -> p :> [kind |-> "File", data |-> Later(l[p].data, r[p].data)]

Merge(b, l, r) ==
    LET all == DOMAIN b \cup DOMAIN l \cup DOMAIN r
        below[p \in {<<>>} \cup {q \in all : Descends(b, l, r, q)}] ==
            FoldSet(LAMBDA q, t : MergeEntry(b, l, r, q, IF Descends(b, l, r, q) THEN below[q] ELSE <<>>) @@ t,
                    <<>>, {q \in all : Parent(q) = p})
    IN  below[<<>>]

(***************************************************************************)
(* The lineage: a set of [source, target], one for each captured file that *)
(* is still in the local tree.  It is followed along the entries the merge *)
(* meets.                                                                  *)
(***************************************************************************)
CapturedFileLineage(t) == {[source |-> p, target |-> p] : p \in {q \in DOMAIN t : IsFile(t, q)}}

Met(b, l, r) ==
    {p \in DOMAIN b \cup DOMAIN l \cup DOMAIN r :
        \A i \in 1 .. Len(p) - 1 : Descends(b, l, r, SubSeq(p, 1, i))}

(* Mutant of MoveLineage: what is below a directory stays behind.          *)
MoveLineageOfFile(m, p, q) == IF m.target = p THEN [m EXCEPT !.target = q] ELSE m

MoveLineage(m, p, q) == IF IsPrefix(p, m.target) THEN [m EXCEPT !.target = q \o Rest(p, @)] ELSE m

Dropped(m, b, l, r) ==
    \E p \in Met(b, l, r) : /\ Same(l, b, p) /\ ~ Same(r, b, p)
                            /\ m.target = p \/ (IsDir(l, p) /\ IsPrefix(p, m.target))
Followed(m, b, l, r) ==
    LET over == {p \in Met(b, l, r) : LocalConflictCopy(b, l, r, p) /\ IsPrefix(p, m.target)} IN
    IF over = {} THEN m
    ELSE LET p == CHOOSE q \in over : TRUE IN MoveLineage(m, p, ConflictCopyName(b, l, r, p))
MergeLineage(lineage, b, l, r) == {Followed(m, b, l, r) : m \in {x \in lineage : ~ Dropped(x, b, l, r)}}

(***************************************************************************)
(* A candidate that is overtaken is merged again: the Head it was merged   *)
(* with is the new base, the candidate the new local tree.                 *)
(***************************************************************************)
Replay(base, captured, remotes) ==
    FoldLeft(LAMBDA s, r : [base |-> r, tree |-> Merge(s.base, s.tree, r),
                            lineage |-> MergeLineage(s.lineage, s.base, s.tree, r)],
             [base |-> base, tree |-> captured, lineage |-> CapturedFileLineage(captured)], remotes)

MovedConflictPromotions(lineage) == SetToSeq({m \in lineage : m.source # m.target})
=============================================================================
