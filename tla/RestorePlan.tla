----------------------------- MODULE RestorePlan -----------------------------
(***************************************************************************)
(* What a restore of old files makes of the current tree, and what its     *)
(* preview tells the user (src/cmd/filecloud/library_restore_planner.go).  *)
(* current and source are trees as in TreeMerge; the user chooses a path   *)
(* of the source, or the whole of it (<<>>).                               *)
(*                                                                         *)
(* Left out: the budgets, the counts of the preview, which count the paths *)
(* of the sets below, and its list of the first hundred of them.           *)
(***************************************************************************)
EXTENDS TreeMerge

(* On the way to the chosen path, or below it.                             *)
Reaches(path, q) == IsPrefix(path, q) \/ IsPrefix(q, path)

Unplanned == [tree |-> <<>>, changed |-> {}, removed |-> {}]
Join(m, n) == [tree |-> m.tree @@ n.tree, changed |-> m.changed \cup n.changed,
               removed |-> m.removed \cup n.removed]
CreatedSubtree(t) == [tree |-> t, changed |-> DOMAIN t, removed |-> {}]
PreservedSubtree(t) == [tree |-> t, changed |-> {}, removed |-> {}]

(* applyPath follows the chosen path and mergeDirectories both trees below *)
(* it: either way two directories are merged name by name.                 *)
BothDirectories(current, source, path, q) ==
    Reaches(path, q) /\ IsDir(current, q) /\ IsDir(source, q)

MergedDirectory(current, source, q, below) ==
    LET tree == q :> [kind |-> "Directory", data |-> Later(current[q].data, source[q].data)] @@ below.tree
    IN  [below EXCEPT !.tree = tree,
                      !.changed = @ \cup (IF tree = Subtree(current, q) THEN {} ELSE {q})]

ReplaceNode(current, source, q) ==
    [tree |-> Subtree(source, q), changed |-> Under(source, q), removed |-> Under(current, q) \ {q}]

(* Mutant of OverlayEntry: a directory of the source replaces the current  *)
(* one, with what only that one has.                                       *)
OverlayReplacing(current, source, path, q, below) ==
    IF BothDirectories(current, source, path, q) /\ IsPrefix(path, q)
    THEN [below EXCEPT !.tree = Subtree(source, q), !.changed = @ \cup {q}]
    ELSE PreservedSubtree(IF Reaches(path, q) /\ q \in DOMAIN source THEN Subtree(source, q) ELSE Subtree(current, q))

OverlayEntry(current, source, path, q, below) ==
    CASE q \notin DOMAIN source \/ ~ Reaches(path, q) -> PreservedSubtree(Subtree(current, q))
      [] q \in DOMAIN source \ DOMAIN current /\ Reaches(path, q) ->
             CreatedSubtree([x \in {y \in Under(source, q) : Reaches(path, y)} |-> source[x]])
      [] BothDirectories(current, source, path, q) -> MergedDirectory(current, source, q, below)
      [] Reaches(path, q) /\ IsFile(current, q) /\ IsFile(source, q) ->
             [tree |-> Subtree(source, q), removed |-> {},
              changed |-> IF current[q] = source[q] THEN {} ELSE {q}]
      [] OTHER -> ReplaceNode(current, source, q)

(* planRestoreOverlay, for a path the source has.                          *)
Overlay(current, source, path) ==
    LET all == {q \in DOMAIN current \cup DOMAIN source : q \in DOMAIN current \/ Reaches(path, q)}
        below[p \in {<<>>} \cup {q \in all : BothDirectories(current, source, path, q)}] ==
            FoldSet(LAMBDA q, s : Join(OverlayEntry(current, source, path, q,
                        IF BothDirectories(current, source, path, q) THEN below[q] ELSE Unplanned), s),
                    Unplanned, {q \in all : Parent(q) = p})
    IN  below[<<>>]
=============================================================================
