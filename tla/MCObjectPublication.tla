------------------------ MODULE MCObjectPublication ------------------------
(***************************************************************************)
(* Instances of ObjectPublication for TLC.                                 *)
(***************************************************************************)
EXTENDS ObjectPublication

CONSTANTS p1, p2, block, tree, alice

TwoPuts == {p1, p2}

TwoGates == 1 .. 2

OneBlock == {block}

BlockAndTree == {block, tree}

OfAlice == [o \in Objects |-> alice]

OneByte == [o \in Objects |-> 1]
=============================================================================
