-------------------------- MODULE MCStacksHistory ---------------------------
(* Instances of StacksHistory for TLC.                                     *)
EXTENDS StacksHistory

CONSTANTS t1, t2, i1, i2, i3, i4, big

\* one unit per item, but for the one that no record can hold
MCUnits == [x \in Items |-> IF x = big THEN PerBlock + 1 ELSE 1]

\* a fresh file, and records an earlier handle left behind
MCFresh == {<<>>}
MCTwoBlocks == {<< <<i1>>, <<i2>> >>}
MCEmptyBlocks == {<< <<>>, <<>> >>}
=============================================================================
