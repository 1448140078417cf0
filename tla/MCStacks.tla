------------------------------ MODULE MCStacks ------------------------------
(* Instances of Stacks for TLC.                                            *)
EXTENDS StacksBlocks

CONSTANTS t1, t2, i1, i2, i3, i4, big

\* one unit per item, but for the one that no record can hold
MCUnits == [x \in Items |-> IF x = big THEN PerBlock + 1 ELSE 1]

\* an empty file, and the records an earlier handle left
MCTwoBlocks == {<< <<i1>>, <<i2>> >>}
MCSomeFiles == {<<>>, << <<i1>>, <<>> >>, << <<i1, i2>>, <<i3>> >>}

Symmetry == Permutations(Threads)
=============================================================================
