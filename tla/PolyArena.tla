------------------------------ MODULE PolyArena ------------------------------
(***************************************************************************)
(* The arena of the poly trie (crates/poly-trie/src/arena.rs): a vector of *)
(* slots given out in blocks. The first slot of a freed block holds the    *)
(* index of the block freed before it with the same length; the last block *)
(* of such a list names itself. Single slots, which the trie never asks    *)
(* for, are not modelled. An index counts from 0.                          *)
(***************************************************************************)
EXTENDS Integers, FiniteSets, Sequences, Functions

NoBlock == -1
BlockSizes == {2, 4, 16}

NewArena == [slots |-> <<>>, blockFree |-> [n \in BlockSizes |-> NoBlock], occupied |-> 0]

Block(a, start, n) == SubSeq(a.slots, start + 1, start + n)
WithBlock(a, start, values) ==
  [a EXCEPT !.slots = SubSeq(@, 1, start) \o values
                        \o SubSeq(@, start + Len(values) + 1, Len(@))]

\* What the slot of a freed block says comes next; a block that names itself,
\* or a place behind the slots, is the last.
FreePtr(next) == [free |-> next]
NextFree(a, start) ==
  LET next == a.slots[start + 1].free
  IN  IF next < Len(a.slots) /\ next # start THEN next ELSE NoBlock

\* alloc_n: a freed block of that length, or one at the end.
AllocN(a, n, value) ==
  LET head == a.blockFree[n]
      blank == [i \in 1 .. n |-> value]
  IN  IF head # NoBlock
      THEN [arena |-> [WithBlock(a, head, blank) EXCEPT !.blockFree[n] = NextFree(a, head),
                                                        !.occupied = @ + n],
            start |-> head]
      ELSE [arena |-> [a EXCEPT !.slots = @ \o blank, !.occupied = @ + n],
            start |-> Len(a.slots)]

\* A mutant: the block does not name the one that was freed before it.
FreeUnlinked(a, start, n) ==
  [WithBlock(a, start, <<FreePtr(start)>>) EXCEPT !.blockFree[n] = start, !.occupied = @ - n]

FreeN(a, start, n) ==
  LET head == a.blockFree[n]
      link == FreePtr(IF head = NoBlock THEN start ELSE head)
  IN  [WithBlock(a, start, <<link>>) EXCEPT !.blockFree[n] = start, !.occupied = @ - n]

\* The starts of the freed blocks of a length.
RECURSIVE FreedFrom(_, _)
FreedFrom(a, start) ==
  IF start = NoBlock THEN {} ELSE {start} \union FreedFrom(a, NextFree(a, start))
Freed(a, n) == FreedFrom(a, a.blockFree[n])
=============================================================================
