---------------------------- MODULE StacksBlocks ----------------------------
(***************************************************************************)
(* Stacks seen from outside the cache: the list of blocks a caller could   *)
(* read, and the specifications in memory that it implements.              *)
(***************************************************************************)
EXTENDS Stacks, SequencesExt

AbsContent == [i \in 1 .. (IF open THEN ncells ELSE Len(file)) |-> Contents(i - 1)]

Abs == INSTANCE StacksAbs WITH content <- AbsContent, Room <- Fits

\* ImplementsBlocks: as long as no I/O call fails, eviction, reload, write-back
\* and locking are invisible: the blocks behave as stacks in memory would.
ImplementsBlocks == Abs!AbsSpec

\* All the stored items, block after block: one list.
LifoContent == FlattenSeq(AbsContent)

Lifo == INSTANCE LifoStack WITH s <- LifoContent

\* ImplementsLifo: with one caller, whatever is evicted, reloaded or reopened,
\* the blocks together are one stack: each push goes on its end and each pop
\* returns its last item (stacks.rs:50-51).
ImplementsLifo == Lifo!LifoSpec
=============================================================================
