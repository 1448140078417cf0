------------------------------- MODULE DynTrie -------------------------------
(***************************************************************************)
(* The trie that picks the width of its pointers                           *)
(* (crates/tiny-trie/src/dyn_trie.rs): a NibbleTrie whose `ptr` is one of  *)
(* `Widths`, the greatest pointer of u8, u16, u32 and u64.                 *)
(***************************************************************************)
EXTENDS NibbleTrie

CONSTANT Widths       \* the widths, from the narrowest

NewDyn == NewTrie(Widths[1])
WidthOf(s) == CHOOSE i \in DOMAIN Widths : Widths[i] = s.ptr

\* A mutant: the look-ahead waits until the index or the arena is past its width.
RECURSIVE PromoteOncePast(_)
PromoteOncePast(s) ==
  IF (Len(s.arena) > s.ptr \/ Len(s.index) > s.ptr) /\ WidthOf(s) < Len(Widths)
  THEN PromoteOncePast(Promote(s, Widths[WidthOf(s) + 1]))
  ELSE s

\* promote_inner: the widest has nowhere to go, and the loop of insert would
\* not end there.
RECURSIVE PromoteUntilRoom(_)
PromoteUntilRoom(s) ==
  IF Full(s) /\ WidthOf(s) < Len(Widths)
  THEN PromoteUntilRoom(Promote(s, Widths[WidthOf(s) + 1]))
  ELSE s

\* The insert that follows may re-spread the index to 2 * n + 1 positions. When
\* the width has no more, the index is full again, and the key is refused.
InsertDyn(s, key, val, spread) == Insert(PromoteUntilRoom(s), key, val, spread)

\* Such a re-spread, if the insert makes one, leaves room for the key.
RespreadFits(s) ==
  LET t == PromoteUntilRoom(s)
  IN  2 * t.n < t.ptr => ~ Full(Optimize(t))

\* The walks of whichever trie is inside: the cursor is stepped until it has
\* nothing more to give.
IterFwd(s) == SlotEntries(s, CursorOrder(s))
IterRev(s) == SlotEntries(s, Reverse(CursorOrder(s)))

DemoteDyn(s) ==
  IF WidthOf(s) = 1 THEN Done(s, FALSE) ELSE Demote(s, Widths[WidthOf(s) - 1])
=============================================================================
