------------------------------ MODULE KeySlots ------------------------------
(***************************************************************************)
(* The packed keys of a node (crates/btrees/src/key_slots.rs): the lengths *)
(* of the keys and their bytes one after the other. The length 0 of a slot *)
(* that is not in use is left out. Positions count from 1.                 *)
(***************************************************************************)
EXTENDS ByteKeys, SequencesExt

NewSlots == [lens |-> <<>>, packed |-> <<>>]
Count(ks) == Len(ks.lens)

\* Where the bytes of key `pos` begin: the lengths before it together.
PackedOffset(ks, pos) == FoldLeft(LAMBDA sum, len : sum + len, 0, SubSeq(ks.lens, 1, pos - 1))
KeyAtOffset(ks, pos, off) == SubSeq(ks.packed, off + 1, off + ks.lens[pos])
KeyIn(ks, pos) == KeyAtOffset(ks, pos, PackedOffset(ks, pos))

PutKey(ks, pos, key) ==
  LET off == PackedOffset(ks, pos)
  IN  [lens |-> InsertAt(ks.lens, pos, Len(key)),
       packed |-> SubSeq(ks.packed, 1, off) \o key \o SubSeq(ks.packed, off + 1, Len(ks.packed))]
PushKey(ks, key) == PutKey(ks, Count(ks) + 1, key)

TakeKey(ks, pos) ==
  LET off == PackedOffset(ks, pos)
  IN  [lens |-> RemoveAt(ks.lens, pos),
       packed |-> SubSeq(ks.packed, 1, off)
                    \o SubSeq(ks.packed, off + ks.lens[pos] + 1, Len(ks.packed))]

\* The bytes behind the key move by the difference of the lengths.
UpdateKey(ks, pos, key) ==
  LET off == PackedOffset(ks, pos)
  IN  [lens |-> ReplaceAt(ks.lens, pos, Len(key)),
       packed |-> SubSeq(ks.packed, 1, off) \o key
                    \o SubSeq(ks.packed, off + ks.lens[pos] + 1, Len(ks.packed))]

\* The first `n` keys of a node; the keys after them.
FirstKeys(ks, n) ==
  [lens |-> SubSeq(ks.lens, 1, n), packed |-> SubSeq(ks.packed, 1, PackedOffset(ks, n + 1))]
KeysAfter(ks, n) ==
  [lens |-> SubSeq(ks.lens, n + 1, Count(ks)),
   packed |-> SubSeq(ks.packed, PackedOffset(ks, n + 1) + 1, Len(ks.packed))]
Joined(a, b) == [lens |-> a.lens \o b.lens, packed |-> a.packed \o b.packed]

\* The three drains, as the two nodes after them: the keys after the first n go
\* behind those of dst or in front of them, or the first n go behind.
DrainInto(ks, n, dst) ==
  [src |-> FirstKeys(ks, n), dst |-> Joined(dst, KeysAfter(ks, n))]
\* dst is extended and then rotated by the bytes that came.
DrainIntoFront(ks, n, dst) ==
  LET came == KeysAfter(ks, n)
      long == dst.packed \o came.packed
      kept == Len(long) - Len(came.packed)
  IN  [src |-> FirstKeys(ks, n),
       dst |-> [lens |-> came.lens \o dst.lens,
                packed |-> SubSeq(long, kept + 1, Len(long)) \o SubSeq(long, 1, kept)]]
DrainFrontInto(ks, n, dst) ==
  [src |-> KeysAfter(ks, n), dst |-> Joined(dst, FirstKeys(ks, n))]

\* The first key that is not below the needle, and where its bytes begin; the
\* first key above it.
FindWithOffset(ks, needle) ==
  LET at == {i \in 1 .. Count(ks) : ~ KeyLess(KeyIn(ks, i), needle)}
      pos == IF at = {} THEN Count(ks) + 1 ELSE CHOOSE i \in at : \A j \in at : i <= j
  IN  [pos |-> pos, off |-> PackedOffset(ks, pos)]
FindUpperBound(ks, needle) ==
  LET at == {i \in 1 .. Count(ks) : KeyLess(needle, KeyIn(ks, i))}
  IN  IF at = {} THEN Count(ks) + 1 ELSE CHOOSE i \in at : \A j \in at : i <= j
EqKeyAtOffset(ks, pos, off, needle) ==
  ks.lens[pos] = Len(needle) /\ KeyAtOffset(ks, pos, off) = needle

\* The lengths account for every byte.
Packed(ks) == PackedOffset(ks, Count(ks) + 1) = Len(ks.packed)
=============================================================================
