------------------------------ MODULE ByteKeys ------------------------------
(***************************************************************************)
(* Keys as byte strings (crates/tiny-trie/src/key_store.rs, ByteKey) and   *)
(* the order of them, for the modules of the maps.                         *)
(***************************************************************************)
EXTENDS Integers, FiniteSets, Sequences

\* The order of byte strings, which is the natural order of the keys.
RECURSIVE KeyLess(_, _)
KeyLess(a, b) ==
  CASE b = <<>> -> FALSE
    [] a = <<>> -> TRUE
    [] Head(a) # Head(b) -> Head(a) < Head(b)
    [] OTHER -> KeyLess(Tail(a), Tail(b))

\* A set of numbers, and a set of keys, from the least to the greatest.
Ascending(S) ==
  [i \in 1 .. Cardinality(S) |->
     CHOOSE x \in S : Cardinality({y \in S : y < x}) = i - 1]
SortedKeys(S) ==
  [i \in 1 .. Cardinality(S) |->
     CHOOSE x \in S : Cardinality({y \in S : KeyLess(y, x)}) = i - 1]
=============================================================================
