-------------------------------- MODULE Maps --------------------------------
(***************************************************************************)
(* The maps of the repository behind the interface they share              *)
(* (crates/benches/src/benchable_map.rs): an instance is one map, `kind`   *)
(* says which. `st` is its state, a record of the module of that map.      *)
(* `dict` is the client's knowledge: what the accepted inserts put in,     *)
(* `refused` that the last call was refused, `calls` how many it has made. *)
(*                                                                         *)
(* The value of a key is its place among the keys of the instance; the     *)
(* client offers the value 0 with a key that is in the map already.        *)
(***************************************************************************)
EXTENDS ByteKeys, FiniteSetsExt, SequencesExt

CONSTANTS
  Kinds,        \* the maps
  KeysOf,       \* the keys a client of each map uses
  PrefillsOf,   \* keys put in before the client starts
  PtrOf,        \* the greatest pointer of each map that has one
  Widths,       \* the greatest pointers of DynTrie
  Reckless,     \* calls known to break a map that the client makes all the same
  LenMax, FnodeCap, FnodeNull,
  N, InlineMax, KeyLenMax,
  MaxCallsOf    \* bound: calls of the client

ASSUME MapsAssumption ==
  /\ \A k \in Kinds : KeysOf[k] # {} /\ PrefillsOf[k] # {} /\ PtrOf[k] \in Nat
  /\ \A i \in DOMAIN Widths : Widths[i] \in Nat /\ (i > 1 => Widths[i] > Widths[i - 1])
  /\ Reckless \subseteq {"optimize", "cascade", "respread"}
  /\ LenMax \in Nat /\ FnodeCap \in Nat \ {0} /\ FnodeNull \in Nat \ {0}
  /\ N \in Nat /\ N >= 2 /\ InlineMax \in Nat /\ KeyLenMax \in Nat
  /\ \A k \in Kinds : MaxCallsOf[k] \in Nat

VARIABLES kind, st, dict, refused, calls
vars == <<kind, st, dict, refused, calls>>

Nibble == INSTANCE DynTrie
Nib == INSTANCE NibTrie
Bit == INSTANCE BitTrie
Fixed == INSTANCE FixedTrie
BTree == INSTANCE IntBTree
Str == INSTANCE StrBTree
Poly == INSTANCE PolyTrie

Keys == KeysOf[kind]
Rank(k, key) == Cardinality({x \in KeysOf[k] : KeyLess(x, key)}) + 1

-----------------------------------------------------------------------------
(* The operations of each map.                                             *)

New(k) ==
  CASE k = "nibble" -> Nibble!NewTrie(PtrOf[k])
    [] k = "dyn" -> Nibble!NewDyn
    [] k = "nib" -> Nib!NewTrie(PtrOf[k])
    [] k = "bit" -> Bit!NewTrie
    [] k \in {"fixed", "fixedauto"} -> Fixed!NewTrie(PtrOf[k], 3)
    [] k = "int" -> BTree!NewTree
    [] k = "str" -> Str!NewTree
    [] k = "poly" -> Poly!NewTrie

\* `spread` is a choice the allocator makes for a NibbleTrie.
Insert(k, s, key, val, spread) ==
  CASE k = "nibble" -> Nibble!Insert(s, key, val, spread)
    [] k = "dyn" -> Nibble!InsertDyn(s, key, val, spread)
    [] k = "nib" -> Nib!Insert(s, key, val)
    [] k = "bit" -> Bit!Insert(s, key, val)
    [] k = "fixed" -> Fixed!Insert(s, key, val)
    [] k = "fixedauto" -> Fixed!InsertAuto(s, key, val)
    [] k = "int" -> BTree!Insert(s, key, val)
    [] k = "str" -> Str!Insert(s, key, val)
    [] k = "poly" -> Poly!Insert(s, key, val)

Spreads(k) == IF k \in {"nibble", "dyn"} THEN BOOLEAN ELSE {FALSE}
\* Room for one more key: of a trie in its index, which a DynTrie widens as far
\* as its widths go, of a tree for a key that long.
Room(k, s, key) ==
  CASE k = "nibble" -> ~ Nibble!Full(s)
    [] k = "dyn" -> ~ Nibble!Full(Nibble!Promote(s, Widths[Len(Widths)]))
    [] k = "nib" -> ~ Nib!Full(s)
    [] k \in {"fixed", "fixedauto"} -> ~ Fixed!Full(s)
    [] k = "str" -> Len(key) <= KeyLenMax
    [] k = "poly" -> 0 \notin Range(key)
    [] OTHER -> TRUE

Nothing == <<>>
\* The key and the value of a position, a key index or a cursor.
Entry(k, s, i) ==
  CASE k \in {"nibble", "dyn"} ->
         IF i = Nibble!NoIndex THEN Nothing ELSE <<Nibble!KeyAt(s, i), Nibble!SlotAt(s, i).val>>
    [] k = "nib" ->
         IF i = Nib!NoIndex THEN Nothing ELSE <<Nib!KeyAt(s, i), s.values[i]>>
    [] k = "bit" ->
         IF i = Bit!NoIndex THEN Nothing ELSE <<Bit!KeyAt(s, i), s.values[i]>>
    [] k \in {"fixed", "fixedauto"} ->
         IF i = Fixed!NoIndex THEN Nothing ELSE <<Fixed!KeyAt(s, i), s.values[i + 1]>>
    [] k = "poly" ->
         IF i = Poly!NoIndex THEN Nothing ELSE <<Poly!KeyAt(s, i), s.values[i + 1]>>

Get(k, s, key) ==
  IF k = "int" THEN BTree!Get(s, key) ELSE
  IF k = "str" THEN Str!Get(s, key) ELSE
  Entry(k, s, CASE k \in {"nibble", "dyn"} -> Nibble!GetIndex(s, key)
                [] k = "nib" -> Nib!GetIndex(s, key)
                [] k = "bit" -> Bit!GetIndex(s, key)
                [] k \in {"fixed", "fixedauto"} -> Fixed!GetIndex(s, key)
                [] k = "poly" -> Poly!GetIndex(s, Poly!Terminated(key)))

-----------------------------------------------------------------------------
(* Walks: a cursor starts on the first key or before it, and is moved until *)
(* it has passed the last one.                                             *)

Past == <<>>
Current(k, s, c) ==
  IF c = Past THEN Nothing ELSE
  IF k = "int" THEN BTree!Current(s, c) ELSE
  IF k = "str" THEN Str!Current(s, c) ELSE
  Entry(k, s, CASE k \in {"nibble", "dyn"} -> Nibble!CurrentIndex(s, c)
                [] k = "nib" -> Nib!CurrentIndex(s, c)
                [] k = "bit" -> Bit!CurrentIndex(s, c)
                [] k \in {"fixed", "fixedauto"} -> Fixed!CurrentIndex(s, c)
                [] k = "poly" -> Poly!CurrentIndex(s, c))
First(k, s) ==
  CASE k \in {"nibble", "dyn"} -> Nibble!Start(s)
    [] k = "nib" -> Nib!Start(s)
    [] k = "bit" -> Bit!Start(s)
    [] k \in {"fixed", "fixedauto"} -> Fixed!Start(s)
    [] k = "int" -> BTree!First(s)
    [] k = "str" -> Str!First(s)
    [] k = "poly" -> Poly!Start(s)
Final(k, s) ==
  CASE k = "nib" -> Nib!End(s)
    [] k = "bit" -> Bit!End(s)
    [] k \in {"fixed", "fixedauto"} -> Fixed!End(s)
    [] k = "int" -> BTree!Final(s)
    [] k = "str" -> Str!Final(s)
    [] k = "poly" -> Poly!End(s)
Onward(k, s, c) ==
  CASE k \in {"nibble", "dyn"} -> Nibble!AdvanceNext(s, c)
    [] k = "nib" -> Nib!AdvanceNext(s, c)
    [] k = "bit" -> Bit!AdvanceNext(s, c)
    [] k \in {"fixed", "fixedauto"} -> Fixed!AdvanceNext(s, c)
    [] k = "int" -> BTree!Onward(s, c)
    [] k = "str" -> Str!Onward(s, c)
    [] k = "poly" -> Poly!AdvanceNext(s, c)
Backward(k, s, c) ==
  CASE k = "nib" -> Nib!AdvancePrev(s, c)
    [] k = "bit" -> Bit!AdvancePrev(s, c)
    [] k \in {"fixed", "fixedauto"} -> Fixed!AdvancePrev(s, c)
    [] k = "int" -> BTree!Backward(s, c)
    [] k = "str" -> Str!Backward(s, c)
    [] k = "poly" -> Poly!AdvancePrev(s, c)
Seek(k, s, key) ==
  CASE k \in {"nibble", "dyn"} -> Nibble!Seek(s, key)
    [] k = "nib" -> Nib!Seek(s, key)
    [] k = "bit" -> Bit!Seek(s, key)
    [] k \in {"fixed", "fixedauto"} -> Fixed!Seek(s, key)
    [] k = "int" -> BTree!Locate(s, key)
    [] k = "str" -> Str!Locate(s, key)
    [] k = "poly" -> Poly!Seek(s, Poly!Terminated(key))

Seen(k, s, c) == IF Current(k, s, c) = Nothing THEN <<>> ELSE <<Current(k, s, c)>>

RECURSIVE WalkOn(_, _, _)
WalkOn(k, s, c) ==
  IF c = Past THEN <<>> ELSE Seen(k, s, c) \o WalkOn(k, s, Onward(k, s, c))
RECURSIVE WalkBack(_, _, _)
WalkBack(k, s, c) ==
  IF c = Past THEN <<>> ELSE Seen(k, s, c) \o WalkBack(k, s, Backward(k, s, c))

\* The public cursor of a NibbleTrie runs over the index, both ways.
Forward(k, s) ==
  IF k = "dyn" THEN Nibble!IterFwd(s) ELSE WalkOn(k, s, First(k, s))
Reversed(k, s) ==
  CASE k = "nibble" -> Nibble!SlotEntries(s, Reverse(Nibble!CursorOrder(s)))
    [] k = "dyn" -> Nibble!IterRev(s)
    [] OTHER -> WalkBack(k, s, Final(k, s))

\* into_keys_values
Consumed(k, s) ==
  CASE k \in {"nibble", "dyn"} -> Nibble!IntoKeysValues(s)
    [] k = "nib" -> Nib!IntoKeysValues(s)

-----------------------------------------------------------------------------
(* The values rewritten in place, by get_mut or along a mutable cursor.    *)

Visited == 100     \* what a visit adds to a value

WithMutCursor == {"nibble", "nib", "bit", "int", "str"}
WithMutSeek == {"nibble", "nib", "bit"}

MutFirst(k, s) ==
  CASE k = "nibble" -> Nibble!MutFirst(s)
    [] k = "nib" -> Nib!MutFirst(s)
    [] k = "bit" -> Bit!MutFirst(s)
    [] k = "int" -> BTree!First(s)
    [] k = "str" -> Str!First(s)
MutLast(k, s) ==
  CASE k = "nibble" -> Nibble!MutLast(s)
    [] k = "nib" -> Nib!MutLast(s)
    [] k = "bit" -> Bit!MutLast(s)
    [] k \in {"int", "str"} -> Final(k, s)
MutSeek(k, s, key) ==
  CASE k = "nibble" -> Nibble!MutSeek(s, key)
    [] k = "nib" -> Nib!MutSeek(s, key)
    [] k = "bit" -> Bit!MutSeek(s, key)
MutOnward(k, s, c) ==
  CASE k = "nibble" -> Nibble!MutOnward(s, c)
    [] k = "nib" -> Nib!MutOnward(s, c)
    [] k = "bit" -> Bit!MutOnward(s, c)
    [] k = "int" -> BTree!MutOnward(s, c)
    [] k = "str" -> Str!MutOnward(s, c)
MutBackward(k, s, c) ==
  CASE k = "nibble" -> Nibble!MutBackward(s, c)
    [] k = "nib" -> Nib!MutBackward(s, c)
    [] k = "bit" -> Bit!MutBackward(s, c)
    [] k = "int" -> BTree!MutBackward(s, c)
    [] k = "str" -> Str!MutBackward(s, c)
Left(k, s, c) == IF k = "nibble" THEN Nibble!MutAt(s, c) = Nibble!NoIndex ELSE c = Past

\* The visit of the place `i`: a cursor of a tree, an index of a trie.
VisitAt(k, s, i) ==
  CASE k \in {"nibble", "dyn"} -> Nibble!SetValue(s, i, Nibble!SlotAt(s, i).val + Visited)
    [] k = "nib" -> Nib!SetValue(s, i, s.values[i] + Visited)
    [] k = "bit" -> Bit!SetValue(s, i, s.values[i] + Visited)
    [] k \in {"fixed", "fixedauto"} -> Fixed!SetValue(s, i, s.values[i + 1] + Visited)
    [] k = "int" -> BTree!SetValue(s, i, BTree!Current(s, i)[2] + Visited)
    [] k = "str" -> Str!SetValue(s, i, Str!Current(s, i)[2] + Visited)
Visit(k, s, c) ==
  VisitAt(k, s, CASE k = "nibble" -> Nibble!MutAt(s, c)
                  [] k = "nib" -> Nib!MutAt(s, c)
                  [] k = "bit" -> Bit!MutAt(s, c)
                  [] OTHER -> c)

RECURSIVE VisitOn(_, _, _)
VisitOn(k, s, c) ==
  IF Left(k, s, c) THEN s ELSE VisitOn(k, Visit(k, s, c), MutOnward(k, s, c))
RECURSIVE VisitBack(_, _, _)
VisitBack(k, s, c) ==
  IF Left(k, s, c) THEN s ELSE VisitBack(k, Visit(k, s, c), MutBackward(k, s, c))

\* Where get_mut finds a key.
PlaceOf(k, s, key) ==
  CASE k \in {"nibble", "dyn"} -> Nibble!GetIndex(s, key)
    [] k = "nib" -> Nib!GetIndex(s, key)
    [] k = "bit" -> Bit!GetIndex(s, key)
    [] k \in {"fixed", "fixedauto"} -> Fixed!GetIndex(s, key)
    [] k = "int" -> BTree!Locate(s, key)
    [] k = "str" -> Str!Locate(s, key)

-----------------------------------------------------------------------------

Sound(k, s) ==
  CASE k \in {"nibble", "dyn"} -> Nibble!Sound(s)
    [] k = "nib" -> Nib!Sound(s)
    [] k = "bit" -> Bit!Sound(s)
    [] k \in {"fixed", "fixedauto"} -> Fixed!Sound(s)
    [] k = "int" -> BTree!Sound(s)
    [] k = "str" -> Str!Sound(s)
    [] k = "poly" -> Poly!Sound(s)

-----------------------------------------------------------------------------
(* The actions.                                                            *)

Prefilled(k, keys) ==
  FoldLeft(LAMBDA s, key : Insert(k, s, key, Rank(k, key), FALSE).s, New(k), keys)

Init ==
  /\ kind \in Kinds
  /\ \E keys \in PrefillsOf[kind] :
       /\ st = Prefilled(kind, keys)
       /\ dict = [key \in Range(keys) |-> Rank(kind, key)]
  /\ refused = FALSE
  /\ calls = 0

Call == calls < MaxCallsOf[kind] /\ calls' = calls + 1

\* A NibbleTrie that has been flattened takes no more keys. The walk of a
\* StrBTree may end in a leaf that is not the key's any more. The re-spread
\* inside the insert of a DynTrie may fill the index that has just been widened.
Writable == kind \in {"nibble", "dyn"} => Nibble!Writable(st)

InsertKey(key, spread) ==
  LET val == IF key \in DOMAIN dict THEN 0 ELSE Rank(kind, key)
  IN  /\ Call
      /\ Writable
      /\ kind = "str" => "cascade" \in Reckless \/ Str!WalkLands(st, key)
      /\ kind = "dyn" /\ spread /\ key \notin DOMAIN dict =>
           "respread" \in Reckless \/ Nibble!RespreadFits(st)
      /\ \E r \in {Insert(kind, st, key, val, spread)} :
           /\ st' = r.s
           /\ dict' = IF r.ok THEN (key :> val) @@ dict ELSE dict
           /\ refused' = ~ r.ok
      /\ UNCHANGED kind

\* optimize of a NibbleTrie does not ask whether its pointers reach the last
\* position of the index it builds.
Reaches(s) == 2 * s.n < s.ptr
Optimize ==
  /\ Call
  /\ kind \in {"nibble", "dyn", "nib", "fixed", "fixedauto", "int", "str", "poly"}
  /\ kind \in {"nibble", "dyn"} => "optimize" \in Reckless \/ Reaches(st)
  /\ st' = CASE kind \in {"nibble", "dyn"} -> Nibble!Optimize(st)
             [] kind = "nib" -> Nib!Optimize(st)
             [] kind \in {"fixed", "fixedauto"} -> Fixed!Optimize(st)
             [] kind = "int" -> BTree!Optimize(st)
             [] kind = "str" -> Str!Optimize(st)
             [] kind = "poly" -> Poly!Optimize(st)
  /\ refused' = FALSE
  /\ UNCHANGED <<kind, dict>>

Flatten ==
  /\ Call
  /\ kind = "nibble"
  /\ st' = Nibble!Flatten(st)
  /\ refused' = FALSE
  /\ UNCHANGED <<kind, dict>>

\* The client of a NibbleTrie or a NibTrie changes the width itself.
Resize(ptr) ==
  LET r == IF kind = "nib" THEN Nib!Demote(st, ptr) ELSE Nibble!Demote(st, ptr)
  IN  /\ Call
      /\ kind \in {"nibble", "nib"}
      /\ st' = IF ptr >= st.ptr
               THEN IF kind = "nib" THEN Nib!Promote(st, ptr) ELSE Nibble!Promote(st, ptr)
               ELSE r.s
      /\ refused' = (ptr < st.ptr /\ ~ r.ok)
      /\ UNCHANGED <<kind, dict>>

DemoteDyn ==
  LET r == Nibble!DemoteDyn(st)
  IN  /\ Call
      /\ kind = "dyn"
      /\ st' = r.s
      /\ refused' = ~ r.ok
      /\ UNCHANGED <<kind, dict>>

\* Bound: a client that rewrites values makes at most one call more.
Rewrite(keys) ==
  /\ calls < MaxCallsOf[kind]
  /\ calls' = Max({calls + 1, MaxCallsOf[kind] - 1})
  /\ keys # {}
  /\ \A key \in DOMAIN dict : dict[key] < Visited
  /\ dict' = [key \in DOMAIN dict |-> dict[key] + IF key \in keys THEN Visited ELSE 0]
  /\ refused' = FALSE
  /\ UNCHANGED kind

RewriteAt(key) ==
  /\ kind # "poly"
  /\ Rewrite({key})
  /\ st' = VisitAt(kind, st, PlaceOf(kind, st, key))

RewriteFrom(key) ==
  /\ kind \in WithMutSeek
  /\ Rewrite({x \in DOMAIN dict : ~ KeyLess(x, key)})
  /\ st' = VisitOn(kind, st, MutSeek(kind, st, key))

RewriteAll ==
  /\ kind \in WithMutCursor
  /\ Rewrite(DOMAIN dict)
  /\ st' = VisitOn(kind, st, MutFirst(kind, st))

RewriteBack ==
  /\ kind \in WithMutCursor
  /\ Rewrite(DOMAIN dict)
  /\ st' = VisitBack(kind, st, MutLast(kind, st))

Next ==
  \/ \E key \in Keys, spread \in Spreads(kind) : InsertKey(key, spread)
  \/ Optimize
  \/ Flatten
  \/ \E i \in DOMAIN Widths : Resize(Widths[i])
  \/ DemoteDyn
  \/ \E key \in DOMAIN dict : RewriteAt(key)
  \/ \E key \in DOMAIN dict : RewriteFrom(key)
  \/ RewriteAll
  \/ RewriteBack

Spec == Init /\ [][Next]_vars

-----------------------------------------------------------------------------
(* What a map promises.                                                    *)

Entries == [i \in 1 .. Cardinality(DOMAIN dict) |->
              LET key == SortedKeys(DOMAIN dict)[i] IN <<key, dict[key]>>]

\* A lookup finds every key that was accepted with its value, and no other, and
\* a trie that is taken apart gives each of them once.
GetAgrees ==
  /\ \A key \in Keys :
       Get(kind, st, key) = IF key \in DOMAIN dict THEN <<key, dict[key]>> ELSE Nothing
  /\ kind \in {"nibble", "nib"} =>
       /\ Len(Consumed(kind, st)) = Cardinality(DOMAIN dict)
       /\ Range(Consumed(kind, st)) = Range(Entries)

\* A walk from the first key meets the keys in order, once each.
ForwardInOrder == Forward(kind, st) = Entries

\* A walk from the last key meets them in the opposite order.
BackwardInOrder == Reversed(kind, st) = Reverse(Entries)

\* seek of a key of the map lands on it, and goes on to the next one.
SeekLands ==
  \A i \in DOMAIN Entries :
    LET c == Seek(kind, st, Entries[i][1])
    IN  /\ Current(kind, st, c) = Entries[i]
        /\ Current(kind, st, Onward(kind, st, c)) =
             IF i = Len(Entries) THEN Nothing ELSE Entries[i + 1]

\* A range between two keys of a NibbleTrie holds the keys between them, each
\* bound with its key or without, and is empty when the bounds are reversed.
RangeExact ==
  kind = "nibble" =>
    \A from, to \in DOMAIN dict, fromIn, toIn \in BOOLEAN :
      {Nibble!KeyAt(st, p) : p \in Nibble!RangeBetween(st, from, fromIn, to, toIn)} =
        {key \in DOMAIN dict : /\ KeyLess(from, key) \/ (fromIn /\ key = from)
                               /\ KeyLess(key, to) \/ (toIn /\ key = to)}

\* The structure behind the answers is whole: nothing leaks, nothing dangles.
StructureSound == Sound(kind, st)

\* An insert is refused for a key that is there or when the map has no room
\* left, and for nothing else; a call that is refused changes no entry. A DynTrie
\* has room as long as its widest pointer reaches (dyn_trie.rs:38-40, 67-69). A
\* NibbleTrie, which has one width, may fill its index by a re-spread first.
RefusedWithReason ==
  [][/\ refused' => Forward(kind, st') = Forward(kind, st)
     /\ \A key \in Keys, spread \in BOOLEAN :
          InsertKey(key, spread) /\ refused' =>
            \/ key \in DOMAIN dict
            \/ ~ Room(kind, st, key)
            \/ kind = "nibble" /\ ~ Room(kind, st', key)]_vars
=============================================================================
