------------------------------- MODULE Owners -------------------------------
(***************************************************************************)
(* The structures of crates/doa that are made of blocks and of masks: an    *)
(* instance is one of them, `kind` says which. `st` is its state, a record  *)
(* of the module of that structure. `dict` is what the client knows to be   *)
(* in it, and `holder` the names a client holds, which it brings up to date *)
(* from the pending events after every call. Both are kept without a look   *)
(* at what the structure answers.                                           *)
(*                                                                          *)
(*   arena   ArenaSet: dict is the set of keys, a name an (id, name) pair   *)
(*   skip    SkipSet:  dict is the set of keys                              *)
(*   bimap   BlockBiMap: dict is key |-> value; names of keys and of values *)
(*   mask    Mask: dict is <<the bits set, the bits tracked>>; no names     *)
(*   bplus, binary, pinned    a tree in a tree block, whose root stays in    *)
(*           place in the last: dict is the set of keys, names of all nodes *)
(***************************************************************************)
EXTENDS ArenaSet, SkipSet, BlockMap, MaskWords, TreeMaps

CONSTANTS
  Kinds,         \* the structures
  KeysFor,       \* the keys a client of each uses (bits of a mask: their number)
  Values,        \* the values of a BlockBiMap
  PrefillsOf,    \* earlier histories of each
  MaxCalls       \* bound: the calls made after that

ASSUME OwnersAssumption ==
  /\ Kinds \subseteq {"arena", "skip", "bimap", "mask", "bplus", "binary", "pinned"}
  /\ Values \subseteq Nat \ {0} /\ MaxCalls \in Nat
  /\ Word % 2 = 0 /\ BDegree \in Nat /\ BDegree >= 3

VARIABLES kind, st, dict, holder, calls
vars == <<kind, st, dict, holder, calls>>

Binary == {"binary", "pinned"}
Trees == {"bplus"} \union Binary

Keys == KeysFor[kind]
\* The keys that are asked for, and rotated at.
Asked == Keys \union IF kind \in {"arena", "skip"} \union Trees THEN dict
                     ELSE IF kind = "bimap" THEN DOMAIN dict ELSE {}

-----------------------------------------------------------------------------
(* Earlier histories. An arena takes keys; a SkipSet too, and 0 rebuilds    *)
(* its tiers; a BlockBiMap pairs, and <<k, 0>> removes; a mask bits; a tree *)
(* keys, of which a binary one has the first from the start.                *)

Fresh(k, history) ==
  CASE k = "arena" -> NewArena
    [] k = "skip" -> NewSkip
    [] k = "bimap" -> NewBiMap
    [] k = "mask" -> WithBits(history[1])
    [] k = "bplus" -> NewTree("pre", FALSE, <<>>)
    [] k \in Binary -> NewTree("in", k = "pinned", <<history[1]>>)

Earlier(k, s, x) ==
  CASE k = "arena" -> ArenaDrained(ArenaInsert(s, x).a)
    [] k = "skip" -> IF x = 0 THEN Rebuild(s) ELSE SkipDrained(SkipInsert(s, x).s)
    [] k = "bimap" -> IF x[2] = 0 THEN RemoveByKey(s, x[1])
                      ELSE BiDrained(BiInsert(s, x[1], x[2]).m)
    [] k = "mask" -> Put(s, x, TRUE)
    [] k = "bplus" -> BInsert(Session(s, NamesOf(s), TRUE), x).t
    [] k \in Binary -> BstInsert(Session(s, NamesOf(s), TRUE), x).t

\* What a history leaves (the only member of the set).
Past(k, history) ==
  LET first == IF k \in {"mask"} \union Binary THEN 2 ELSE 1
      after[i \in 0 .. Len(history)] ==
        IF i < first THEN {Fresh(k, history)}
        ELSE {Earlier(k, s, history[i]) : s \in after[i - 1]}
  IN  after[Len(history)]

PastDict(k, history) ==
  CASE k \in {"arena", "skip"} \union Trees -> {x \in Range(history) : x # 0}
    [] k = "bimap" ->
         LET gone == {x[1] : x \in {y \in Range(history) : y[2] = 0}}
         IN  [key \in {x[1] : x \in Range(history)} \ gone |->
                (CHOOSE x \in Range(history) : x[1] = key)[2]]
    [] k = "mask" -> <<{history[i] : i \in 2 .. Len(history)}, history[1]>>

\* The names in st: what a client should hold.
NamesIn(k, s) ==
  CASE k = "arena" -> ArenaAddresses(s)
    [] k = "skip" -> [key \in KeysOf(s.base) |-> NameOf(s.base, key)]
    [] k = "bimap" ->
         [keys |-> [key \in KeysOf(s.keys.b) |-> NameOf(s.keys.b, key)],
          values |-> [v \in KeysOf(s.values.b) |-> NameOf(s.values.b, v)]]
    [] k = "mask" -> <<>>
    [] k \in Trees -> NamesOf(s)

Init ==
  /\ kind \in Kinds
  /\ \E history \in PrefillsOf[kind] :
       /\ st \in Past(kind, history)
       /\ dict = PastDict(kind, history)
  /\ holder = NamesIn(kind, st)
  /\ calls = 0

-----------------------------------------------------------------------------
Call(k) == kind = k /\ calls < MaxCalls /\ calls' = calls + 1 /\ kind' = kind

\* A holder of names drains the events; then it holds the new key's.
Followed(h, event) == FoldLeft(Renamed, h, NamePairs(event))
WithNew(h, key, b) == IF key \in KeysOf(b) THEN (key :> NameOf(b, key)) @@ h ELSE h
Less(h, gone) == [x \in DOMAIN h \ gone |-> h[x]]

InsertArena(key) ==
  /\ Call("arena")
  /\ \E r \in {ArenaInsert(st, key)} :
       /\ st' = ArenaDrained(r.a)
       /\ holder' = ArenaHeld(r, key, holder)
  /\ dict' = dict \union {key}

\* A SkipSet out of names refuses.
Admitted(key) ==
  IF Cardinality(dict) < NameCount THEN dict \union {key} ELSE dict

SkipCall(r, h, key) ==
  /\ st' = SkipDrained(r.s)
  /\ holder' = IF r.ok THEN WithNew(Followed(h, r.s.base.event), key, r.s.base) ELSE holder

InsertSkip(key) ==
  /\ Call("skip")
  /\ \E r \in {SkipInsert(st, key)} : SkipCall(r, holder, key)
  /\ dict' = Admitted(key)

PlainlySkip(key) ==
  /\ Call("skip")
  /\ \E r \in {InsertPlainly(st, key)} : SkipCall(r, holder, key)
  /\ dict' = Admitted(key)

RebuildSkip ==
  /\ Call("skip")
  /\ st' = Rebuild(st)
  /\ UNCHANGED <<dict, holder>>

\* The key that is held under `name` is replaced, unless the new one is there.
UpdateSkip(name, key) ==
  LET old == {x \in dict : holder[x] = name}
  IN  /\ Call("skip")
      /\ \E r \in {Update(st, name, key)} : SkipCall(r, Less(holder, old), key)
      /\ dict' = IF old = {} \/ key \in dict THEN dict ELSE (dict \ old) \union {key}

Pair(key, v) ==
  LET new == key \notin DOMAIN dict /\ Cardinality(DOMAIN dict) < NameCount
      free == v \notin Range(dict)
  IN  /\ Call("bimap")
      /\ \E r \in {BiInsert(st, key, v)} :
           /\ st' = BiDrained(r.m)
           /\ holder' =
                [keys |-> WithNew(Followed(holder.keys, r.m.keys.b.event), key, r.m.keys.b),
                 values |-> WithNew(Followed(holder.values, r.m.values.b.event),
                                    v, r.m.values.b)]
      /\ dict' = IF new /\ free THEN (key :> v) @@ dict ELSE dict

Unpaired(key) ==
  /\ dict' = Less(dict, {key})
  /\ holder' = [keys |-> Less(holder.keys, {key}),
                values |-> Less(holder.values, {dict[key]})]

UnpairKey(key) ==
  /\ Call("bimap")
  /\ key \in DOMAIN dict
  /\ st' = RemoveByKey(st, key)
  /\ Unpaired(key)

UnpairValue(key) ==
  /\ Call("bimap")
  /\ key \in DOMAIN dict
  /\ st' = RemoveByValue(st, dict[key])
  /\ Unpaired(key)

-----------------------------------------------------------------------------
(* A mask, and what each call should make of its bits.                      *)

Bits == dict[1]
Tracked == dict[2]
MaskIs(m, bits, n) ==
  /\ st' = m
  /\ dict' = <<bits, n>>
  /\ UNCHANGED holder

PutBit(p, live) ==
  /\ Call("mask") /\ p < Tracked
  /\ MaskIs(Put(st, p, live), IF live THEN Bits \union {p} ELSE Bits \ {p}, Tracked)
ResizeTo(n) == Call("mask") /\ MaskIs(Resize(st, n), Bits \intersect 0 .. n - 1, n)
Clearing == Call("mask") /\ MaskIs(Cleared(st), {}, Tracked)
Mirror == Call("mask") /\ MaskIs(ReverseWords(st), {Tracked - 1 - p : p \in Bits}, Tracked)
Cut(from, to) ==
  /\ Call("mask") /\ from <= to /\ to <= Tracked
  /\ MaskIs(CopyRegion(st, from, to),
              {p - from : p \in {x \in Bits : from <= x /\ x < to}}, to - from)

\* The bits go where a turn moves the elements.
TurnMask(off, rev) ==
  LET tr == [rot |-> 0, off |-> off, rev |-> rev]
  IN  /\ Call("mask") /\ Tracked <= Midpoint
      /\ rev => off < Tracked
      /\ MaskIs(RotateWords(st, off, rev),
                  {A2P(Rotate(tr), P2A(tr, p)) : p \in Bits}, 2 * Tracked)

-----------------------------------------------------------------------------
(* A tree. A call may only refuse its keys when `tight` holds of what is     *)
(* left; but for a burst, the block cannot spread any more either.          *)

TreeCall(r, keys, tight) ==
  /\ st' = r.t
  /\ holder' = r.held
  /\ dict' = IF ~ r.ok /\ tight THEN dict ELSE dict \union keys

\* Tight: no slot at all, or two slots to be found for the halves of a root.
InsertTree(key) ==
  /\ Call("bplus") /\ key \notin dict
  /\ \E r \in {BInsert(Session(st, holder, TRUE), key)} :
       TreeCall(r, {key},
         ~ CanSpread(r.t) /\ (Holes(r.t) = {} \/ NodeFull(r.t, r.t.root)))

\* Two keys that belong between the same children of the root. Tight: too few
\* slots on the side of the burst (after the root, before the child that is to
\* follow, or after the last node), once the block has spread.
BurstTree(low, high) ==
  LET kids == st.nodes[st.root].kids
      mins == {ChildMin(st, kids[i]) : i \in DOMAIN kids}
      gap == Cardinality({x \in mins : x < low})
      side(t) ==
        IF gap = 0 THEN {h \in Holes(t) : h > t.root}
        ELSE IF gap = Cardinality(mins) THEN {h \in Holes(t) : h > Max(DOMAIN t.nodes)}
        ELSE {h \in Holes(t) : h < TA2P(t, kids[gap])}
      tight(t) == /\ t.len > st.len \/ ~ CanSpread(t)
                  /\ Cardinality(side(t)) < 2 * st.height
  IN  /\ Call("bplus") /\ st.height > 0 /\ low < high
      /\ Cardinality(mins) + 2 <= BDegree
      /\ {x \in dict : low <= x /\ x <= high} = {}
      /\ \A x \in dict : x > low => \E y \in mins : high < y /\ y <= x
      /\ \E r \in {BurstInto(Session(st, holder, TRUE), gap, <<low, high>>)} :
           TreeCall(r, {low, high}, tight(r.t))

\* Tight: every slot taken, or those on the key's side of a pinned root.
InsertBinary(key) ==
  /\ \E k \in Binary : Call(k)
  /\ key \notin dict /\ BstTakes(st, key)
  /\ LET above == key > Head(st.nodes[st.root].keys)
         side == {h \in Holes(st) : ~ st.pinned \/ (above <=> h > st.root)}
     IN  \E r \in {BstInsert(Session(st, holder, TRUE), key)} :
           TreeCall(r, {key}, ~ CanSpread(r.t) /\ side = {})

\* rotate_right, rotate_left.
RotateBinary(key, side) ==
  /\ \E k \in Binary : Call(k)
  /\ key \in dict
  /\ \E p \in {q \in DOMAIN st.nodes : st.nodes[q].keys = <<key>>} :
       /\ MayRise(st, p, side)
       /\ st' = RotateUp(st, WalkedTo(st, AtRoot(st), p), side)
  /\ UNCHANGED <<dict, holder>>

Next ==
  \/ \E key \in Keys : InsertArena(key)
  \/ \E key \in Keys : InsertSkip(key)
  \/ \E key \in Keys : PlainlySkip(key)
  \/ RebuildSkip
  \/ \E name \in Names, key \in Keys : UpdateSkip(name, key)
  \/ \E key \in Keys, v \in Values : Pair(key, v)
  \/ \E key \in Keys : UnpairKey(key)
  \/ \E key \in Keys : UnpairValue(key)
  \/ \E p \in Keys, live \in BOOLEAN : PutBit(p, live)
  \/ \E n \in Keys : ResizeTo(n)
  \/ Clearing
  \/ Mirror
  \/ \E from, to \in Keys : Cut(from, to)
  \/ \E off \in Names, rev \in BOOLEAN : TurnMask(off, rev)
  \/ \E key \in Keys : InsertTree(key)
  \/ \E low, high \in Keys : BurstTree(low, high)
  \/ \E key \in Keys : InsertBinary(key)
  \/ \E key \in Asked, side \in 0 .. 1 : RotateBinary(key, side)

Spec == Init /\ [][Next]_vars

-----------------------------------------------------------------------------
(* What the owners promise.                                                 *)

\* A walk of a block from each bound, on and back, along the keys in order.
WalksAgree(b) ==
  \A k \in Asked :
    LET keys == KeysOf(b)
        at == Seek(b, k)
        after == SeekAfter(b, k)
        key(p) == IF p = Ghost THEN 0 ELSE KeyAt(b, p)
        first(S) == IF S = {} THEN 0 ELSE Min(S)
        last(S) == IF S = {} THEN 0 ELSE Max(S)
    IN  /\ key(at) = first({x \in keys : x >= k})
        /\ key(after) = first({x \in keys : x > k})
        /\ at # Ghost => key(StepOn(b, at)) = first({x \in keys : x > key(at)})
        /\ key(StepBack(b, at)) = last({x \in keys : x < k})

\* The same over one side of a BlockBiMap, which pairs as `f` says: the entries
\* have the partners, and the names are those of both.
SideWalksAgree(byKey, f, asked) ==
  LET side == IF byKey THEN st.keys ELSE st.values
      entry(p) == IF byKey THEN KeyCursor(st, p) ELSE ValueCursor(st, p)
      pair(k) == <<k, f[k]>>
      first(S) == IF S = {} THEN <<>> ELSE pair(Min(S))
      last(S) == IF S = {} THEN <<>> ELSE pair(Max(S))
      names(k, v) == <<NameOf(st.keys.b, k), NameOf(st.values.b, v)>>
  IN  \A k \in asked :
        LET at == MapSeek(side, k)
            here == entry(at)
        IN  /\ here = first({x \in DOMAIN f : x >= k})
            /\ entry(MapSeekAfter(side, k)) = first({x \in DOMAIN f : x > k})
            /\ entry(MapBack(side, at)) = last({x \in DOMAIN f : x < k})
            /\ at # Ghost =>
                 /\ entry(MapOn(side, at)) = first({x \in DOMAIN f : x > here[1]})
                 /\ IF byKey THEN KeyCursorNames(st, at) = names(here[1], here[2])
                    ELSE ValueCursorNames(st, at) = names(here[2], here[1])

\* The entries of a tree name every node but the root once; the walks, on and
\* back, go along the slots; the keys lie in order. A B+ tree routes every key
\* to its leaf and has its separators; binary nodes know their parents, but for
\* a root, which keeps what it had.
TreeAgrees ==
  LET last == SubtreeLast(st, AtRoot(st))
      least(p) == ChildMin(st, TP2A(st, p))
  IN  /\ Wired(st)
      /\ Onward(st, SubtreeFirst(st, AtRoot(st))) = Ascending(DOMAIN st.nodes)
      /\ Backward(st, last) = Descending(DOMAIN st.nodes)
      /\ IF kind = "bplus"
         THEN /\ LeafKeys(st) = Ascending(dict)
              /\ \A k \in Asked :
                   k \in dict <=>
                     k \in Range(NodeAt(st, SearchTree(st, AtRoot(st), k)).keys)
              /\ \A e \in EntriesOf(st) :
                   e[2] > 0 => st.nodes[e[1]].keys[e[2]] = least(Entry(st, e))
         ELSE /\ [i \in 1 .. Occupied(st) |->
                     Head(st.nodes[Ascending(DOMAIN st.nodes)[i]].keys)] = Ascending(dict)
              /\ \A e \in EntriesOf(st) : st.nodes[Entry(st, e)].up = TP2A(st, e[1])
              /\ st.pinned => TP2A(st, st.root) = Midpoint

(* A lookup of every owner finds exactly the keys its client put in and did *)
(* not take out, an iteration meets them in order, once each, and a cursor  *)
(* that seeks and steps meets the neighbours: through routes and cleaves,   *)
(* tiers and their windows, partners of either side, words of a mask, and    *)
(* the entries of a tree, whose nodes move under the walker.                *)
AnswersAgree ==
  CASE kind = "arena" ->
         /\ \A k \in Asked : ArenaFind(st, k) # <<>> <=> k \in dict
         /\ ArenaOrder(st) = Ascending(dict)
    [] kind = "skip" ->
         /\ \A k \in Asked :
              SkipFind(st, k) = IF k \in dict THEN NameOf(st.base, k) ELSE None
         /\ InOrder(st.base) = Ascending(dict)
         /\ WalksAgree(st.base)
    [] kind = "bimap" ->
         LET byValue == [v \in Range(dict) |-> CHOOSE k \in DOMAIN dict : dict[k] = v]
             entries(f) == LET keys == Ascending(DOMAIN f)
                           IN  [i \in DOMAIN keys |-> <<keys[i], f[keys[i]]>>]
         IN  /\ \A k \in Asked :
                  /\ GetByKey(st, k) = IF k \in DOMAIN dict THEN <<k, dict[k]>> ELSE <<>>
                  /\ MapValue(st.keys, k) = IF k \in DOMAIN dict
                                            THEN <<NameOf(st.values.b, dict[k])>> ELSE <<>>
             /\ \A v \in Values :
                  GetByValue(st, v) = IF v \in Range(dict) THEN <<v, byValue[v]>> ELSE <<>>
             /\ Entries(st.keys, st.values) = entries(dict)
             /\ Entries(st.values, st.keys) = entries(byValue)
             /\ SideWalksAgree(TRUE, dict, Asked)
             /\ SideWalksAgree(FALSE, byValue, Values \union Range(dict))
    [] kind = "mask" -> BitsOf(st) = Bits /\ st.bits = Tracked
    [] kind \in Trees -> TreeAgrees

(* After every call, the events bring the names a client holds up to date:  *)
(* through a cleave, which moves names to another block, and a refused pair,*)
(* whose key has moved others before it was taken out again.                *)
HoldersFollow == holder = NamesIn(kind, st)

(* What an owner keeps to find its way leads there: the tiers of a SkipSet  *)
(* give a window with all lesser keys before its end and all greater ones   *)
(* after its start, for any key, in the set or not; the blocks of an arena  *)
(* are indexed by their least keys and lie apart, in the index's order.     *)
WindowsBound ==
  CASE kind = "skip" ->
         Built(st) =>
           \A k \in Asked :
             LET window == WindowOf(st, k) b == st.base
             IN  /\ \A p \in Live(b) : p < window.from => Precedes(b, KeyAt(b, p), k)
                 /\ \A p \in Live(b) : p >= window.to =>
                      ~ Precedes(b, KeyAt(b, p), k) /\ KeyAt(b, p) # k
                 /\ window.to <= b.cap
    [] kind = "arena" -> ArenaIndexed(st)
    [] OTHER -> TRUE

(* Every scan of a mask, from every place, and every walk of a cursor give  *)
(* what the set of bits says, at the edges of its words and of the mask.    *)
ScansAgree ==
  kind = "mask" =>
    LET clear == (0 .. Tracked - 1) \ Bits
        near(p, d) == IF p + d \in clear THEN p + d ELSE p - d
    IN  /\ \A p \in 0 .. Tracked + 1 :
             /\ NextSet(st, p) = Least({x \in Bits : x >= p})
             /\ PrevSet(st, p) = Greatest({x \in Bits : x < p})
             /\ NextClear(st, p) = Least({x \in clear : x >= p})
             /\ PrevClear(st, p) = Greatest({x \in clear : x <= p})
             /\ p <= Tracked =>
                  /\ NearestHole(st, p) =
                       IF clear \ {p} = {} THEN Nil
                       ELSE near(p, Min({Apart(x, p) : x \in clear \ {p}}))
                  /\ CountBelow(st, p) = Cardinality({x \in Bits : x < p})
        /\ LastSet(st) = Greatest(Bits)
        /\ SetCount(st) = Cardinality(Bits)
        /\ IterSet(st) = Ascending(Bits)
        /\ IterSetRev(st) = Descending(Bits)
        /\ \A p \in Bits :
             /\ CursorOn(st, TRUE, Stepped(st, p)) = Ascending({x \in Bits : x >= p})
             /\ CursorOn(st, FALSE, Stepped(st, p)) = Descending({x \in Bits : x <= p})
        /\ CursorBack(st, TRUE, Step(Nil, {})) = Descending(Bits)
        /\ CursorBack(st, FALSE, Step(Nil, {})) = Ascending(Bits)
=============================================================================
