------------------------------ MODULE ArenaSet ------------------------------
(***************************************************************************)
(* The block of blocks (crates/doa/src/arenaset.rs): small BlockSets under  *)
(* an index from each block's least key to its id. A record                 *)
(*                                                                          *)
(*   blocks    the blocks; a block's id is its place, and never changes     *)
(*   index     least key |-> id; its order is the order of the blocks       *)
(*   touched   the block of the last insert, whose event is pending         *)
(*   split     the cleave not yet taken: <<>>, or <<[from, tr, to, at]>>    *)
(*                                                                          *)
(* A holder's address is a pair of an id and a name in that block.          *)
(***************************************************************************)
EXTENDS SlotSet

NewArena == [blocks |-> <<>>, index |-> <<>>, touched |-> 1, split |-> <<>>]

Mins(a) == DOMAIN a.index
Reindexed(index, gone, entries) ==
  LET kept == DOMAIN index \ gone
  IN  [m \in kept \union DOMAIN entries |->
         IF m \in DOMAIN entries THEN entries[m] ELSE index[m]]

\* The block of the greatest least key up to k; below them all, the first.
Route(index, k) ==
  LET floor == {m \in DOMAIN index : m <= k}
  IN  index[IF floor # {} THEN Max(floor) ELSE Min(DOMAIN index)]

BelowAll(a, k) == \A m \in Mins(a) : k < m

ArenaFind(a, k) ==
  IF BelowAll(a, k) THEN <<>>
  ELSE LET id == Route(a.index, k) name == Find(a.blocks[id], k)
       IN  IF name = None THEN <<>> ELSE <<id, name>>

ArenaOrder(a) ==
  LET mins == Ascending(Mins(a))
      keys == [i \in DOMAIN mins |-> InOrder(a.blocks[a.index[mins[i]]])]
  IN  FoldLeft(LAMBDA x, y : x \o y, <<>>, keys)

-----------------------------------------------------------------------------
ArenaAnswer(a, ok) == [a |-> a, ok |-> ok]

Spawn(a, k) ==
  [a EXCEPT !.blocks = Append(@, Inserted(NewBlock, k)),
            !.index = Reindexed(@, {}, [m \in {k} |-> Len(a.blocks) + 1]),
            !.touched = Len(a.blocks) + 1]

\* The block `id` replaced, and the last one touched.
WithBlock(a, id, b) == [a EXCEPT !.blocks[id] = b, !.touched = id]

\* The halves of a full block, under their least keys.
Cleaved(a, id, at) ==
  LET b == a.blocks[id]
      left == CleavedLeft(b, at)
      right == CleavedRight(b, at)
      to == Len(a.blocks) + 1
      was == {m \in Mins(a) : a.index[m] = id}
  IN  [a EXCEPT
        !.blocks = Append([@ EXCEPT ![id] = left], right),
        !.index = Reindexed(@, was, [m \in {MinKeyOf(left), MinKeyOf(right)} |->
                                       IF m = MinKeyOf(left) THEN id ELSE to]),
        !.split = <<[from |-> id, tr |-> b.tr, to |-> to, at |-> at]>>]

Rerouted(a, k) ==
  LET id == Route(a.index, k) IN WithBlock(a, id, Inserted(a.blocks[id], k))

SplitRoute(a, id, k) ==
  IF BeyondTail(a.blocks[id], k) \/ k < MinKeyOf(a.blocks[id]) THEN Spawn(a, k)
  ELSE Rerouted(Cleaved(a, id, Count(a.blocks[id]) \div 2), k)

\* A block grows at its front from now on.
EagerFlip(b) ==
  IF ~ b.tr.rev /\ Count(b) > 4 * FreeStride THEN Flipped(b) ELSE b

\* `tried` is the block's answer to the insert.
Tried(a, id, k, below, tried) ==
  IF tried.ok
  THEN ArenaAnswer(
         [WithBlock(a, id, tried.b) EXCEPT
            !.index = IF below THEN Reindexed(@, {Min(Mins(a))}, [m \in {k} |-> id])
                      ELSE @],
         TRUE)
  ELSE IF Full(tried.b) /\ Find(tried.b, k) = None
       THEN ArenaAnswer(SplitRoute([a EXCEPT !.blocks[id] = tried.b], id, k), TRUE)
       ELSE ArenaAnswer([a EXCEPT !.blocks[id] = tried.b], FALSE)

ArenaInsert(a, k) ==
  IF Mins(a) = {} THEN ArenaAnswer(Spawn(a, k), TRUE)
  ELSE LET id == Route(a.index, k)
           below == BelowAll(a, k)
           b == IF below THEN EagerFlip(a.blocks[id]) ELSE a.blocks[id]
       IN  Tried(a, id, k, below, InsertInto(b, k))

-----------------------------------------------------------------------------
(* The holder: it takes the split first, then drains the touched block.     *)

Resettled(holder, s) ==
  [k \in DOMAIN holder |->
     IF holder[k][1] = s.from /\ A2P(s.tr, holder[k][2]) >= s.at
     THEN <<s.to, holder[k][2]>> ELSE holder[k]]

\* The event of the touched block, as the addresses that change.
AddressPairs(a) ==
  LET names == NamePairs(a.blocks[a.touched].event)
  IN  [i \in DOMAIN names |-> <<<<a.touched, names[i][1]>>, <<a.touched, names[i][2]>>>>]

ArenaFollowed(a, holder) ==
  FoldLeft(Renamed,
           IF a.split = <<>> THEN holder ELSE Resettled(holder, Head(a.split)),
           AddressPairs(a))

ArenaDrained(a) ==
  [a EXCEPT !.split = <<>>, !.blocks[a.touched].event = NoEvent]

ArenaAddress(a, k) ==
  LET id == CHOOSE i \in DOMAIN a.blocks : k \in KeysOf(a.blocks[i])
  IN  <<id, NameOf(a.blocks[id], k)>>
ArenaKeys(a) == UNION {KeysOf(a.blocks[i]) : i \in DOMAIN a.blocks}

\* What a holder has after an insert of k: of a refused key, what it had.
ArenaHeld(r, k, holder) ==
  LET followed == ArenaFollowed(r.a, holder)
  IN  IF ~ r.ok THEN holder
      ELSE [x \in DOMAIN holder \union {k} |->
              IF x = k THEN ArenaAddress(r.a, k) ELSE followed[x]]
ArenaAddresses(a) == [k \in ArenaKeys(a) |-> ArenaAddress(a, k)]

\* The blocks are indexed by their least keys and lie apart, in the index's order.
ArenaIndexed(a) ==
  /\ Range(a.index) = DOMAIN a.blocks
  /\ \A m \in Mins(a) : LET block == a.blocks[a.index[m]]
                         IN  /\ MinKeyOf(block) = m
                             /\ \A x \in Mins(a) : x > m => Max(KeysOf(block)) < x
=============================================================================
