# TLA+ models of TinyTrie

This directory holds TLA+ specifications of the data structures of this
workspace, the TLC configurations that model-check them, and proofs that TLAPS
checks. Paths below are relative to the repository (`src/` in `PROJECT.json`).

## 1. The system

TinyTrie is a workspace of single-crate data structures. Only one of them is
shared by threads; the others are hard because a long series of legal calls must
keep several redundant pieces of state in step.

| component | state | operations | what makes it correct | hard because of |
|---|---|---|---|---|
| **Stacks** `block/src/stacks.rs` | per record a cell (RwLock over slot and dirty flag, lease count); one mutex over target, table, LRU list; the file | push, pop, read, lease, flush, len, blocks/top, drop and load | no item lost or doubled; leases pin; LRU list exact; blocks behave as in memory; flush covers; calls return | interleaving, two lock orders, relaxed loads, I/O errors, reopen |
| **Block** `block/src/block.rs` | one allocation with a front at each end, a freelist threaded through freed bytes, a cached copy of it | push, extend, shrink, alloc, free, pop_heap, grow, records | live bytes never disturbed; freelist sorted and apart; no stale bytes in a record | alignment slack, joins, clips, memmove |
| **Archive** `block/src/archive.rs` | none of its own | archive and release of nested values | a failed archive takes itself back | failure at any child |
| **Stack** `block/src/stack.rs` | units on the stack front, values in the heap | push, pop, items, save, load | a pop undoes its push byte for byte | geometry read from the end; three points of failure |
| **Translator, Mask** `doa/src/translator.rs, mask.rs` | rotation, offset, direction; words of live bits | turn, reverse, shift; scans, range operations, cursors | names survive; scans agree with sets | modular arithmetic, word edges |
| **BlockSet** `doa/src/blockset_v1.rs` | slots, mask, translator, pending delta event | insert ladder (append, turn, gather, slide, bank, rebalance, mint), remove, cleave | order; names change only as the deltas say | a ladder of strategies; one event stands for many renames |
| **ArenaSet** `doa/src/arenaset.rs` | blocks, an index by minimum, the split event | insert, spawn, cleave | routing agrees with contents; holders can follow | stale index entries, two events at once |
| **SkipSet** `doa/src/skipset.rs` | a BlockSet and cached window minima | insert, update, re-sync | the cached windows bound the search | silent moves of the base |
| **BlockMap, BlockBiMap** `doa/src/blockmap.rs, blockbimap.rs` | two maps whose values are each other's names | insert, remove, chase | the two sides stay inverse | chase order, duplicate values |
| **treeblock** `doa/src/treeblock/` | nodes in a block, walkers with ancestor positions | open one, two or n slots, spread, rotate, walk | walkers, entries and root follow the slides | stale positions, entries rewritten under the walk |
| **BTree** `btrees/src/` | inodes, a vector of leaves, links | insert with lending and splits, relocate | order; parent pointers follow shifts | shifts across parents |
| **Tries** `tiny-trie/src/` | node arena, key store, values | insert, get, cursors, optimize, promote, demote | agrees with a map; width promoted in time | rollback of duplicates, index width |
| **PolyTrie** `poly-trie/src/` | nodes of three radixes in an arena with freelists | insert, graduate, optimize | agrees with a map; freed nodes unreachable | in-slot freelists |
| block-derive, SIMD scans, arrays, block_splitting, benches, archive | – | – | – | generated code, scalar-equivalent scans, experiments, retired code: not modelled |

How they interact: Stacks keeps Stack values in cells and their records in a
file; a Stack is one Block in which values are archived; BlockSet and BlockMap
name slots through a Translator and find them through a Mask; ArenaSet and
SkipSet are built on BlockSet, BlockBiMap on two BlockMaps. Holders outside
follow renames through the *deltas* of an insert. The tries and B-trees stand
alone. `PROJECT.json` lists every component with its status, and every hazard at
its line.

## 2. Plan

In order; all are done but for what the components' notes leave out.

1. **Stacks** with its abstract specifications, histories and proofs.
2. **BlockOps, Block, Stack**: the bytes under a record.
3. **SlotOps** (the Translator mod 2^w, the Mask as a set, the insert ladder) and
   **BlockSet** with a holder that applies the deltas. Then what is built on it,
   composed by **Owners**: **ArenaSet**, **SkipSet**, **BlockMap** with the
   BlockBiMap, and **MaskWords**, the Mask word by word. Abstract specification: an
   ordered set or map whose elements have names, and a holder that knows them.
4. **Maps**: the tries, the B-trees and the poly trie against one abstract map.
5. **TreeSlots, TreeWalk, TreeMaps**: the blocks under a tree with their slides,
   the walker and its fix-ups, and two trees built on them, in Owners too.

One composed run per group (names and holders; maps) keeps the number of runs
small. The proofs follow the same order: Stacks, Block, Stack, BlockSet and ArenaSet
are done (section 8); the rest of Owners and Maps, whose modules recur over data,
stay with TLC. Modules
meant for proofs use no RECURSIVE operator: recursion is a recursive function or a
fold.

## 3. Stacks

`Stacks.tla` models `stacks.rs`. A cell is `stack`, `dirty`, `writer`, `rguard`
and `readers`; Shared is `shared` (the mutex), `top`, `ncells`, `resident`, and
its atomic mirror `resident_count`. The file is a sequence of records; a record
that was never validly written is `Nil`, as is the stack of an evicted slot. A
stack is the sequence of its items, which module Stack justifies: a pop undoes
its push, a refused push leaves no trace, and a record reads back as the block
it was taken of.

A call is a chain of critical sections and each section is one step:

| code | steps |
|---|---|
| `push` 488–524 | CallPush, ReadTop, CellOf, WriteLock, Ensure, RegisterLoaded, PushBody, Spill, Gate |
| `pop` 526–563 | CallPop, ReadTop, …, PopBody, Retreat |
| `read`, `lease` 600–659 | CallRead, CallLease, CellOf, ReadLock, ReadBody (hit), WriteLock … LookBody (miss), DropLease |
| `flush` 661–672 | CallFlush, ListCells, FlushBody per cell |
| `len` 565–583 | CallLen, Peek, WriteLock …, Finish per block |
| `enforce_budget`, `evict` 391–436 | Gate, EvictStart, EvictScan, EvictSkip, EvictTake, EvictUnlist, EvictEnd |
| `append_block`, `flush_slot` 438–475 | operators inside the step that holds the mutex or the cell; the file mutex is a leaf |
| last drop and load 199–294 | Close, Reopen |

The evictor (mutex, then cell) and the loader (cell, then mutex) are cut at each
point where the other could see them. `StaleLoads` lets the relaxed loads of
`readers` and `resident_count` return an older value; `MaxFaults` bounds the I/O
calls that fail. Not modelled: panics inside closures (the locks recover from
poisoning by design), and `resident_ids`, a diagnostic that changes
nothing.

`StacksAbs.tla` is what callers may rely on once caching is hidden: a growing list
of stacks and a target; `StacksBlocks.tla` maps Stacks to it (a block's stack is the
resident one, or else its record). `LifoStack.tla` is what one caller sees: a single
stack, to which `StacksBlocks.tla` maps the blocks joined in order.
`StacksHistory.tla` adds a history variable (what was stored when a flush began).

### Runs

| run | instance | shows |
|---|---|---|
| `race` | 2 threads, 2 calls each of six kinds, 3 one-item blocks, budget 1, stale loads | TypeOK, LeasePinned, ResidencyExact, Conservation, NoFalseCap, and the refinement ImplementsBlocks |
| `one` | 1 thread, 5 calls of all kinds, 4 two-item blocks, an oversized item, one reopen, three initial files | NothingAboveTop, LenCounts, NoneMeansEmpty, BudgetKept, and the refinement ImplementsLifo |
| `faults` | 2 threads, 2 calls each, one failing I/O call, fair | CleanIsOnFile, FlushCovers, CallsEnd |
| `birth` | 1 thread, 1 fault, 1 reopen | ClosedFileReads fails |

Two threads are enough for each race the code comments on: a granter and an
evictor, a loader and an evictor, two poppers, a popper and a pusher on a fresh
record. One-item blocks make nearly every push spill and every pop retreat, and
budget 1 makes nearly every call evict. Symmetry (threads) is used in `race`
only, which has no liveness property. Deadlock is checked in all: `Done` is the
only state in which nothing is left to do.

Fairness is weak fairness of each thread's `Step`, that is, of the code a call
that has begun still has to run; no call has to be made, no lease dropped. The
locks are not fair, and CallsEnd does not need them to be: each critical section
is short and the number of calls is finite. What it shows is the absence of a
cycle among the locks, and of an endless retry. (What prevents the cycle is that
shared → cell is never waited for; the header's reason for it, `try_write`, is
needed for blocks that are being read or written.)

### Findings

* `birth`: `append_block` extends the file before it writes the record. If the
  write fails the file keeps a record of zeros, and the next `load` refuses the
  whole file, although the header (5–6) says that a block never flushed reads
  back as an empty one.

Two remarks that no run is needed for. The fast paths of `read` and `lease`, and
`flush`, end without enforcing the budget (the header, 28: "after each
completing op"); BudgetKept speaks of the operations that do. And with two
threads `pop` may answer `None` although a block held an item throughout: its
retreat passes a block that a push fills afterwards. The header allows it (48–49),
the doc of `pop` (526–527) does not; NoneMeansEmpty is checked for one caller, and no
property is about a racing `None`. Nor is one about a `len` that races: it adds up the
blocks one by one, and its sum may be that of no single moment.

## 4. Block, archived values, Stack

`BlockOps.tla` gives the operations of `block.rs` and `archive.rs` as functions
on a record `[cap, stack, heap, holes, mem]`. A byte of `mem` is a symbol: zero,
a byte of the value x, the first byte of a freelist node with its length and
link, or another byte of a node. This is enough to see a stale byte, to walk the
freelist in the bytes as a load does, and to see whose bytes a write hits.
Offsets, alignments, pads and sizes are those of the code.

`Block.tla` puts a free caller in front: values of one region or of a region with
children are archived (or run out of space half way), released in any order, the
stack front pushed, extended and cut, the heap front rolled back, the block
grown, its record written and loaded.

`Stack.tla` is `stack.rs`: units `[snap][gap][handle]` on the stack front, found
forwards by index and backwards from the length alone.

| run | instance | shows |
|---|---|---|
| `block`, client "values" | 4 values out of strings of 3 and 8 bytes and vecs of one or two strings, 16 and 32 bytes, alignments up to 4 | TypeOK, ValuesIntact, HolesInOrder, ZeroRecord, LoadKeeps, ErrUnwinds |
| `block`, client "units" | a Stack of each of five element types, 64 to 96 bytes | ItemsReadBack, PopErases, ErrLeaves, LoadExact |
| `block_sorted` | regions of 16 bytes and of 8 at alignment 8 | HolesInOrder fails |
| `block_stale` | as the first, three values | RecordClean fails |

`MCBlock.tla` puts both clients into one run: `client`, chosen at the start, says which
one a behaviour has, and the block of the other stays empty. The two never share a
block, as no block of the code serves both.

Blocks of 16 and 32 bytes fill after two to four values, so every path of
`alloc` (best hole, crumb above, rest below, pad, no space) and of `free` (join
of touching holes and across a crumb) is taken; 64 to 96 bytes hold two to a
dozen units, so each of the three failures of a push occurs. Values are
interchangeable in `block`, which has no liveness property: symmetry.

Findings:

* `block_sorted`: when the slack on both sides of an aligned region can hold a
  node, `alloc` puts the two on the freelist in descending order. Debug builds
  stop at the assertion of `sync_holes` (547); release builds go on with an
  unsorted list. It takes an alignment of 8 or more, so `block` keeps to
  alignments up to 4 and shows the order for those.
* `block_stale`: `grow` zeroes the new tail, but its memmove leaves the heap's
  old bytes in the gap, and `alloc` does not zero what it claims from the gap.
  The pad and the rounded tail of a region then carry stale bytes into the
  record, against the zero-record invariant of the header (12–19). ZeroRecord
  therefore speaks of blocks that were not grown.

ErrUnwinds is weaker than the doc of `archive` ("on Err the heap is unchanged"):
after a failed archive a hole may have lost a crumb of less than a node, which is
the case that `free` and the notes call near-exact. Stack never leaves
a hole, so for it the failure leaves no trace at all (ErrLeaves).

Not modelled: `rel_cmp` (the order of handles against keys), typed views of
bytes, records damaged outside the program, offsets beyond 16 bits (`check_cap`
refuses such capacities), values nested deeper than a vec of strings.

## 5. BlockSet and the names of its slots

`SlotOps.tla` gives `blockset_v1.rs` and `translator.rs` as functions on a record
`[cap, data, tr, sum, last, streak, epoch, event]`: the search (bisection, or the
walk from the streak's anchor), the flip and the turn, and every rung by which an
insert opens a slot: append, solid tail, subdivision of a gap, slide of a near
hole, bank of many holes with sentinels left behind, water-leveling of words with
or without growth, and slots minted for a solid block. Names are numbers modulo
2^Width. The element moves and the mask are computed apart, as in the code: a set
mask bit over a slot to which nothing was moved shows as a stale element, and an
element whose bit is clear is gone. The event keeps its expansion into pairs in
the order in which `step_state` yields them, under the translator of the time.
The key heap is left out (removed keys leak in the code). `blockset.rs`, the
rewrite over the block crate, has the same ladder.

`BlockSet.tla` adds who uses it: a holder of names that pulls the pairs one by
one and renames its first match (as `apply` does in the tests, 2028), and a
caller who between two pulls may find and remove elements or have the block
reversed. The next insert waits for the end of the drain, which `insert` asserts.

| action | code |
|---|---|
| Insert, Refuse | `insert` 932–956, with the flip it makes before it knows whether the key is there |
| Pull, Settle | `DeltaIter::next` 455, `next_pos` 347; the last pull clears the event |
| RemoveFound, RemoveHeld | `find` 868 and `remove` 1198 |
| Flip | `reverse` 1024, when it is due |

| run | instance | shows |
|---|---|---|
| `blockset_holder` | 64 names, stride 2, words of 4 slots, 24 earlier histories of up to 85 calls, 11 keys, 2 more calls | Ordered, HolderFollows, SpotHonest, TurnAgrees, PositionsTold |

The code's thresholds (stride 6, words of 64, a sentinel per 15 holes) are
constants and shrink with the block, in their order. The histories (ascending,
descending, mixed, thinned; near-empty to all names used) are chosen so that two
calls reach every rung, forward and reversed, banks to either side with none to
four sentinels and with a landing off their edge, leveling that fits, that grows,
and that is refused at the ceiling, and turns of reversed blocks. The histories
are inserts and removes by the same operators, so the initial states are reached
by the code.

The properties say together that an insert may move what it likes as long as the
order, the mask and the search stay right, and that both kinds of followers can
keep up: holders of names by the pairs (HolderFollows, at every point of a drain),
and holders of positions by the pairs and slides as long as the epoch stands
(PositionsTold). That an append never slides (the header, 19–21) is so while unused
names remain: with all slots allocated and holes left below, it has to.

`cleave`, `insert_at`, `push_beyond`, `replace_key`, cursors and `find_window` are
used by the owners of a BlockSet only and are modelled for them (next section).
Not modelled: the heap of keys, and `rebalance_block`, which nothing calls.

## 6. Owners of blocks, and trees in blocks

`Owners.tla` composes what the crate builds of blocks and masks. As in Maps,
`kind` says which structure an instance is and `st` is its state; `dict` is what
the client has put in and not taken out, and `holder` the names it holds, kept
up to date from the events of each call. Neither looks at what the structure
answers.

| kind | module | source | state |
|---|---|---|---|
| – | SlotSet | `blockset_v1.rs` | what owners use of a BlockSet beyond `insert`: lookups in a window, cursors, inserts at a place already found, `push_beyond`, `replace_key`, `cleave` |
| `arena` | ArenaSet | `arenaset.rs` | blocks, the index from least keys to ids, the block last touched, the cleave not yet taken |
| `skip` | SkipSet | `skipset.rs` | a BlockSet, the tiers of cached window minima, the epoch at which they agreed |
| `bimap` | BlockMap | `blockmap.rs`, `blockbimap.rs`, the event of `blockset.rs` | two maps, each slot of one holding the other's name of its partner |
| `mask` | MaskWords | `mask.rs` | words of bits and the number of bits tracked |
| `bplus` | TreeSlots, TreeWalk, TreeMaps | `treeblock/`, `examples/btree.rs` | slots with nodes, the translator's shift, the root and the height; nodes in pre-order |
| `binary`, `pinned` | the same | `treeblock/`, the binary tree of `tests/walker.rs` | the same, nodes in order, in a Uniform block and in an Anchored one whose root stays |

| action | code |
|---|---|
| InsertArena | `insert` 137 with the spawn of a block on either side and the cleave of a full one, then the drain of both events by a holder of (block, name) pairs |
| InsertSkip, PlainlySkip | `insert`, and the insert without the tiers; each with the re-synchronisation after slides, turns, flips, leveling and tail pushes |
| RebuildSkip, UpdateSkip | `rebuild`, `update` (remove and insert again of a held key) |
| Pair | BlockBiMap `insert`: the key placed, its slides chased into the partners' back-pointers, the value placed or found to be a duplicate, and then the key taken out again |
| UnpairKey, UnpairValue | removal by either side |
| PutBit, ResizeTo, Clearing, Mirror, Cut, TurnMask | the operations of a mask; a turn of the bits moves them as the Translator moves the elements |
| InsertTree | the example's `insert` 476: every full node on the way down is split, the way down restarts, and the key goes into its leaf |
| BurstTree | two chains of new nodes in one range of slots, as the tests use `open_n_here` and `open_n_child` |
| InsertBinary, RotateBinary | `bst_insert`, and `rotate_right` and `rotate_left` at any riser |

| run | instance | shows |
|---|---|---|
| `owners` | the seven kinds, each after 4 to 13 earlier histories of up to 30 calls; names and strides as in `blockset_holder` but 16 names and strides of 2; B+ nodes of degree 4; two more calls | AnswersAgree, HoldersFollow, WindowsBound, ScansAgree |

AnswersAgree asks every lookup, the iteration, and a cursor's seek and step in
both directions, from keys that are in and keys that are not. HoldersFollow is the
contract of the events: after a cleave, a chase or a refused pair, every name the
client holds still names its key. WindowsBound is the invariant behind the
speed: the window that the tiers or the index lead to is the right one.
ScansAgree compares each scan of words with the set of bits.

The trees. An open finds a hole near an anchor, or spreads the block, slides the
nodes between them and leaves a slot. Nodes name their children by slots, so
before the slide the walker walks the run and rewrites the entries that name its
members, after it corrects its own position and its ancestors', and in a block
whose nodes store their parent it renames that too: `Fixup`, `Follow` and
`Reparented` of TreeWalk, under the searches of TreeSlots (`find_slot`,
`find_2_slots`, `find_n_slots`, with the pin of an Anchored root). `holder` has the
names of all nodes and follows only the fix-ups that an open returns.
AnswersAgree asks of a tree that its entries name each node once, that the walks
on and back visit the slots in order, that keys lie in order, are found and are
separated, and that stored parents are right. A call may refuse its keys only
when the block is tight: it cannot spread and has no slot (on the key's side of a
pinned root), or the root of a B+ tree has to be split, or a burst finds,
after one spread if the block can spread, fewer holes than it wants on its side: after
the root, before the child that is to follow, or after the last node. Any other
refusal breaks AnswersAgree.

Rules a client has to keep, which the actions take from the tests' assertions: a
binary node's first child is at slot 0; a riser to the right has two children,
since a node with a child at slot 1 only cannot be walked; a pinned root is not
rotated away. The stored parent of a root is not asked for: a rotation leaves the
old one there. In the repository no node type sets STORES_PARENTS; the binary
trees here do, so that the code for it is exercised.

Bounds. With 16 names in a block two or three cleaves of an arena and every rung of
the ladder are within a history of 30 inserts; ascending, descending and mixed
histories give blocks that grew at either end, reversed ones and banked ones,
and a SkipSet's tiers are built before or after them. Words of 4 bits and masks of
up to 10 bits (20 after a turn) have whole words, partial ones and edges. All
operations are total functions on a record, so a history is folded by the same
operators as the calls.

Trees spread from one slot to all 16, of one to three levels and as lists, with
holes near and far; refusals, bursts that move nodes and rotations at the root all
occur.

Seen while modelling the trees:

* Two opens at once want slides that are independent, so `find_2_slots` refuses
  when both anchors fall on the same hole, with others beyond it (`store.rs` 121 to
  123 speak of a lone one). A B+ tree of 16 descending keys cannot take a
  17th, with 3 of 16 slots free. `find_n_slots` spreads once, and
  refuses what a second spread would give (`blocks.rs` 248 and 249: "a post-spread
  miss means fewer than n Nones exist"; fewer on the anchor's side, it is).
* `grow_and_spread` of a Uniform block leaves the inner offset that `cleave` sets,
  so that a spread after a cleave would change names. `cleave` is not modelled.
* The example's `remove` can leave an empty leaf, of which a later split takes the
  least key.

Not modelled: BlockSet's successor in `blockset.rs` (only its event type is used
by a map; no owner is built on it), and the statistics of SkipSet. Of treeblock:
`cleave`, which starts a second block that nothing joins to the first, the
Pluripotent mode and its DequeStore (an edge grow is reached only after a
cleave), swaps, the `try_` probes, post-order, and the block cursor, which no tree
uses.

## 7. Maps

The workspace has eight maps from byte strings to values, and the benches drive
all of them through one interface (`benches/src/benchable_map.rs`). `Maps.tla` is
that interface: `kind` says which map an instance is, `st` is its state, and
`dict`, the abstract map, is what the client knows from the accepted calls. Each
map is a module of functions on a record, named as in the code.

| kind | module | source | state |
|---|---|---|---|
| `nibble` | NibbleTrie | `nibble_trie.rs` | nodes (Inodes and, after `flatten`, FlatNodes), key bytes, the gapped index in key order |
| `dyn` | DynTrie | `dyn_trie.rs` | a NibbleTrie and the width of its pointers |
| `nib` | NibTrie | `nib_trie.rs` | nodes of radix 4, key bytes, index and values in order of insertion |
| `bit` | BitTrie | `bit_trie.rs` | nodes of radix 2 with a prefix length per child, a key store |
| `fixed`, `fixedauto` | FixedTrie | `fixed_len_nibble_trie.rs` | nodes of radix 16, key slots of one length; `insert_auto` optimizes at powers of two |
| `int` | IntBTree | `int_btree.rs` | inner nodes, the leaves as one vector in key order with gaps, the bytes of long keys |
| `str` | StrBTree, KeySlots | `str_btree.rs, key_slots.rs` | inner nodes, linked leaves, packed keys |
| `poly` | PolyTrie, PolyArena | `poly_trie.rs, arena.rs` | references of width 2, 4 or 16, blocks of children, a freelist per size in the freed slots |

Pointers are the code's integers; `ptr` is the greatest one, so that the width of
an index is a number of the state and promotion and demotion change it. A key is a
sequence of bytes, and the SIMD searches are what their scalar versions compute.
A cursor is the stack of nodes of the code; a walk moves it with the code's own
step until it is past the end.

| action | code |
|---|---|
| InsertKey | `insert` (`insert_auto`) with all it does: promotion first, re-spread of the index, shift of an index run and the bump of every pointer to it, splits, lending and cascades, graduation, rollback of a duplicate |
| Optimize | `optimize`: nodes and keys laid out anew |
| Flatten | `NibbleTrie::flatten` |
| Resize, DemoteDyn | `promote`, `demote` of the tries that have them |
| RewriteAt | `get_mut` |
| RewriteFrom, RewriteAll, RewriteBack | the mutable cursors, from a key, from the first key and from the last |

The properties are what a user of any map relies on: GetAgrees, ForwardInOrder,
BackwardInOrder, SeekLands, RangeExact (ranges of a NibbleTrie, four kinds of
bounds) and RefusedWithReason: an insert is refused for a key that is there or for want
of room, and a refusal changes no entry. A DynTrie has room until its widest pointer is
full; a NibbleTrie of one width until its index is, which a re-spread inside the insert
may fill. StructureSound adds what answers alone do not show:
each key is reached once, no entry of an index or a store is unreachable or
reached twice, addresses are inside, separators part their subtrees, the leaf
links are the leaf order, and the poly trie's arena is exactly the blocks in use
and the freelists.

| run | instance | shows |
|---|---|---|
| `maps` | the nine kinds; 4 to 6 keys for a trie, 6 or 7 calls from an empty one; 24 keys for a B-tree with nodes of 4, 2 calls after 8 earlier histories of up to 20 inserts | all seven properties |
| `cascade` | a StrBTree, 3 calls | GetAgrees fails |
| `respread` | a DynTrie, the keys and calls of `maps` | RefusedWithReason fails |

Bounds. The keys of a trie hold a prefix of another, siblings that part in the
first and in the second half of a byte, and, where the map allows it, the empty
key: with five keys each kind of split, both kinds of leaf, and nodes of one to
three children come up. `Widths` 7, 15 and 31 stand for the pointer widths, so
that a DynTrie of four keys promotes. Two histories of a B-tree fill all nodes
upward and downward, the others out of order, so that the two calls meet full
leaves below full nodes, lending to either side, splits up to a new root, and runs
of leaves that shift. N = 4 is the least even node size with room to lend; with
InlineMax 1 and KeyLenMax 2 there are keys of both kinds of slot and one too
long. A client that rewrites values makes one more call at most. LenMax,
FnodeCap and FnodeNull are the code's, or out of reach.

`Reckless` names calls known to break a map or a promise of it, which the client of
`maps` does not make and the clients of `cascade` and `respread` do:

* `cascade` (finding): `try_rebalance_leaf` recurses to both sides, so a cascade
  may lend back into the node it came from; it then answers false although
  separators have moved, and `walk_to_leaf` keeps the child it chose before. The
  key lands on the wrong side of a separator and `get` does not find it.
* `respread` (finding): DynTrie promotes while the index is full as it is, and then the
  insert may re-spread it to 2n + 1 positions. If that is the greatest pointer (127 keys
  under one-byte pointers), the check after the re-spread refuses a new key, although
  three wider types are left and `dyn_trie.rs` 67–69 has `Err` for duplicates only. The
  next insert promotes. In the model `RespreadFits` guards it, for new keys only.
* `optimize`: `NibbleTrie::optimize` (1131) spreads the keys over twice as many
  index positions without asking whether a pointer reaches the last. A DynTrie
  of one-byte pointers with 128 to 253 keys is corrupted by it, against
  `dyn_trie.rs` 1–7 ("promotes before overflow"). In the model `Reaches` guards it.

What the maps do and their docs do not say; the keys and properties of `maps` are
chosen so that these do not show, and no run is spent on them:

* NibbleTrie and NibTrie compare past the end of a key as if zeros followed. A
  key that ends where two others branch is lost to a lookup if one of them goes
  on with zeros (`nibble_trie.rs` 12–13 promises any keys). With
  `[0x10, 0x01]` and `[0x10, 0x02]` put in, `[0x10]` is such a key.
* `seek` of an absent key of a trie is not a lower bound (doc at
  `nibble_trie.rs` 2637); of a stored key it is right, which SeekLands says.
* BitTrie takes a key twice that ends at a node (about 430), and its backward walk
  passes over such a key when the node has only child 1. Its callers end every key
  with a NUL, and so do the keys here.
* `insert` of FixedTrie does not optimize, as its header says; `insert_auto` does,
  and the index it answers may be that of another key afterwards.

Not modelled: the unchecked lookups (which repeat the checked ones), iterators
that only wrap a cursor, seek of absent keys, the panic of a redistribution that
asks a node for more keys than it has, pointers too narrow for a B-tree or a poly
trie, keys with a NUL in a poly trie (it refuses them).

## 8. Proofs

The theorems are about the components that others rest on: Stacks, for any number of
threads, items, blocks, calls, faults and reopens; Block and Stack, for any values and
any history of calls; BlockSet, for any width of a name, any constants of its ladder
and any history of calls; and ArenaSet on top of it, for any number of blocks. Those about Stacks rest on the named assumptions on the constants in
`Stacks.tla`, which TLC evaluates in every run. The one added for the proofs,
`OneCopyAssumption`, says that no item is twice in an initial file; like the rule
that a call pushes an item not pushed before, it makes an item stand for one
push, so that a copy made or lost can be told from a second push of the same
bytes.

| theorem | states | module |
|---|---|---|
| TypeCorrect, LeasesPin, CapIsHonest, CleanMatchesFile | TypeOK, LeasePinned, NoFalseCap, CleanIsOnFile | `StacksProofs` |
| OrderFollowsSlots | ResidencyExact | `StacksProofs` |
| Conserved, BlocksImplemented | Conservation; the refinement ImplementsBlocks | `StacksProofs` |
| TopTheorem, NoneTheorem, LenTheorem, BudgetTheorem | NothingAboveTop, NoneMeansEmpty, LenCounts, BudgetKept | `StacksProofs` |
| FlushTheorem | FlushCovers | `StacksProofs` |
| LifoImplemented | the refinement ImplementsLifo | `StacksProofs` |
| BlockTypes, ValuesStayIntact, HolesStayInOrder, LoadKeepsTheBlock, FailureUnwinds, NothingIsLeftBehind | TypeOK, ValuesIntact, HolesInOrder, LoadKeeps, ErrUnwinds, ZeroRecord of Block | `BlockProofs`, on the lemmas of `BlockOpsProofs` |
| ItemsStayReadable, PopIsExact, RefusedPushLeaves, ReloadIsExact | ItemsReadBack, PopErases, ErrLeaves, LoadExact of Stack | `StackProofs`, on the same lemmas |
| OrderedAlways, SpotHonestAlways, TurnAgreesAlways | Ordered, SpotHonest, TurnAgrees of BlockSet | `BlockSetProofs`, on the lemmas of `SlotOpsProofs` |
| HolderFollowsAlways, PositionsToldAlways | HolderFollows, PositionsTold of BlockSet | `BlockSetProofs` |
| ArenaAnswersAlways, ArenaFollowsAlways, ArenaTakesAlways, ArenaIndexedAlways | what AnswersAgree, HoldersFollow and WindowsBound of Owners ask of an arena, and that only duplicates are refused | `ArenaSetProofs`, on the lemmas of both modules above |

`ListLemmas` holds what the proofs about several components need: induction on numbers,
and what the operators on lists return.

### Stacks

None of these properties is inductive. Each invariant below contains or builds on
those above it, and each is kept by every action, one lemma per action or per
group of actions with the same effect.

* `IInv == TypeOK /\ LockInv /\ LeasePinned`. That the closure of `with_slot` finds
  a stack to unwrap depends on the lock its thread holds, so LockInv says, label
  by label, which lock that is (the write lock of its cell from `ensure` to `body`,
  the mutex from `evict` to `unlist`), that its block is in the table and, past
  `ensure`, resident, and that the evictor's candidate is a place of the LRU list.
  LeasePinned is needed because a read guard and the lease it grants exclude the
  evictor only together. LockFrame reduces each action to the thread that moves.
* `FileInv`: CleanIsOnFile, and no slot past the table holds a stack (so a record
  that `append_block` grows the file by belongs to none).
* `LruInv` is ResidencyExact by blocks: the list has no repetition, its length is
  the counter's, and a block is on it exactly when its slot holds a stack, but for
  a loader between `ensure` and `register` and an evictor between `take` and `unlist`.
  What makes it inductive is in IInv: the first holds the cell, the second the
  mutex, so neither can meet another of its kind.
* `DiskInv` adds FileFull: while no I/O call fails, the file has one written record per
  cell. Without it the content of an evicted block would not be defined.
* `ConsInv` adds PushInv (the item of a push that has not stored yet is new, and no
  other push has it) and ItemsInv (the blocks hold the items stored and not
  taken, each in one place). Conservation counts the places in the cells and in
  the file; it follows by showing that one place is counted when ItemsInv says one,
  and none otherwise. The same invariant carries the refinement: eviction, reload
  and write-back leave every block's content as it is, and `push`, `pop` and
  `append_block` map to the steps of StacksAbs.
* `SoloInv` adds, for one caller: the call works at the target, the blocks above it
  are empty, a retreat leaves an empty block, and a `len` under way has counted the
  blocks below its place.
* `BudgetInv` (with LruInv): the only caller's locks follow its label, its lease is
  counted, and the evictor has passed leased blocks only.
* `HistInv`: a `flush` under way has written what was stored when it began, up to its
  place, and every such block was in the table it listed. ItemsStay and CoverKeeps
  carry it across other threads' steps: an item that is not popped stays in its
  block, and a record once written with it keeps it.

The refinement of LifoStack needs no more state than SoloInv: the blocks above the
target are empty, so what changes at the end of the target's list changes at the
end of all of it. Its map joins the blocks with the recursive function of
FlattenSeq. The library's induction theorems cannot be used (they take an operator
as a parameter), but the least-number principle, which takes a set, can: Upwards
(in `ListLemmas`) derives from it the induction that FlattenIsJoin, JoinSame and JoinTail use to
unfold that function. FlattenAround then says what the proof uses: with every
list behind the i-th empty, the join is a fixed list followed by the i-th one.

The conditions of the theorems are those of the properties. What says "no I/O
call failed" holds up to the first failure: after one, an item may be lost in an
unwritten block, as the code says. BlocksImplemented and LifoImplemented assume that
no call fails at all, because a refinement speaks of the whole behaviour. `OneCaller` is the
hypothesis that there is one thread, as in the run `one`, since with two threads
these properties are false (see the remarks in section 3). BudgetTheorem also
takes `~StaleLoads`: a thread's own relaxed loads see its own writes, while the
model's stale loads may return any older value.

### Block

`ConstantsAssumption` says that sizes are natural, alignments positive, and an item
of the stack front not empty. The invariant IInv of `BlockProofs` has three parts:

* Good: the fronts and the list head fit in the block, every hole holds a node and
  lies in the heap, any two are apart, and the bytes hold the list: the head names
  the first hole, the first byte of each its length and the next.
* Kept, for each value held: its regions are empty or of the heap, clear of every
  hole, apart from each other, and filled with the value's bytes.
* Parted: two values held share no byte.

Bytes are named in the proofs by their offset from the end, as handles name them, so
that growth moves nothing. For each operation of `BlockOps` a lemma says that it keeps
Good, which regions stay clear, and that their bytes stay. Two facts carry the
rest. A region that is clear of the holes stays so when they are joined over a gap
(BridgeIs), because a gap shorter than a node holds no region; this is where the
coalescing of `free` could have eaten live bytes. And an archive under way
(Progress) owns what it has stored so far, clear of everything clear before, so that
its unwind gives back exactly that.

IInv does not say that the holes are in order. TypeOK, ValuesIntact and LoadKeeps
therefore hold for every alignment, also for those above a node with which the list
gets out of order (run `block_sorted`): the disorder costs coalescing, never a byte of
a value. The walk of a loaded record (WalkIs) follows the links and needs no order
either; that it takes enough steps is HolesFit, a count of holes that are apart.

HolesStayInOrder has the hypothesis AllModest, that no value is aligned to more than
NODE, and `block_sorted` is its counterexample without it: such an alignment can leave
a hole on both sides of what it takes, and the code lists the two the wrong way round.
Up to NODE one hole at most is left (TakeRises). The invariant is Rising: each hole ends
a node before the next begins. It makes the search of `free` find the place of
a region (BelowIs), and the join closes every gap shorter than a node (JoinRises).

FailureUnwinds has the same hypothesis. An archive cuts regions from holes and, when
it fails, frees them again, rolls the heap front back, and may find a few bytes
missing: the crumbs it left above and below a region. Tight says, while the archive is
under way, that the bytes of the old holes that are now in no hole and in no region of
its own are fewer than a node on any stretch, and touch no hole. The second part is
what makes the first inductive: two allocations side by side would otherwise leave
two crumbs that meet (TakeTight; it needs Rising). free and pop_heap then drop nothing
that was in a hole and below the old front (FreeHouses, ClipHouses), so
a byte that is lost was one of those crumbs.

NothingIsLeftBehind says of the bytes what IInv does not. A byte is a stray when it
is written, and no freelist node lies over it; Traced says that each stray is a byte
of the stack front, or one that a held value asked for. A lemma for each operation says
that it leaves no new strays (Tidy): what SyncHoles does not wipe was no node, the head
of a hole that is cut or moved lies in bytes that are wiped with it, and a release
clears its whole region. For pop_heap this has a condition: no hole may reach
less than a node below the new front (Edged), or it would die with a part of its node
unwiped. A caller rolls back to the end of a region it holds, which the holes are
apart from, or to the list head. An unwind rolls back to where the archive found the
front: no hole, and no region the archive has taken, lies across that (Settled), so
no hole its release makes does. No condition on alignments or order is needed.
Growth is excluded, as in the property: it leaves the heap's old bytes in the gap
(section 4).

The library defines its folds by CHOOSE of a recursive function on sets of places.
FoldingExists and FoldingSteps turn such a fold into a sequence of steps; they are stated
for one operator that stands for the four that `BlockOps` folds with, since a lemma
cannot have an operator as a parameter.

### Stack

`StackAssumption` says what every Rust type gives: a handle's size is a multiple of
its alignment, which is one of 1, 2, 4, 8 and the block's own, and its values ask for
natural sizes and positive alignments. That is all the theorems need; there is no
bound on capacities, on sizes, or on how many values lie in a block.

PopErases compares a block with one that an earlier step saw, any number of steps
ago, byte for byte. The invariant IInv of `StackProofs` therefore speaks of all the
blocks that the pushes found, and of the one as it is (Chain). Each of them

* is Pure: Good as above, with no holes, and zero in every byte that is not on a
  front. With no holes an allocation can only come out of the gap (AllocPure), so the
  regions of a value lie below the heap bottom its push found, and what has been laid
  can be taken back by one roll of the front (UnwindBack).
* has the stack length of its number of units, as the geometry gives it (TopOf).
* has its fronts over those of the blocks found before (Over): the bytes that were
  on a front then are the same now.
* holds each unit's snap, handle and regions where they were put (Rests).

Two pure blocks with the same fronts and the same bytes on them are one block
(PureSame). So a pop need only cut the stack front and roll the heap front to where they
were, and the rest follows from Over (PopBack); so does each of the three failures of
a push, where the snap is cut off again (ShrinkBack) before the value is unwound. The
numbers come from UnitIs and LastIs: rounding up puts a snap at a multiple of the
stride, and the handle right behind it, for each alignment; and the last unit, its
start included, is what the code computes backwards from the length alone.

### BlockSet

All five properties of `BlockSet.tla` are proved, under `SlotOpsAssumption` (a name has at least
two bits, the free stride lies below a chunk, the ratios are below one: what the
code's consts satisfy) and `BlockSetAssumption` (keys are positive, and earlier
histories are lists of calls). Nothing bounds the width, the number of elements or the number of calls:
`MaxCalls` appears in no invariant.

The invariant, theorem Sound, is `IInv`; TLC checked it on the states of
`blockset_holder` before it was proved. It says that

* the block is Good: its fields have their types, its slots are in key order, or its
  reverse in a reversed block, and the streak's anchor is a slot. This alone gives
  Ordered, SpotHonest and TurnAgrees. That the anchor's element is still the one
  inserted there is *not* part of it: the proof of SpotHonest shows that
  `spot_near` checks enough to be right from any anchor, or answers nothing.
* the pairs still to be pulled are Chained: a name that a later pair renames was not
  given by an earlier one, and no name is renamed twice. Without it HolderFollows is not
  inductive: a pair would be applied to an entry that has just been renamed.
* Owing: each entry of the holder either is its element's name, or is renamed to it by
  exactly one pair that is left. It survives removes and reversals between two
  pulls, because they change no name.

How a step keeps it follows the code's ladder. What every rung owes the next step is one
predicate, `Opens(b, spot, o, m)`: the elements are moved by a one-to-one map m that
keeps their order, slot `o.at` is clear and at the boundary, and the event's pairs are the
moves of m, in an order that overwrites no slot with an element yet to move (Told,
Unravelled). There is one lemma for each rung:

| code (`blockset_v1.rs`) | lemma | why |
|---|---|---|
| `spot_near`, `bsearch` 1058-1122, 1230-1322 | SpotIs | each probe keeps every boundary in its window (ShrunkIs), and the window shrinks |
| `grow_rotate` 1842-1901, `rotate_mask` | GrowRotateIs | a name's two digits are swapped back and on by one bit, which doubles its slot or wraps it (SpinNext); names do not change, and the epoch moves |
| `reverse` 1024-1049 | FlipIs | the translator's direction turns with the slots |
| `slide_open` 1447-1502 | SlideOpenIs, SlideIs | one hole, a run moved by one |
| `fetch_holes`, `compact_gather` 1494-1640 | FetchedIs, BankToIs, BankMaskIs, BankPairsAre | a bank's holes lie beyond its sentinels (BanksAre), so it carries each element outwards, none past another, and its mask is theirs |
| `rebalance_region` 1712-1838 | ScanIs, MinStrideIs, LevelToIs, LevelPairsAre, RegionIs | the scan ends with a window of whole words that holds the spot; the stride fits it; those that move up are told from the top and those that move down from the bottom |
| `gather_slots` 1361-1431 | GatherSlotsIs | the fork takes one of the above whenever there is room |
| `open`, `insert`, `place` 932-1195 | OpenIs, PlaceIs, PlaceTailIs, InsertedIs | an opened slot between its neighbours takes the key |

Two techniques recur. `Ordered` needs no counting once a move is known to rise with the
slot; the arithmetic is in showing that it does, with the number of a bank's holes at or
beyond a distance (OverIs, CrossedRises). And every recursive function of the model (the
search, the scan, the history before Init, the folds of pairs) is first shown to
exist on a set with a well-founded order, then followed by induction on numbers from
`ListLemmas`; for this the search and the scan are functions on explicit sets of windows.

PositionsTold follows from the same Told: it is proved for each action that keeps the
epoch. Turns and reversals move the epoch and owe nothing.

### ArenaSet

Owners has many structures and reaches modules with RECURSIVE operators, so its
properties as such are out of the prover's reach. `ArenaSet.tla` is not: it is
made of functions and folds, and its operators are the ones that Owners calls. `ArenaSpec`, in
`ArenaSetProofs`, is InsertArena of Owners on variables of its own: the arena, the
keys given to it, and the caller's addresses, from an empty arena on, with any number of
inserts of any keys. The theorems say for it what the run `owners` asks of an arena:
`find` answers the caller's address for a key that was given and nothing for others
(ArenaAnswers), the caller's addresses are the keys' (ArenaFollows, HoldersFollow in the run),
and ArenaIndexed is the very operator that WindowsBound uses. That an insert is refused
only of a key that is there (ArenaTakes) says that the way through a split always ends in
a block that has room. They rest on `SlotOpsAssumption` alone: there is no bound on the
number of blocks. The code's ids are u32, and a block has at least one key.

The invariant is `AInv`, theorem ArenaStands. Its parts:

* Housed: each block is Good and has a key, the index has exactly the blocks' least
  keys, and no block's least key lies between the keys of another. The last is what makes
  routing by least keys right (RouteIs, HomeIs), and what a cleave, a lowered
  least key and a spawn have to keep.
* Between calls no event and no cleave is pending, and `touched` is a block's id, so that
  a drain after a refused key drains nothing (DrainedSame).
* Held: the caller has the address of every key.

An insert ends in one of five ways, and for each a lemma says that the blocks stay
Housed and that the key went into exactly one of them: the block routed to took it
(GrowHoused), took it below every key, with the first entry lowered (LoweredIs), a new
block was spawned beside it or below all (SpawnHoused), a full one was cleaved and the key
went into a half (CleaveHoused), or the key was there. What a cleave does is CleavedLeftIs and
CleavedRightIs: either half has the elements on its side of the cut under the names
they had, the right half by a translator shifted by the cut (ShiftedIs). In a reversed
block the low slots hold the high keys; both index entries are replaced for that
reason, and the proofs need both.

The caller's order matters: it moves the names of the source block at or beyond the cut
to the new id first, by the translator that the split carries, and only then applies the
event of the block that took the key. LandsOwes takes the pairs as a chain owed to the
addresses of one block, with the lemma on chains that HolderFollows rests on (OwesFolds).

Not proved of an arena: that `iter` walks its keys in ascending order (in the run it
is part of AnswersAgree), which is the join of a list of lists of any length.

### How the proofs were checked

The prover's SMT encoding takes a function with 0 in its domain for a sequence when
an obligation mentions Len. Tuples over cells 0 .. n - 1 are such functions here, so
all proofs were checked a second time with the axiom for the length of sequences
restricted to sequences. They pass in both ways.

### Only model-checked

* CallsEnd: liveness under weak fairness, and ENABLED, are beyond the prover.
* The properties of Owners and Maps, but for what is proved of an arena above. Most of
  their modules recur over data (trees, chases, walks), with RECURSIVE operators, and
  what such an operator computes for every input cannot be stated to the prover.
* The five findings, which are counterexamples.

## 9. Running

    tlc -workers 2 -config MCStacks_race.cfg MCStacks
    tlapm StacksProofs.tla          # and so for each module of section 8

`PROJECT.json` lists the runs with their properties, for each property a mutated
definition that breaks it (operators marked "(mutant)"), the lines each
definition models, the findings, the hazards and the theorems. A helper without
an entry of its own stands for lines that the entry of the definition using it
names.
