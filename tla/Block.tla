------------------------------- MODULE Block -------------------------------
(***************************************************************************)
(* One block and a caller that keeps handles to what it archived in it:    *)
(* values come and go in any order, so regions are freed into holes,       *)
(* joined, split and served again, while the stack front moves, the block  *)
(* grows, and its record is written out and loaded back.                   *)
(***************************************************************************)
EXTENDS BlockOps

CONSTANTS
    Ids,         \* names for the values a caller archives, each used once
    Values,      \* what it archives: [own, kids], see BlockOps
    Caps,        \* the capacities it asks for
    PushSizes,   \* the items it pushes on the stack front
    Cuts         \* the lengths it cuts the stack front back to

\* Values ask for natural sizes and alignments, and an item of the stack front
\* has a size.
ASSUME ConstantsAssumption ==
    Values \subseteq Needs /\ Caps \subseteq Nat
        /\ PushSizes \subseteq Nat \ {0} /\ Cuts \subseteq Nat

VARIABLES
    b,           \* the block
    live,        \* the values held: id -> [v, s], the regions s stored
    fresh,       \* the names not used yet
    grown        \* the block has been grown

vars == <<b, live, fresh, grown>>

Held == DOMAIN live

StackTag == "stack"

Init ==
    /\ \E cap \in Caps : b = NewBlock(cap)
    /\ live = <<>> /\ fresh = Ids /\ grown = FALSE

\* an archive of a value, with all its allocations, that has room
ArchiveOk(v, id) ==
    /\ id \in fresh
    /\ LET a == Archive(b, v, id) IN
          /\ a.ok
          /\ b' = a.b
          /\ live' = [i \in Held \union {id} |->
                        IF i = id THEN [v |-> v, s |-> a.s] ELSE live[i]]
    /\ fresh' = fresh \ {id} /\ UNCHANGED grown

\* one that runs out of space, and unwinds
ArchiveErr(v) ==
    /\ \E id \in fresh :
          LET a == Archive(b, v, id) IN ~a.ok /\ b' = a.b
    /\ UNCHANGED <<live, fresh, grown>>

ReleaseValue(id) ==
    /\ id \in Held
    /\ b' = Release(b, live[id].s)
    /\ live' = [i \in Held \ {id} |-> live[i]]
    /\ UNCHANGED <<fresh, grown>>

Push(size) ==
    /\ LET p == PushBytes(b, size, size, StackTag) IN p.ok /\ b' = p.b
    /\ UNCHANGED <<live, fresh, grown>>

Extend(size) ==
    /\ b.stack > 0
    /\ LET p == ExtendBytes(b, size, StackTag) IN p.ok /\ b' = p.b
    /\ UNCHANGED <<live, fresh, grown>>

Shrink ==
    /\ \E pos \in {p \in Cuts : p < b.stack} : b' = StackShrink(b, pos)
    /\ UNCHANGED <<live, fresh, grown>>

Regions(s) == {s.own} \union {s.kids[i] : i \in 1 .. Len(s.kids)}

\* the heap front rolls back (pop_heap) to the end of a held region, or to 0;
\* a value with a region below it has no other above
Rollback ==
    \E front \in {0} \union {r.off - NODE : r \in UNION {Regions(live[i].s) : i \in Held}} :
        LET kept == {i \in Held : \E r \in Regions(live[i].s) : r.off \in 1 .. NODE + front}
        IN  /\ front \in 0 .. b.heap - 1
            /\ \A i \in kept : \A r \in Regions(live[i].s) : r.off <= NODE + front
            /\ b' = PopHeap(b, b.heap - front)
            /\ live' = [i \in kept |-> live[i]]
            /\ UNCHANGED <<fresh, grown>>

GrowTo(cap) ==
    /\ b.cap < RoundUp(cap, MAX_ALIGN)
    /\ b' = Grow(b, cap)
    /\ grown' = TRUE /\ UNCHANGED <<live, fresh>>

SaveAndLoad ==
    /\ b' = Reload(b)
    /\ UNCHANGED <<live, fresh, grown>>

Next ==
    \/ \E v \in Values : ArchiveErr(v) \/ \E id \in Ids : ArchiveOk(v, id)
    \/ \E id \in Ids : ReleaseValue(id)
    \/ \E size \in PushSizes : Push(size) \/ Extend(size)
    \/ Shrink \/ Rollback \/ SaveAndLoad
    \/ \E cap \in Caps : GrowTo(cap)

Spec == Init /\ [][Next]_vars
-----------------------------------------------------------------------------
Payload(size, h) == Addr(b, h) .. Addr(b, h) + size - 1

\* the bytes of value id: where its own region and its children's are written
BytesOf(id) ==
    LET s == live[id].s  v == live[id].v IN
    (IF v.own.size = 0 THEN {} ELSE Payload(v.own.size, s.own))
        \union UNION {Payload(v.kids[i].size, s.kids[i]) : i \in 1 .. Len(s.kids)}

SpansOf(id) == UNION {Span(b, r) : r \in Regions(live[id].s) \ {NoRegion}}

\* TypeOK: the fronts never meet, and every hole is a region of the heap.
TypeOK ==
    /\ b.cap % MAX_ALIGN = 0 /\ DOMAIN b.mem = 0 .. b.cap - 1
    /\ b.stack \in Nat /\ b.heap \in Nat /\ FreeBytes(b) >= 0
    /\ b.holes \in Seq([off : 0 .. b.cap, len : 0 .. b.cap])
    /\ Held \subseteq Ids /\ grown \in BOOLEAN

\* ValuesIntact: every byte of every value the caller holds is still that
\* value's: no allocation, join, split, unwind, roll or slide hands out a byte
\* twice or writes a node over live data; the handle passes the canary of
\* heap_bounds (block.rs:718-722), and its release would not be taken for a
\* double free (block.rs:430-437).
ValuesIntact ==
    \A id \in Held :
        /\ \A r \in Regions(live[id].s) : InBounds(b, r) /\ (r.len > 0 => ~Covered(b, r))
        /\ \A x \in BytesOf(id) : b.mem[x] = <<id>>

\* HolesInOrder: the freelist is sorted by offset, its holes lie in the heap,
\* hold a node, and are kept at least a node apart: what the binary search and
\* the join of free rely on (block.rs:20-24, 420-464, the assert of 547).
HolesInOrder ==
    \A i \in 1 .. Len(b.holes) :
        LET h == b.holes[i]
            above == IF i = 1 THEN NODE ELSE b.holes[i - 1].off + NODE
        IN  h.len >= NODE /\ h.off <= NODE + b.heap /\ h.off - h.len >= above

Clean(x) ==
    \/ b.mem[x] = <<>>
    \/ x < b.stack /\ b.mem[x] = <<StackTag>>
    \/ \E id \in Held : x \in BytesOf(id) /\ b.mem[x] = <<id>>
    \/ b.holes # <<>> /\ x \in NodeBytes(Floor(b))
    \/ \E i \in 1 .. Len(b.holes) : x \in NodeBytes(Addr(b, b.holes[i]))

\* ZeroRecord: until the block is grown, every byte that is neither the stack's,
\* nor a held value's, nor a freelist node, is zero: no wipe is missed by a
\* release, a join, a split, an unwind, a roll or a shrink (block.rs:12-17).
ZeroRecord == grown \/ \A x \in DOMAIN b.mem : Clean(x)

\* RecordClean: the same of the bytes a record carries, always: the gap between
\* the fronts is written as zeros, the rest as it is (block.rs:12-17).
RecordClean == \A x \in 0 .. b.stack - 1 \union Bottom(b) .. b.cap - 1 : Clean(x)

HoleSet(blk) == HoleBytes(blk, blk.holes)

\* LoadKeeps: writing a record and loading it back changes neither the fronts,
\* nor a byte outside the gap between them, nor the holes: a walk of the list
\* in the bytes never stops early (block.rs:504-536).
LoadKeeps ==
    [][SaveAndLoad =>
          /\ b'.stack = b.stack /\ b'.heap = b.heap /\ b'.holes = b.holes
          /\ \A x \in DOMAIN b.mem \ (b.stack .. Bottom(b) - 1) : b'.mem[x] = b.mem[x]
      ]_vars

\* ErrUnwinds: an archive that fails leaves the fronts where they were, frees
\* nothing but dead space, and loses from the holes less than a node at a time
\* (archive.rs:76-77; the "near-exact" unwind of block.rs:417-421).
ErrUnwinds ==
    [][(\E v \in Values : ArchiveErr(v)) =>
          /\ b'.stack = b.stack /\ b'.heap = b.heap
          /\ \A x \in DOMAIN b.mem :
                ~(x .. x + NODE - 1 \subseteq HoleSet(b) \ HoleSet(b'))
      ]_vars
=============================================================================
