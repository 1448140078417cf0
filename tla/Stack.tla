------------------------------- MODULE Stack -------------------------------
(***************************************************************************)
(* block/src/stack.rs: the stack of archived values in one block.  A push  *)
(* archives the value in the heap, then puts a unit on the stack front:    *)
(* the heap length it started from (the snap), then the value's handle.  A *)
(* pop finds the last unit from the stack length alone, cuts the front     *)
(* back to its start and rolls the heap to its snap.                       *)
(***************************************************************************)
EXTENDS BlockOps

CONSTANTS
    Kinds,     \* element types: [size, align, values], of the handle
    StackCaps  \* the capacities of a block

\* A handle is aligned to at most a block's own alignment, and its size is a
\* multiple of that, as those of every Rust type are.
ASSUME StackAssumption ==
    /\ StackCaps \subseteq Nat
    /\ \A k \in Kinds : /\ k.size \in Nat /\ k.align \in {1, 2, 4, 8, MAX_ALIGN}
                        /\ k.size % k.align = 0 /\ k.values \subseteq Needs

VARIABLES
    block,     \* the block
    kind,      \* the element type of this stack
    pushed     \* the stored values: [v, s, found], found the block before the push

stackVars == <<block, kind, pushed>>

SNAP == 4

-----------------------------------------------------------------------------
(* Unit geometry: [snap][gap1][handle], and gap0 before every unit but the *)
(* first (layout, unit_geo, unit_parts_back, unit_start_back, len).        *)

Gap1 == (IF kind.align < 4 THEN 4 ELSE kind.align) - SNAP

Gap0 == (4 - (kind.size % 4)) % 4

Unit0 == SNAP + Gap1 + kind.size
Stride == Unit0 + Gap0

Units == IF block.stack = 0 THEN 0 ELSE 1 + (block.stack - Unit0) \div Stride

\* (mutant) the gap before a unit is left out of its place
SnapAtGap(i) == IF i = 0 THEN 0 ELSE Unit0 + (i - 1) * Stride

\* where unit i, counted from 0, has its snap and its handle
SnapAt(i) == IF i = 0 THEN 0 ELSE Unit0 + (i - 1) * Stride + Gap0
HandleAt(i) == SnapAt(i) + SNAP + Gap1

\* the same of the last unit, from the stack length
LastHandle == block.stack - kind.size
LastSnap == LastHandle - Gap1 - SNAP

\* (mutant) the pad before the unit stays on the stack
LastStartPadded == LastSnap

LastStart == IF block.stack = Unit0 THEN LastSnap ELSE LastSnap - Gap0

SnapByte(addr) == block.mem[addr][1]

-----------------------------------------------------------------------------
StackInit ==
    /\ \E cap \in StackCaps : block = NewBlock(cap)
    /\ kind \in Kinds /\ pushed = <<>>

Archived(v) == Archive(block, v, Units)

WithSnap(v) == PushBytes(Archived(v).b, SNAP, SNAP, block.heap)

WithHandle(v) == PushBytes(WithSnap(v).b, kind.size, kind.align, Archived(v).s)

PushOk(v) ==
    /\ Archived(v).ok /\ WithSnap(v).ok /\ WithHandle(v).ok
    /\ block' = WithHandle(v).b
    /\ pushed' = Append(pushed, [v |-> v, s |-> Archived(v).s, found |-> block])
    /\ UNCHANGED kind

\* no room for the value: archive took itself back
ArchiveFails(v) ==
    /\ ~Archived(v).ok
    /\ block' = Archived(v).b /\ UNCHANGED <<kind, pushed>>

\* no room for the snap: the archive is taken back
SnapFails(v) ==
    /\ Archived(v).ok /\ ~WithSnap(v).ok
    /\ block' = Unwind(Archived(v).b, Archived(v).s, block.heap)
    /\ UNCHANGED <<kind, pushed>>

\* (mutant) the front is cut back to the snap, not to where the push began
HandleFailsAtSnap(v) ==
    /\ Archived(v).ok /\ WithSnap(v).ok /\ ~WithHandle(v).ok
    /\ block' = Unwind(StackShrink(WithSnap(v).b, WithSnap(v).b.stack - SNAP),
                   Archived(v).s, block.heap)
    /\ UNCHANGED <<kind, pushed>>

\* no room for the handle: the snap goes too, with the gap below it
HandleFails(v) ==
    /\ Archived(v).ok /\ WithSnap(v).ok /\ ~WithHandle(v).ok
    /\ block' = Unwind(StackShrink(WithSnap(v).b, block.stack), Archived(v).s, block.heap)
    /\ UNCHANGED <<kind, pushed>>

PushErr(v) == ArchiveFails(v) \/ SnapFails(v) \/ HandleFails(v)

Pop ==
    /\ block.stack > 0
    /\ LET snap == SnapByte(LastSnap)
           cut  == StackShrink(block, LastStart)
       IN  block' = PopHeap(cut, cut.heap - snap)
    /\ pushed' = SubSeq(pushed, 1, Len(pushed) - 1) /\ UNCHANGED kind

\* save, then load
StackReload == block' = Reload(block) /\ UNCHANGED <<kind, pushed>>

StackNext ==
    \/ \E v \in kind.values : PushOk(v) \/ PushErr(v)
    \/ Pop \/ StackReload

StackSpec == StackInit /\ [][StackNext]_stackVars
-----------------------------------------------------------------------------
Reads(addr, size, byte) == \A x \in addr .. addr + size - 1 : block.mem[x] = byte

RegionReads(r, h, byte) == r.size = 0 \/ Reads(Addr(block, h), r.size, byte)

\* ItemsReadBack: the walk of items() finds every stored unit where its push put
\* it, and the last one is found from the end of the stack alone; each unit has
\* its snap and its handle, and the regions the handle names still hold the
\* value (stack.rs:97-118, 180-252).
ItemsReadBack ==
    /\ Units > 0 => LastSnap = SnapAt(Units - 1) /\ LastHandle = HandleAt(Units - 1)
    /\ \A i \in 1 .. Len(pushed) :
          LET p == pushed[i] IN
          /\ Reads(SnapAt(i - 1), SNAP, <<p.found.heap>>)
          /\ Reads(HandleAt(i - 1), kind.size, <<p.s>>)
          /\ RegionReads(p.v.own, p.s.own, <<i - 1>>)
          /\ \A k \in 1 .. Len(p.v.kids) : RegionReads(p.v.kids[k], p.s.kids[k], <<i - 1>>)

\* PopErases: a pop leaves the block as the popped value's push found it, byte
\* for byte, whatever was pushed, refused, popped, saved and loaded in between
\* (stack.rs:166-179).
PopErases == [][Pop => block' = pushed[Len(pushed)].found]_stackVars

\* ErrLeaves: a refused push leaves the block as it was, byte for byte, at
\* whichever allocation it ran out of space (stack.rs:121-125).
ErrLeaves == [][(\E v \in kind.values : PushErr(v)) => block' = block]_stackVars

\* LoadExact: a record that is loaded back is the block it was taken of.
LoadExact == [][StackReload => block' = block]_stackVars
=============================================================================
