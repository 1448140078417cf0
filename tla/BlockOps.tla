------------------------------ MODULE BlockOps ------------------------------
(***************************************************************************)
(* block/src/block.rs and archive.rs: the operations on one block, as      *)
(* functions from a block to a block.                                      *)
(*                                                                         *)
(*   [cap, stack, heap, holes, mem]                                        *)
(*                                                                         *)
(* stack and heap are the lengths of the two fronts that grow towards each *)
(* other; the last NODE bytes of the data region are the freelist head.    *)
(* A heap region is [off, len], off counted back from cap.  holes is the   *)
(* cached freelist; mem holds the bytes, so that the list threaded through *)
(* them can be walked again and stale bytes can be seen:                   *)
(*   <<>> a zero byte, <<x>> a byte written for x,                         *)
(*   <<len, next>> the first byte of a freelist node, NodeRest the others. *)
(***************************************************************************)
EXTENDS Integers, Sequences, FiniteSets, SequencesExt

NODE == 4
MAX_ALIGN == 16

RoundUp(n, a) == ((n + a - 1) \div a) * a

Paint(mem, S, byte) == [x \in DOMAIN mem |-> IF x \in S THEN byte ELSE mem[x]]

NewBlock(cap) ==
    LET c == RoundUp(IF cap < MAX_ALIGN THEN MAX_ALIGN ELSE cap, MAX_ALIGN) IN
    [cap |-> c, stack |-> 0, heap |-> 0, holes |-> <<>>,
     mem |-> [x \in 0 .. c - 1 |-> <<>>]]

Floor(b)  == b.cap - NODE
Bottom(b) == Floor(b) - b.heap
FreeBytes(b) == Bottom(b) - b.stack

Addr(b, h) == b.cap - h.off
Span(b, h) == Addr(b, h) .. Addr(b, h) + h.len - 1
NodeBytes(addr) == addr .. addr + NODE - 1
NodeRest == <<"node">>

NoRegion == [off |-> 0, len |-> 0]

-----------------------------------------------------------------------------
(* The stack front.                                                        *)

\* push, push_buf: the alignment gap below the item is zeroed
PushBytes(b, size, align, x) ==
    LET start == RoundUp(b.stack, align)
        end   == start + size
    IN  IF end > Bottom(b) THEN [ok |-> FALSE, b |-> b]
        ELSE [ok |-> TRUE,
              b  |-> [b EXCEPT !.stack = end,
                               !.mem = Paint(Paint(@, b.stack .. start - 1, <<>>),
                                             start .. end - 1, <<x>>)]]

\* extend_buf on the last item
ExtendBytes(b, size, x) ==
    LET end == b.stack + size IN
    IF end > Bottom(b) THEN [ok |-> FALSE, b |-> b]
    ELSE [ok |-> TRUE, b |-> [b EXCEPT !.stack = end,
                                       !.mem = Paint(@, b.stack .. end - 1, <<x>>)]]

\* (mutant) the dead bytes stay
StackShrinkDirty(b, pos) == [b EXCEPT !.stack = pos]

\* stack_shrink: the dead bytes are wiped
StackShrink(b, pos) ==
    [b EXCEPT !.stack = pos, !.mem = Paint(@, pos .. b.stack - 1, <<>>)]

-----------------------------------------------------------------------------
(* The freelist.                                                           *)

HoleBytes(b, hs) == UNION {Span(b, hs[i]) : i \in 1 .. Len(hs)}

\* sync_holes: every hole is zeroed, then its node written, the head last
SyncHoles(b, hs) ==
    LET n       == Len(hs)
        next(i) == IF i < n THEN hs[i + 1].off ELSE 0
        head    == IF n = 0 THEN <<>> ELSE <<0, hs[1].off>>
        at(x)   == {i \in 1 .. n : x \in NodeBytes(Addr(b, hs[i]))}
        byte(x, i) == IF x = Addr(b, hs[i]) THEN <<hs[i].len, next(i)>> ELSE NodeRest
    IN  [b EXCEPT !.holes = hs,
                  !.mem = [x \in DOMAIN @ |->
                     IF x = Floor(b) THEN head
                     ELSE IF x > Floor(b) THEN (IF n = 0 THEN <<>> ELSE NodeRest)
                     ELSE IF at(x) # {} THEN byte(x, CHOOSE i \in at(x) : TRUE)
                     ELSE IF x \in HoleBytes(b, hs) THEN <<>> ELSE @[x]]]

\* (mutant) a hole that touches the head is refused
PossibleTight(off, cap, byte) ==
    off > NODE /\ off <= cap /\ Len(byte) = 2 /\ byte[1] + NODE < off

\* what the walk demands of a link's offset and of the byte it names
Possible(off, cap, byte) ==
    off > NODE /\ off <= cap /\ Len(byte) = 2 /\ byte[1] + NODE <= off

\* holes_mut on a loaded block: one walk of the list in the bytes, which ends
\* at the first link that names no possible hole
WalkHoles(b) ==
    LET link(off) == b.mem[b.cap - off]
        chain[n \in 0 .. b.cap \div 2 + 1] ==
            IF n = 0 THEN <<>>
            ELSE LET prev == chain[n - 1]
                     from == link(IF n = 1 THEN NODE ELSE prev[n - 1].off)
                     off  == IF Len(prev) = n - 1 /\ Len(from) = 2 THEN from[2] ELSE 0
                 IN  IF off # 0 /\ Possible(off, b.cap, link(off))
                     THEN Append(prev, [off |-> off, len |-> link(off)[1]])
                     ELSE prev
    IN  chain[b.cap \div 2 + 1]

-----------------------------------------------------------------------------
(* Allocation.                                                             *)

\* a region holds a whole number of requests and at least a node
SpanOf(size) == RoundUp(IF size < NODE THEN NODE ELSE size, size)

\* fit_hole: the smallest hole that fits, the lowest offset among equals
Fitting(b, span, align) ==
    {i \in 1 .. Len(b.holes) :
        LET h == b.holes[i] IN RoundUp(Addr(b, h), align) + span <= Addr(b, h) + h.len}

BestFit(b, span, align) ==
    CHOOSE i \in Fitting(b, span, align) :
        \A j \in Fitting(b, span, align) :
            \/ b.holes[i].len < b.holes[j].len
            \/ b.holes[i].len = b.holes[j].len /\ i <= j

\* what is left of a taken hole: above the aligned start and below the span,
\* if it can hold a node
Rest(b, hole, start, span) ==
    LET above == start - Addr(b, hole)
        below == Addr(b, hole) + hole.len - (start + span)
    IN  (IF above >= NODE THEN <<[off |-> hole.off, len |-> above]>> ELSE <<>>)
     \o (IF below >= NODE THEN <<[off |-> b.cap - (start + span), len |-> below]>>
                          ELSE <<>>)

\* (mutant) the served span keeps the bytes of the hole it was cut from
ServeDirty(b, start, span) == b

Serve(b, start, span) == [b EXCEPT !.mem = Paint(@, start .. start + span - 1, <<>>)]

\* the hole gives way to its rest; a crumb above the start is zeroed
TakeHole(b, i, span, align) ==
    LET hole  == b.holes[i]
        start == RoundUp(Addr(b, hole), align)
        holes == SubSeq(b.holes, 1, i - 1) \o Rest(b, hole, start, span)
                    \o SubSeq(b.holes, i + 1, Len(b.holes))
        crumb == IF start - Addr(b, hole) < NODE THEN Addr(b, hole) .. start - 1 ELSE {}
        wiped == [b EXCEPT !.mem = Paint(@, crumb, <<>>)]
    IN  [ok |-> TRUE, h |-> [off |-> b.cap - start, len |-> span],
         b |-> Serve(SyncHoles(wiped, holes), start, span)]

\* (mutant) the alignment pad is not counted against the free bytes
ExtendHeapUnpadded(b, span, align) ==
    LET pad  == (Bottom(b) - span) % align
        heap == b.heap + pad + span
    IN  IF span > FreeBytes(b)
        THEN [ok |-> FALSE, h |-> NoRegion, b |-> b]
        ELSE [ok |-> TRUE, h |-> [off |-> NODE + heap, len |-> span],
              b |-> [b EXCEPT !.heap = heap]]

\* the region goes below the heap bottom, the alignment pad above it
ExtendHeap(b, span, align) ==
    LET free == FreeBytes(b)
        pad  == (Bottom(b) - span) % align
        heap == b.heap + pad + span
    IN  IF span > free \/ pad + span > free
        THEN [ok |-> FALSE, h |-> NoRegion, b |-> b]
        ELSE [ok |-> TRUE, h |-> [off |-> NODE + heap, len |-> span],
              b |-> [b EXCEPT !.heap = heap]]

Alloc(b, size, align) ==
    IF size = 0 THEN [ok |-> TRUE, h |-> NoRegion, b |-> b]
    ELSE LET span == SpanOf(size) IN
         IF Fitting(b, span, align) # {}
         THEN TakeHole(b, BestFit(b, span, align), span, align)
         ELSE ExtendHeap(b, span, align)

\* alloc_slice, write_slot: x's bytes fill the front of its region
Write(b, h, size, x) ==
    [b EXCEPT !.mem = Paint(@, Addr(b, h) .. Addr(b, h) + size - 1, <<x>>)]

\* (mutants) only holes that touch are joined; so are holes a node apart
JoinTouching(merged, h) ==
    LET n == Len(merged) IN
    IF n > 0 /\ h.off - h.len = merged[n].off
    THEN [merged EXCEPT ![n] = [off |-> h.off, len |-> @.len + h.len]]
    ELSE Append(merged, h)

JoinWide(merged, h) ==
    LET n == Len(merged)
        gap == h.off - h.len - merged[n].off
    IN  IF n > 0 /\ gap \in 0 .. NODE
        THEN [merged EXCEPT ![n] = [off |-> h.off, len |-> @.len + h.len + gap]]
        ELSE Append(merged, h)

\* neighbours closer than a node are one hole: no live region is that small
Join(merged, h) ==
    LET n == Len(merged)
        gap == h.off - h.len - merged[n].off
    IN  IF n > 0 /\ gap \in 0 .. NODE - 1
        THEN [merged EXCEPT ![n] = [off |-> h.off, len |-> @.len + h.len + gap]]
        ELSE Append(merged, h)

\* free: the region enters the list at its place, then one fold joins
Free(b, h) ==
    IF h.len = 0 THEN b
    ELSE LET at == Cardinality({i \in 1 .. Len(b.holes) : b.holes[i].off < h.off})
         IN  SyncHoles(b, FoldLeft(Join, <<>>, InsertAt(b.holes, at + 1, h)))

\* the double-free canary: some hole covers the whole region
Covered(b, h) ==
    \E i \in 1 .. Len(b.holes) :
        /\ b.holes[i].off >= h.off
        /\ h.off + b.holes[i].len >= b.holes[i].off + h.len

\* the handle canary
InBounds(b, h) == h.off <= NODE + b.heap /\ h.len <= h.off

\* a hole after the heap bottom moved up to offset floor
Clip(h, floor) ==
    IF h.off <= floor THEN <<h>>
    ELSE IF h.len - (h.off - floor) >= NODE
         THEN <<[off |-> floor, len |-> h.len - (h.off - floor)]>>
         ELSE <<>>

\* pop_heap: the rolled region is wiped, holes below the new bottom die, one
\* across it is clipped
PopHeap(b, len) ==
    LET clip(kept, h) == kept \o Clip(h, NODE + b.heap - len)
        rolled == Bottom(b) .. Bottom(b) + len - 1
    IN  SyncHoles([b EXCEPT !.heap = @ - len, !.mem = Paint(@, rolled, <<>>)],
                  FoldLeft(clip, <<>>, b.holes))

\* grow: the new tail is zeroed, then the heap slides to the new back by a
\* memmove, which leaves its old place as it was
Grow(b, cap) ==
    LET new   == RoundUp(cap, MAX_ALIGN)
        slid  == new - b.cap
        start == new - NODE - b.heap
    IN  IF new <= b.cap THEN b
        ELSE [b EXCEPT !.cap = new,
                       !.mem = [x \in 0 .. new - 1 |->
                                  IF x >= start THEN b.mem[x - slid]
                                  ELSE IF x < b.cap THEN b.mem[x] ELSE <<>>]]

\* to_record, then from_record: the gap is written as zeros, and the holes
\* are what a walk of the bytes finds
Reload(b) ==
    LET r == [b EXCEPT !.mem = Paint(@, b.stack .. Bottom(b) - 1, <<>>)]
    IN  [r EXCEPT !.holes = WalkHoles(r)]

-----------------------------------------------------------------------------
(* Archived values (archive.rs).  A value takes a region of its own, given *)
(* as [size, align] with size 0 for none, and then one for each child: a   *)
(* String is its bytes, a Vec its handles and then its elements.           *)

\* what a value asks for: the size of each region and its alignment
Need == [size : Nat, align : Nat \ {0}]
Needs == [own : Need, kids : Seq(Need)]

Stored(own, kids) == [own |-> own, kids |-> kids]

\* release: the children first, then the region that names them
Release(b, s) == Free(FoldLeft(Free, b, s.kids), s.own)

\* (mutant) the unwind forgets the parent of the children it releases
UnwindKids(b, s, heap0) ==
    LET r == FoldLeft(Free, b, s.kids) IN PopHeap(r, r.heap - heap0)

\* an archive that failed half way takes itself back
Unwind(b, s, heap0) == LET r == Release(b, s) IN PopHeap(r, r.heap - heap0)

ArchiveKid(a, kid, x, heap0) ==
    IF ~a.ok THEN a
    ELSE LET m == Alloc(a.b, kid.size, kid.align) IN
         IF m.ok
         THEN [a EXCEPT !.b = Write(m.b, m.h, kid.size, x), !.s.kids = Append(@, m.h)]
         ELSE [ok |-> FALSE, b |-> Unwind(a.b, a.s, heap0), s |-> Stored(NoRegion, <<>>)]

\* archive: [ok, b, s], s the regions stored; on failure b is unwound
Archive(b, v, x) ==
    LET own == Alloc(b, v.own.size, v.own.align)
        kid(a, k) == ArchiveKid(a, k, x, b.heap)
    IN  IF own.ok
        THEN FoldLeft(kid, [ok |-> TRUE, s |-> Stored(own.h, <<>>),
                            b |-> Write(own.b, own.h, v.own.size, x)], v.kids)
        ELSE [ok |-> FALSE, b |-> b, s |-> Stored(NoRegion, <<>>)]
=============================================================================
