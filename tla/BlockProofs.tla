----------------------------- MODULE BlockProofs -----------------------------
(***************************************************************************)
(* Proofs about Block, for every set of values, of any sizes and           *)
(* alignments.  The holes need not be in order for the values to be whole: *)
(* what keeps them is that holes and held regions are pairwise apart.  The *)
(* order needs one thing more, that no value is aligned to more than NODE. *)
(***************************************************************************)
EXTENDS Block, BlockOpsProofs

\* the handle e keeps to a value: regions of the heap, clear of every hole,
\* filled with the value's bytes
Kept(blk, e, id) ==
    /\ e.v \in Needs /\ Owned(blk, e.s) /\ Len(e.s.kids) = Len(e.v.kids)
    /\ Filled(blk, e.v, e.s, id)

\* two handles share no byte
Parted(e, f) == \A k \in Places(e.s) : Away(RegionAt(e.s, k), f.s)

\* The inductive invariant.
IInv ==
    /\ Good(b) /\ grown \in BOOLEAN /\ Held \subseteq Ids /\ fresh \subseteq Ids \ Held
    /\ \A id \in Held : Kept(b, live[id], id)
    /\ \A id, jd \in Held : id # jd => Parted(live[id], live[jd])

\* every written byte of blk is the freelist's, the stack's, or of a value of l
Traced(blk, l) ==
    \A o : Stray(blk, o) =>
       \/ At(blk, o) = <<StackTag>> /\ blk.cap - o < blk.stack
       \/ \E id \in DOMAIN l : Paid(l[id].v, l[id].s, o)

\* what keeps the bytes zero: growth may break it, nothing else
ZeroInv == grown \/ Traced(b, live)

\* what a value may ask for if the freelist is to stay in order
AllModest == \A v \in Values : Modest(v)

-----------------------------------------------------------------------------
(* Handles.                                                                *)

LEMMA RegionsAre ==
    ASSUME NEW s, s.kids \in Seq(Region)
    PROVE  /\ Regions(s) = {RegionAt(s, k) : k \in Places(s)}
           /\ 0 \in Places(s) /\ RegionAt(s, 0) = s.own
           /\ \A i \in 1 .. Len(s.kids) : i \in Places(s) /\ RegionAt(s, i) = s.kids[i]
<1>. DEFINE n == Len(s.kids)
<1>1. n \in Nat  BY LenProperties
<1>2. /\ 0 \in Places(s) /\ RegionAt(s, 0) = s.own
      /\ \A i \in 1 .. n : i \in Places(s) /\ RegionAt(s, i) = s.kids[i]
  BY <1>1 DEF Places, RegionAt
<1>3. \A k \in Places(s) : k = 0 \/ k \in 1 .. n  BY <1>1 DEF Places
<1>. HIDE DEF n
<1>4. Regions(s) = {s.own} \union {s.kids[i] : i \in 1 .. n}  BY DEF Regions, n
<1>5. Regions(s) = {RegionAt(s, k) : k \in Places(s)}  BY <1>2, <1>3, <1>4
<1>. QED  BY <1>2, <1>5 DEF n

\* What a value asks of its k-th region.
LEMMA AskIs ==
    ASSUME NEW v \in Needs, NEW k \in Places(v)
    PROVE  NeedAt(v, k) \in Need /\ NeedAt(v, k).size \in Nat
<1>1. v.own \in Need /\ v.kids \in Seq(Need)  BY DEF Needs
<1>2. k = 0 \/ (k # 0 /\ k \in 1 .. Len(v.kids))
  <2>1. Len(v.kids) \in Nat  BY <1>1, LenProperties
  <2>. QED  BY <2>1 DEF Places
<1>3. k # 0 => v.kids[k] \in Need  BY <1>1, <1>2, ElementOfSeq
<1>4. NeedAt(v, k) \in Need  BY <1>1, <1>2, <1>3 DEF NeedAt
<1>. QED  BY <1>4 DEF Need

\* A handle stays good where its regions stay clear and the same.
LEMMA KeptIs ==
    ASSUME NEW blk, NEW c, NEW e, NEW id, Kept(blk, e, id),
           \A k \in Places(e.s) : Clear(c, RegionAt(e.s, k)) /\ Same(blk, c, RegionAt(e.s, k))
    PROVE  Kept(c, e, id)
<1>1. /\ Owned(blk, e.s) /\ e.v \in Needs /\ Len(e.s.kids) = Len(e.v.kids)
      /\ Filled(blk, e.v, e.s, id)
  BY DEF Kept
<1>2. Owned(c, e.s)  BY <1>1 DEF Owned
<1>3. ASSUME NEW k \in Places(e.s)
      PROVE  LET r == RegionAt(e.s, k)
                 n == NeedAt(e.v, k).size
             IN  n <= r.len /\ \A o \in r.off - n + 1 .. r.off : At(c, o) = <<id>>
  <2>. DEFINE r == RegionAt(e.s, k)
              n == NeedAt(e.v, k).size
  <2>1. n <= r.len /\ \A o \in r.off - n + 1 .. r.off : At(blk, o) = <<id>>
    BY <1>1 DEF Filled
  <2>2. r \in Region  BY <1>1, PlaceIs
  <2>3. n \in Nat
    <3>1. k \in Places(e.v)  BY <1>1 DEF Places
    <3>. QED  BY <1>1, <3>1, AskIs
  <2>4. Same(blk, c, r)  OBVIOUS
  <2>. HIDE DEF r, n
  <2>5. r.off \in Nat /\ r.len \in Nat  BY <2>2 DEF Region
  <2>6. \A o \in r.off - n + 1 .. r.off : o \in r.off - r.len + 1 .. r.off  BY <2>1, <2>3, <2>5
  <2>7. \A o \in r.off - n + 1 .. r.off : At(c, o) = <<id>>  BY <2>1, <2>4, <2>6 DEF Same
  <2>. QED  BY <2>1, <2>7 DEF r, n
<1>4. Filled(c, e.v, e.s, id)  BY <1>3 DEF Filled
<1>. QED  BY <1>1, <1>2, <1>4 DEF Kept

\* An operation that frees no held region keeps every handle.
LEMMA AllKept ==
    ASSUME IInv, NEW c,
           \A r \in Region : Clear(b, r) => Clear(c, r) /\ Same(b, c, r)
    PROVE  \A id \in Held : Kept(c, live[id], id)
<1>1. ASSUME NEW id \in Held PROVE Kept(c, live[id], id)
  <2>1. Kept(b, live[id], id)  BY DEF IInv
  <2>2. Owned(b, live[id].s)  BY <2>1 DEF Kept
  <2>3. \A k \in Places(live[id].s) :
           /\ Clear(c, RegionAt(live[id].s, k))
           /\ Same(b, c, RegionAt(live[id].s, k))
    BY <2>2, PlaceIs
  <2>. QED  BY <2>1, <2>3, KeptIs
<1>. QED  BY <1>1

\* The step of an operation that holds on to all the handles.
LEMMA Steady ==
    ASSUME IInv, Good(b'), UNCHANGED live, UNCHANGED fresh, grown' \in BOOLEAN,
           \A r \in Region : Clear(b, r) => Clear(b', r) /\ Same(b, b', r)
    PROVE  IInv'
<1>1. \A id \in Held : Kept(b', live[id], id)  BY AllKept
<1>. QED  BY <1>1 DEF IInv, Held

-----------------------------------------------------------------------------
(* The actions.                                                            *)

LEMMA InitIs ==
    ASSUME Init PROVE IInv
<1>1. PICK cap \in Caps : b = NewBlock(cap)  BY DEF Init
<1>2. Good(b)  BY <1>1, NewIs, ConstantsAssumption
<1>3. Held = {}  BY DEF Init, Held
<1>. QED  BY <1>2, <1>3 DEF Init, IInv

LEMMA ArchiveOkIs ==
    ASSUME IInv, NEW v \in Values, NEW id \in Ids, ArchiveOk(v, id)
    PROVE  IInv'
<1>. DEFINE a == Archive(b, v, id)
            e == [v |-> v, s |-> a.s]
<1>1. Good(b) /\ v \in Needs /\ id \in fresh /\ id \notin Held
  BY ConstantsAssumption DEF IInv, ArchiveOk
<1>2. /\ a.ok /\ b' = a.b
      /\ live' = [i \in Held \union {id} |-> IF i = id THEN e ELSE live[i]]
      /\ fresh' = fresh \ {id} /\ grown' = grown
  BY DEF ArchiveOk
<1>3. /\ Good(a.b)
      /\ \A r \in Region : Clear(b, r) => Clear(a.b, r) /\ Same(b, a.b, r)
      /\ Owned(a.b, a.s) /\ Len(a.s.kids) = Len(v.kids) /\ Filled(a.b, v, a.s, id)
      /\ \A r \in Region : Clear(b, r) => Away(r, a.s)
  BY <1>1, <1>2, ArchiveIs
<1>4. e.v = v /\ e.s = a.s  OBVIOUS
<1>. HIDE DEF a, e
<1>5. Kept(b', e, id)  BY <1>1, <1>2, <1>3, <1>4 DEF Kept
<1>6. \A j \in Held : Kept(b', live[j], j)  BY <1>2, <1>3, AllKept
<1>7. ASSUME NEW j \in Held PROVE Parted(live[j], e) /\ Parted(e, live[j])
  <2>1. Owned(b, live[j].s)  BY DEF IInv, Kept
  <2>2. \A k \in Places(live[j].s) : Away(RegionAt(live[j].s, k), e.s)
    BY <1>3, <1>4, <2>1, PlaceIs
  <2>. QED  BY <2>2 DEF Parted, Away, Apart
<1>8. /\ Held' = Held \union {id} /\ live'[id] = e
      /\ \A j \in Held : live'[j] = live[j]
  BY <1>1, <1>2 DEF Held
<1>9. \A i, j \in Held' : i # j => Parted(live'[i], live'[j])
  BY <1>7, <1>8 DEF IInv
<1>10. \A i \in Held' : Kept(b', live'[i], i)  BY <1>5, <1>6, <1>8
<1>11. Good(b') /\ grown' \in BOOLEAN /\ Held' \subseteq Ids /\ fresh' \subseteq Ids \ Held'
  BY <1>2, <1>3, <1>8 DEF IInv
<1>. QED  BY <1>9, <1>10, <1>11 DEF IInv

LEMMA ArchiveErrIs ==
    ASSUME IInv, NEW v \in Values, ArchiveErr(v)
    PROVE  IInv'
<1>1. PICK id \in fresh : b' = Archive(b, v, id).b  BY DEF ArchiveErr
<1>2. Good(b) /\ v \in Needs  BY ConstantsAssumption DEF IInv
<1>3. /\ Good(b')
      /\ \A r \in Region : Clear(b, r) => Clear(b', r) /\ Same(b, b', r)
  BY <1>1, <1>2, ArchiveIs
<1>4. UNCHANGED live /\ UNCHANGED fresh /\ grown' \in BOOLEAN  BY DEF ArchiveErr, IInv
<1>. QED  BY <1>3, <1>4, Steady

LEMMA ReleaseValueIs ==
    ASSUME IInv, NEW id \in Ids, ReleaseValue(id)
    PROVE  IInv'
<1>1. /\ id \in Held /\ b' = Release(b, live[id].s)
      /\ live' = [i \in Held \ {id} |-> live[i]] /\ fresh' = fresh /\ grown' = grown
  BY DEF ReleaseValue
<1>2. Good(b) /\ Owned(b, live[id].s)  BY <1>1 DEF IInv, Kept
<1>3. /\ Good(b')
      /\ \A r \in Region : Clear(b, r) /\ Away(r, live[id].s) => Clear(b', r) /\ Same(b, b', r)
  BY <1>1, <1>2, ReleaseIs
<1>4. Held' = Held \ {id} /\ \A j \in Held \ {id} : live'[j] = live[j]  BY <1>1 DEF Held
<1>5. ASSUME NEW j \in Held \ {id} PROVE Kept(b', live[j], j)
  <2>1. Kept(b, live[j], j) /\ Owned(b, live[j].s)  BY DEF IInv, Kept
  <2>2. \A k \in Places(live[j].s) : Away(RegionAt(live[j].s, k), live[id].s)
    BY <1>1 DEF IInv, Parted
  <2>3. \A k \in Places(live[j].s) :
           /\ Clear(b', RegionAt(live[j].s, k))
           /\ Same(b, b', RegionAt(live[j].s, k))
    BY <1>3, <2>1, <2>2, PlaceIs
  <2>. QED  BY <2>1, <2>3, KeptIs
<1>6. \A i \in Held' : Kept(b', live'[i], i)  BY <1>4, <1>5
<1>7. \A i, j \in Held' : i # j => Parted(live'[i], live'[j])  BY <1>4 DEF IInv
<1>8. Good(b') /\ grown' \in BOOLEAN /\ Held' \subseteq Ids /\ fresh' \subseteq Ids \ Held'
  BY <1>1, <1>3, <1>4 DEF IInv
<1>. QED  BY <1>6, <1>7, <1>8 DEF IInv

LEMMA PushStepIs ==
    ASSUME IInv, NEW size \in PushSizes, Push(size)
    PROVE  IInv'
<1>1. Good(b) /\ size \in Nat \ {0} /\ size \in Nat  BY ConstantsAssumption DEF IInv
<1>2. PushBytes(b, size, size, StackTag).ok /\ b' = PushBytes(b, size, size, StackTag).b
  BY DEF Push
<1>3. /\ Good(b')
      /\ \A r \in Region : Clear(b, r) => Clear(b', r) /\ Same(b, b', r)
  BY <1>1, <1>2, PushIs
<1>4. UNCHANGED live /\ UNCHANGED fresh /\ grown' \in BOOLEAN  BY DEF Push, IInv
<1>. QED  BY <1>3, <1>4, Steady

LEMMA ExtendStepIs ==
    ASSUME IInv, NEW size \in PushSizes, Extend(size)
    PROVE  IInv'
<1>1. Good(b) /\ size \in Nat  BY ConstantsAssumption DEF IInv
<1>2. ExtendBytes(b, size, StackTag).ok /\ b' = ExtendBytes(b, size, StackTag).b
  BY DEF Extend
<1>3. /\ Good(b')
      /\ \A r \in Region : Clear(b, r) => Clear(b', r) /\ Same(b, b', r)
  BY <1>1, <1>2, ExtendStackIs
<1>4. UNCHANGED live /\ UNCHANGED fresh /\ grown' \in BOOLEAN  BY DEF Extend, IInv
<1>. QED  BY <1>3, <1>4, Steady

LEMMA ShrinkStepIs ==
    ASSUME IInv, Shrink
    PROVE  IInv'
<1>1. PICK pos \in Cuts : pos < b.stack /\ b' = StackShrink(b, pos)  BY DEF Shrink
<1>2. Good(b) /\ pos \in Nat  BY ConstantsAssumption DEF IInv
<1>3. /\ Good(b')
      /\ \A r \in Region : Clear(b, r) => Clear(b', r) /\ Same(b, b', r)
  BY <1>1, <1>2, ShrinkIs
<1>4. UNCHANGED live /\ UNCHANGED fresh /\ grown' \in BOOLEAN  BY DEF Shrink, IInv
<1>. QED  BY <1>3, <1>4, Steady

LEMMA RollbackIs ==
    ASSUME IInv, Rollback
    PROVE  IInv'
<1>. DEFINE regions == UNION {Regions(live[i].s) : i \in Held}
            kept(f) == {i \in Held : \E r \in Regions(live[i].s) : r.off \in 1 .. NODE + f}
<1>1. PICK front \in {0} \union {r.off - NODE : r \in regions} :
         /\ front \in 0 .. b.heap - 1
         /\ \A i \in kept(front) : \A r \in Regions(live[i].s) : r.off <= NODE + front
         /\ b' = PopHeap(b, b.heap - front)
         /\ live' = [i \in kept(front) |-> live[i]]
         /\ fresh' = fresh /\ grown' = grown
  BY DEF Rollback
<1>. DEFINE stay == kept(front)
            len == b.heap - front
<1>2. stay \subseteq Held  OBVIOUS
<1>3. /\ \A i \in stay : \A r \in Regions(live[i].s) : r.off <= NODE + front
      /\ b' = PopHeap(b, len) /\ live' = [i \in stay |-> live[i]]
  BY <1>1
<1>. HIDE DEF stay, kept, regions
<1>4. Good(b) /\ b.heap \in Nat /\ front \in Nat  BY <1>1 DEF IInv, Good, Shaped
<1>5. len \in Nat /\ len <= b.heap /\ NODE + b.heap - len = NODE + front
  BY <1>1, <1>4 DEF NODE
<1>. HIDE DEF len
<1>6. /\ Good(b')
      /\ \A r \in Region : Clear(b, r) /\ r.off <= NODE + b.heap - len
                              => Clear(b', r) /\ Same(b, b', r)
  BY <1>3, <1>4, <1>5, PopIs
<1>7. Held' = stay /\ \A j \in stay : live'[j] = live[j]  BY <1>3 DEF Held
<1>8. ASSUME NEW j \in stay PROVE Kept(b', live[j], j)
  <2>1. Kept(b, live[j], j) /\ Owned(b, live[j].s) /\ live[j].s.kids \in Seq(Region)
    BY <1>2 DEF IInv, Kept, Owned
  <2>2. \A k \in Places(live[j].s) : RegionAt(live[j].s, k).off <= NODE + front
    BY <1>3, <2>1, RegionsAre
  <2>3. \A k \in Places(live[j].s) :
           /\ Clear(b', RegionAt(live[j].s, k))
           /\ Same(b, b', RegionAt(live[j].s, k))
    BY <1>5, <1>6, <2>1, <2>2, PlaceIs
  <2>. QED  BY <2>1, <2>3, KeptIs
<1>9. \A i \in Held' : Kept(b', live'[i], i)  BY <1>7, <1>8
<1>10. \A i, j \in Held' : i # j => Parted(live'[i], live'[j])  BY <1>2, <1>7 DEF IInv
<1>11. Good(b') /\ grown' \in BOOLEAN /\ Held' \subseteq Ids /\ fresh' \subseteq Ids \ Held'
  BY <1>1, <1>2, <1>6, <1>7 DEF IInv
<1>. QED  BY <1>9, <1>10, <1>11 DEF IInv

LEMMA GrowToIs ==
    ASSUME IInv, NEW cap \in Caps, GrowTo(cap)
    PROVE  IInv'
<1>1. Good(b) /\ cap \in Nat  BY ConstantsAssumption DEF IInv
<1>2. b.cap < RoundUp(cap, MAX_ALIGN) /\ b' = Grow(b, cap)  BY DEF GrowTo
<1>3. /\ Good(b')
      /\ \A r \in Region : Clear(b, r) => Clear(b', r) /\ Same(b, b', r)
  BY <1>1, <1>2, GrowIs
<1>4. UNCHANGED live /\ UNCHANGED fresh /\ grown' \in BOOLEAN  BY DEF GrowTo
<1>. QED  BY <1>3, <1>4, Steady

LEMMA SaveAndLoadIs ==
    ASSUME IInv, SaveAndLoad
    PROVE  IInv'
<1>1. Good(b) /\ b' = Reload(b)  BY DEF IInv, SaveAndLoad
<1>2. /\ Good(b')
      /\ \A r \in Region : Clear(b, r) => Clear(b', r) /\ Same(b, b', r)
  BY <1>1, ReloadIs
<1>3. UNCHANGED live /\ UNCHANGED fresh /\ grown' \in BOOLEAN  BY DEF SaveAndLoad, IInv
<1>. QED  BY <1>2, <1>3, Steady

LEMMA NextIs ==
    ASSUME IInv, [Next]_vars
    PROVE  IInv'
<1>1. CASE \E v \in Values : ArchiveErr(v)  BY <1>1, ArchiveErrIs
<1>2. CASE \E v \in Values : \E id \in Ids : ArchiveOk(v, id)  BY <1>2, ArchiveOkIs
<1>3. CASE \E id \in Ids : ReleaseValue(id)  BY <1>3, ReleaseValueIs
<1>4. CASE \E size \in PushSizes : Push(size)  BY <1>4, PushStepIs
<1>5. CASE \E size \in PushSizes : Extend(size)  BY <1>5, ExtendStepIs
<1>6. CASE Shrink  BY <1>6, ShrinkStepIs
<1>7. CASE Rollback  BY <1>7, RollbackIs
<1>8. CASE SaveAndLoad  BY <1>8, SaveAndLoadIs
<1>9. CASE \E cap \in Caps : GrowTo(cap)  BY <1>9, GrowToIs
<1>10. CASE UNCHANGED vars  BY <1>10 DEF vars, IInv, Held
<1>. QED  BY <1>1, <1>2, <1>3, <1>4, <1>5, <1>6, <1>7, <1>8, <1>9, <1>10 DEF Next

\* The inductive invariant holds.
THEOREM Invariance == Spec => []IInv
<1>1. Init => IInv  BY InitIs
<1>2. IInv /\ [Next]_vars => IInv'  BY NextIs
<1>. QED  BY <1>1, <1>2, PTL DEF Spec

-----------------------------------------------------------------------------
(* The bytes nobody holds.                                                 *)

\* What has no new stray bytes, and no shorter stack, stays traced.
LEMMA TracedOn ==
    ASSUME NEW blk, NEW c, NEW l, Traced(blk, l), Tidy(blk, c),
           c.cap = blk.cap, c.stack = blk.stack
    PROVE  Traced(c, l)
<1>1. ASSUME NEW o, Stray(c, o)
      PROVE  \/ At(c, o) = <<StackTag>> /\ c.cap - o < c.stack
             \/ \E id \in DOMAIN l : Paid(l[id].v, l[id].s, o)
  <2>1. Stray(blk, o) /\ At(c, o) = At(blk, o)  BY <1>1 DEF Tidy
  <2>. QED  BY <2>1 DEF Traced
<1>. QED  BY <1>1 DEF Traced

\* So does what the stack front has grown over.
LEMMA TracedUp ==
    ASSUME NEW blk, NEW c, NEW l, Good(blk), Good(c), Traced(blk, l),
           Stacked(blk, c, StackTag), c.cap = blk.cap
    PROVE  Traced(c, l)
<1>1. /\ blk.cap \in Nat /\ blk.stack \in Nat /\ c.stack \in Nat /\ blk.stack <= c.stack
  BY DEF Good, Shaped, Stacked
<1>2. ASSUME NEW o, Stray(c, o)
      PROVE  \/ At(c, o) = <<StackTag>> /\ c.cap - o < c.stack
             \/ \E id \in DOMAIN l : Paid(l[id].v, l[id].s, o)
  <2>1. o \in 1 .. blk.cap  BY <1>2 DEF Stray
  <2>2. CASE Stray(blk, o) /\ At(c, o) = At(blk, o)
    <3>1. CASE At(blk, o) = <<StackTag>> /\ blk.cap - o < blk.stack
      <4>1. blk.cap - o < c.stack  BY <1>1, <2>1, <3>1
      <4>. QED  BY <2>2, <3>1, <4>1
    <3>2. CASE \E id \in DOMAIN l : Paid(l[id].v, l[id].s, o)  BY <3>2
    <3>. QED  BY <2>2, <3>1, <3>2 DEF Traced
  <2>3. CASE At(c, o) = <<StackTag>> /\ blk.cap - o < c.stack  BY <2>3
  <2>. QED  BY <1>2, <2>2, <2>3 DEF Stacked
<1>. QED  BY <1>2 DEF Traced

\* The bytes a held value asked for are in its regions.
LEMMA HeldHas ==
    ASSUME IInv, NEW id \in Held, NEW o, Paid(live[id].v, live[id].s, o)
    PROVE  \E r \in Owns(live[id].s) : Has(r, o)
<1>1. Kept(b, live[id], id)  BY DEF IInv
<1>2. /\ live[id].v \in Needs /\ Owned(b, live[id].s) /\ Filled(b, live[id].v, live[id].s, id)
      /\ Len(live[id].s.kids) = Len(live[id].v.kids)
  BY <1>1 DEF Kept
<1>3. live[id].v.kids \in Seq(Need)  BY <1>2 DEF Needs
<1>4. Len(live[id].s.kids) <= Len(live[id].v.kids)  BY <1>2, <1>3, LenProperties
<1>. QED  BY <1>2, <1>4, PaidHas

LEMMA ArchiveTraces ==
    ASSUME IInv, Traced(b, live), NEW v \in Values, NEW id \in Ids, ArchiveOk(v, id)
    PROVE  Traced(b', live')
<1>. DEFINE a == Archive(b, v, id)
            e == [v |-> v, s |-> a.s]
<1>1. Good(b) /\ v \in Needs /\ id \notin Held
  BY ConstantsAssumption DEF IInv, ArchiveOk
<1>2. /\ a.ok /\ b' = a.b
      /\ live' = [i \in Held \union {id} |-> IF i = id THEN e ELSE live[i]]
  BY DEF ArchiveOk
<1>3. e.v = v /\ e.s = a.s  OBVIOUS
<1>4. a.b.cap = b.cap /\ a.b.stack = b.stack /\ Tidied(b, v, a)  BY <1>1, ArchiveIs
<1>. HIDE DEF a, e
<1>5. /\ id \in DOMAIN live' /\ live'[id] = e
      /\ \A j \in DOMAIN live : j \in DOMAIN live' /\ live'[j] = live[j]
  BY <1>1, <1>2 DEF Held
<1>6. ASSUME NEW o, Stray(b', o)
      PROVE  \/ At(b', o) = <<StackTag>> /\ b'.cap - o < b'.stack
             \/ \E i \in DOMAIN live' : Paid(live'[i].v, live'[i].s, o)
  <2>1. CASE Stray(b, o) /\ At(a.b, o) = At(b, o)
    <3>1. CASE At(b, o) = <<StackTag>> /\ b.cap - o < b.stack
      BY <1>2, <1>4, <2>1, <3>1
    <3>2. CASE \E i \in DOMAIN live : Paid(live[i].v, live[i].s, o)
      BY <1>5, <3>2
    <3>. QED  BY <2>1, <3>1, <3>2 DEF Traced
  <2>2. CASE Paid(v, a.s, o)  BY <1>3, <1>5, <2>2
  <2>. QED  BY <1>2, <1>4, <1>6, <2>1, <2>2 DEF Tidied
<1>. QED  BY <1>6 DEF Traced

LEMMA FailureTraces ==
    ASSUME IInv, Traced(b, live), NEW v \in Values, ArchiveErr(v)
    PROVE  Traced(b', live')
<1>1. PICK id \in fresh : ~Archive(b, v, id).ok /\ b' = Archive(b, v, id).b
  BY DEF ArchiveErr
<1>2. Good(b) /\ v \in Needs /\ live' = live  BY ConstantsAssumption DEF IInv, ArchiveErr
<1>3. b'.cap = b.cap /\ b'.stack = b.stack /\ Tidy(b, b')
  BY <1>1, <1>2, ArchiveIs DEF Tidied, Tidy
<1>. QED  BY <1>2, <1>3, TracedOn

LEMMA ReleaseTraces ==
    ASSUME IInv, Traced(b, live), NEW id \in Ids, ReleaseValue(id)
    PROVE  Traced(b', live')
<1>1. /\ id \in Held /\ b' = Release(b, live[id].s)
      /\ live' = [i \in Held \ {id} |-> live[i]]
  BY DEF ReleaseValue
<1>2. Good(b) /\ Owned(b, live[id].s)  BY <1>1 DEF IInv, Kept
<1>3. /\ b'.cap = b.cap /\ b'.stack = b.stack /\ Tidy(b, b')
      /\ \A o : Stray(b', o) => \A r \in Owns(live[id].s) : ~Has(r, o)
  BY <1>1, <1>2, ReleaseIs
<1>4. \A j \in DOMAIN live : j # id => j \in DOMAIN live' /\ live'[j] = live[j]
  BY <1>1 DEF Held
<1>5. ASSUME NEW o, Stray(b', o)
      PROVE  \/ At(b', o) = <<StackTag>> /\ b'.cap - o < b'.stack
             \/ \E i \in DOMAIN live' : Paid(live'[i].v, live'[i].s, o)
  <2>1. Stray(b, o) /\ At(b', o) = At(b, o)  BY <1>3, <1>5 DEF Tidy
  <2>2. CASE At(b, o) = <<StackTag>> /\ b.cap - o < b.stack  BY <1>3, <2>1, <2>2
  <2>3. ASSUME NEW i \in DOMAIN live, Paid(live[i].v, live[i].s, o)
        PROVE  i # id
    BY <1>1, <1>3, <1>5, <2>3, HeldHas
  <2>. QED  BY <1>4, <2>1, <2>2, <2>3 DEF Traced
<1>. QED  BY <1>5 DEF Traced

LEMMA ShrinkTraces ==
    ASSUME IInv, Traced(b, live), Shrink
    PROVE  Traced(b', live')
<1>1. PICK pos \in Cuts : pos < b.stack /\ b' = StackShrink(b, pos)  BY DEF Shrink
<1>2. Good(b) /\ pos \in Nat /\ live' = live  BY ConstantsAssumption DEF IInv, Shrink
<1>3. /\ b'.cap = b.cap /\ Tidy(b, b')
      /\ \A o : Stray(b', o) /\ b.cap - o < b.stack => b.cap - o < b'.stack
  BY <1>1, <1>2, ShrinkIs
<1>4. ASSUME NEW o, Stray(b', o)
      PROVE  \/ At(b', o) = <<StackTag>> /\ b'.cap - o < b'.stack
             \/ \E i \in DOMAIN live : Paid(live[i].v, live[i].s, o)
  <2>1. Stray(b, o) /\ At(b', o) = At(b, o)  BY <1>3, <1>4 DEF Tidy
  <2>2. CASE At(b, o) = <<StackTag>> /\ b.cap - o < b.stack  BY <1>3, <1>4, <2>1, <2>2
  <2>. QED  BY <2>1, <2>2 DEF Traced
<1>. QED  BY <1>2, <1>4 DEF Traced

\* A roll back to the end of a held region, or to the head, cuts no hole and
\* no value it drops.
LEMMA RollbackTraces ==
    ASSUME IInv, Traced(b, live), Rollback
    PROVE  Traced(b', live')
<1>. DEFINE regions == UNION {Regions(live[i].s) : i \in Held}
            kept(f) == {i \in Held : \E r \in Regions(live[i].s) : r.off \in 1 .. NODE + f}
<1>1. PICK front \in {0} \union {r.off - NODE : r \in regions} :
         /\ front \in 0 .. b.heap - 1
         /\ b' = PopHeap(b, b.heap - front)
         /\ live' = [i \in kept(front) |-> live[i]]
  BY DEF Rollback
<1>. DEFINE stay == kept(front)
            len == b.heap - front
            floor == NODE + front
<1>2. live' = [i \in stay |-> live[i]] /\ b' = PopHeap(b, len)  BY <1>1
<1>3. \A i \in Held : Owned(b, live[i].s) /\ live[i].s.kids \in Seq(Region)
  BY DEF IInv, Kept, Owned
<1>4. \A i \in Held : Regions(live[i].s) = Owns(live[i].s)
  BY <1>3, RegionsAre DEF Owns
<1>5. \A i \in Held : \A r \in Owns(live[i].s) : r \in Region /\ Clear(b, r)
  BY <1>3, PlaceIs DEF Owns
<1>6. \A i \in Held : i \in stay <=> \E r \in Owns(live[i].s) : r.off \in 1 .. floor
  BY <1>4
<1>7. front = 0 \/ \E i \in Held : \E r \in Owns(live[i].s) : front = r.off - NODE
  BY <1>1, <1>4
<1>. HIDE DEF regions, kept, stay
<1>8. /\ Good(b) /\ b.heap \in Nat /\ b.stack \in Nat /\ b.cap \in Nat
      /\ front \in Nat /\ front < b.heap
  BY <1>1 DEF IInv, Good, Shaped
<1>9. len \in Nat /\ len <= b.heap /\ NODE + b.heap - len = floor /\ floor \in Nat /\ floor > 0
  BY <1>1, <1>8 DEF NODE
<1>10. floor = NODE
         \/ \E i \in Held : \E r \in Owns(live[i].s) : r.off = floor /\ InHeap(b, r)
                                                   /\ AllApart(r, b.holes)
  <2>1. ASSUME NEW i \in Held, NEW r \in Owns(live[i].s), front = r.off - NODE
        PROVE  r.off = floor /\ InHeap(b, r) /\ AllApart(r, b.holes)
    <3>1. r \in Region /\ Clear(b, r)  BY <1>5
    <3>2. r.off \in Nat  BY <3>1 DEF Region
    <3>3. r.off = floor /\ r.off # 0  BY <1>8, <2>1, <3>2 DEF NODE
    <3>4. NoRegion.off = 0  BY DEF NoRegion
    <3>. QED  BY <3>1, <3>3, <3>4 DEF Clear
  <2>2. front = 0 => floor = NODE  BY DEF NODE
  <2>. QED  BY <1>7, <2>1, <2>2
<1>. HIDE DEF len, floor
<1>11. Edged(b.holes, floor)
  <2>1. ASSUME NEW i \in 1 .. Len(b.holes)
        PROVE  floor <= Foot(b.holes[i]) \/ Foot(b.holes[i]) + NODE <= floor
    <3>1. /\ b.holes[i].off \in Nat /\ b.holes[i].len \in Nat
          /\ b.holes[i].len >= NODE /\ NODE <= Foot(b.holes[i])
      BY HoleIs, <1>8 DEF Good, Separate, Region, Foot
    <3>2. CASE floor = NODE  BY <3>1, <3>2
    <3>3. ASSUME NEW r, r.off = floor, r.len \in Nat, Apart(r, b.holes[i])
          PROVE  floor <= Foot(b.holes[i]) \/ Foot(b.holes[i]) + NODE <= floor
      BY <1>9, <3>1, <3>3 DEF Apart, Above, Foot, NODE
    <3>4. ASSUME NEW j \in Held, NEW r \in Owns(live[j].s), r.off = floor,
                 AllApart(r, b.holes)
          PROVE  floor <= Foot(b.holes[i]) \/ Foot(b.holes[i]) + NODE <= floor
      <4>1. r.len \in Nat /\ Apart(r, b.holes[i])  BY <1>5, <3>4 DEF Region, AllApart
      <4>. QED  BY <3>3, <3>4, <4>1
    <3>. QED  BY <1>10, <3>2, <3>4
  <2>. QED  BY <2>1 DEF Edged
<1>12. /\ b'.cap = b.cap /\ b'.stack = b.stack /\ Tidy(b, b')
       /\ \A o : Stray(b', o) => o <= floor \/ NODE + b.heap < o
  BY <1>2, <1>8, <1>9, <1>11, PopIs
<1>13. ASSUME NEW i \in Held, NEW o, Stray(b', o), Paid(live[i].v, live[i].s, o)
       PROVE  i \in stay
  <2>1. PICK r \in Owns(live[i].s) : Has(r, o)  BY <1>13, HeldHas
  <2>2. r \in Region /\ Clear(b, r) /\ r.off \in Nat /\ r.len \in Nat /\ o \in Int
    BY <1>5, <1>13 DEF Region, Stray
  <2>3. r # NoRegion  BY <2>1, <2>2 DEF Has, NoRegion
  <2>4. NODE <= r.off - r.len /\ r.off <= NODE + b.heap  BY <2>2, <2>3 DEF Clear, InHeap
  <2>5. o <= floor  BY <1>8, <1>12, <1>13, <2>1, <2>2, <2>4 DEF Has, NODE
  <2>6. SUFFICES ASSUME i \notin stay PROVE FALSE  OBVIOUS
  <2>7. floor < r.off
    <3>1. r.off \notin 1 .. floor  BY <1>6, <2>6
    <3>2. r.off > 0  BY <2>2, <2>4, <2>1 DEF NODE, Has
    <3>. QED  BY <1>9, <2>2, <3>1, <3>2
  <2>8. CASE floor = NODE  BY <1>9, <2>1, <2>2, <2>4, <2>5, <2>8 DEF Has, NODE
  <2>9. ASSUME NEW j \in Held, NEW q \in Owns(live[j].s), q.off = floor PROVE FALSE
    <3>1. j \in stay  BY <1>6, <1>9, <2>9
    <3>2. Parted(live[i], live[j])  BY <2>6, <3>1 DEF IInv
    <3>3. Apart(r, q)  BY <3>2 DEF Parted, Away, Owns
    <3>4. q.len \in Nat  BY <1>5 DEF Region
    <3>5. floor <= r.off - r.len  BY <1>9, <2>2, <2>7, <2>9, <3>3, <3>4 DEF Apart, Above
    <3>. QED  BY <1>9, <2>1, <2>2, <2>5, <3>5 DEF Has
  <2>. QED  BY <1>10, <2>8, <2>9
<1>14. \A i \in stay : i \in DOMAIN live' /\ live'[i] = live[i]  BY <1>2
<1>15. ASSUME NEW o, Stray(b', o)
       PROVE  \/ At(b', o) = <<StackTag>> /\ b'.cap - o < b'.stack
              \/ \E i \in DOMAIN live' : Paid(live'[i].v, live'[i].s, o)
  <2>1. Stray(b, o) /\ At(b', o) = At(b, o)  BY <1>12, <1>15 DEF Tidy
  <2>2. CASE At(b, o) = <<StackTag>> /\ b.cap - o < b.stack  BY <1>12, <2>1, <2>2
  <2>3. CASE \E i \in DOMAIN live : Paid(live[i].v, live[i].s, o)
    BY <1>13, <1>14, <1>15, <2>3 DEF Held
  <2>. QED  BY <2>1, <2>2, <2>3 DEF Traced
<1>. QED  BY <1>15 DEF Traced

LEMMA ZeroNext ==
    ASSUME IInv, ZeroInv, [Next]_vars
    PROVE  ZeroInv'
<1>0. /\ Good(b) /\ Good(b')
      /\ grown' \in BOOLEAN
  BY NextIs DEF IInv
<1>1. SUFFICES ASSUME ~grown' PROVE Traced(b', live')  BY DEF ZeroInv
<1>2. CASE UNCHANGED vars  BY <1>1, <1>2 DEF vars, ZeroInv
<1>3. CASE \E cap \in Caps : GrowTo(cap)  BY <1>1, <1>3 DEF GrowTo
<1>4. SUFFICES ASSUME Next, ~(\E cap \in Caps : GrowTo(cap)) PROVE Traced(b', live')
  BY <1>2, <1>3
<1>5. Traced(b, live)
  <2>1. grown' = grown
    BY <1>4 DEF Next, ArchiveErr, ArchiveOk, ReleaseValue, Push, Extend, Shrink, Rollback,
                SaveAndLoad
  <2>. QED  BY <1>1, <2>1 DEF ZeroInv
<1>6. CASE \E v \in Values : ArchiveErr(v)  BY <1>5, <1>6, FailureTraces
<1>7. CASE \E v \in Values : \E id \in Ids : ArchiveOk(v, id)  BY <1>5, <1>7, ArchiveTraces
<1>8. CASE \E id \in Ids : ReleaseValue(id)  BY <1>5, <1>8, ReleaseTraces
<1>9. ASSUME NEW size \in PushSizes, Push(size) \/ Extend(size) PROVE Traced(b', live')
  <2>1. size \in Nat /\ size \in Nat \ {0}  BY ConstantsAssumption
  <2>2. CASE Push(size)
    <3>1. PushBytes(b, size, size, StackTag).ok /\ b' = PushBytes(b, size, size, StackTag).b
      BY <2>2 DEF Push
    <3>2. b'.cap = b.cap /\ Stacked(b, b', StackTag)  BY <1>0, <2>1, <3>1, PushIs
    <3>3. live' = live  BY <2>2 DEF Push
    <3>. QED  BY <1>0, <1>5, <3>2, <3>3, TracedUp
  <2>3. CASE Extend(size)
    <3>1. ExtendBytes(b, size, StackTag).ok /\ b' = ExtendBytes(b, size, StackTag).b
      BY <2>3 DEF Extend
    <3>2. b'.cap = b.cap /\ Stacked(b, b', StackTag)  BY <1>0, <2>1, <3>1, ExtendStackIs
    <3>3. live' = live  BY <2>3 DEF Extend
    <3>. QED  BY <1>0, <1>5, <3>2, <3>3, TracedUp
  <2>. QED  BY <1>9, <2>2, <2>3
<1>10. CASE Shrink  BY <1>5, <1>10, ShrinkTraces
<1>11. CASE Rollback  BY <1>5, <1>11, RollbackTraces
<1>12. CASE SaveAndLoad
  <2>1. b' = Reload(b) /\ live' = live  BY <1>12 DEF SaveAndLoad
  <2>2. b'.cap = b.cap /\ b'.stack = b.stack /\ Tidy(b, b')  BY <1>0, <2>1, ReloadIs
  <2>. QED  BY <1>5, <2>1, <2>2, TracedOn
<1>. QED  BY <1>4, <1>6, <1>7, <1>8, <1>9, <1>10, <1>11, <1>12 DEF Next

-----------------------------------------------------------------------------
(* The properties.                                                         *)

LEMMA TypeFollows ==
    ASSUME IInv PROVE TypeOK
<1>1. /\ b.cap \in Nat /\ b.cap % MAX_ALIGN = 0 /\ DOMAIN b.mem = 0 .. b.cap - 1
      /\ b.stack \in Nat /\ b.heap \in Nat /\ b.stack + b.heap + NODE <= b.cap
      /\ b.holes \in Seq(Region)
  BY DEF IInv, Good, Shaped
<1>2. FreeBytes(b) >= 0  BY <1>1 DEF FreeBytes, Bottom, Floor, NODE
<1>. DEFINE hs == b.holes
            R == [off : 0 .. b.cap, len : 0 .. b.cap]
<1>3. ASSUME NEW i \in 1 .. Len(hs) PROVE hs[i] \in R
  <2>1. hs[i] \in Region
    <3>. HIDE DEF hs
    <3>. QED  BY <1>1, ElementOfSeq DEF hs
  <2>2. hs[i].off <= NODE + b.heap /\ NODE <= hs[i].off - hs[i].len
    BY DEF IInv, Good, Within, Separate
  <2>. HIDE DEF hs
  <2>3. hs[i].off \in 0 .. b.cap /\ hs[i].len \in 0 .. b.cap
    <3>1. hs[i].off \in Nat /\ hs[i].len \in Nat  BY <2>1 DEF Region
    <3>2. \A o, l, k, h, f \in Nat :
             f + h + 4 <= k /\ o <= 4 + h /\ 4 <= o - l => o \in 0 .. k /\ l \in 0 .. k
      OBVIOUS
    <3>3. /\ b.cap \in Nat /\ b.stack \in Nat /\ b.heap \in Nat
          /\ b.stack + b.heap + 4 <= b.cap
          /\ hs[i].off <= 4 + b.heap /\ 4 <= hs[i].off - hs[i].len
      BY <1>1, <2>2 DEF NODE
    <3>. QED  BY <3>1, <3>2, <3>3
  <2>4. hs[i] = [off |-> hs[i].off, len |-> hs[i].len]  BY <2>1 DEF Region
  <2>. QED  BY <2>3, <2>4
<1>4. hs \in Seq(R)
  <2>. HIDE DEF R
  <2>1. Len(hs) \in Nat /\ hs \in [1 .. Len(hs) -> Region]  BY <1>1, LenProperties
  <2>2. hs \in [1 .. Len(hs) -> R]  BY <1>3, <2>1
  <2>. HIDE DEF hs
  <2>3. \E n \in Nat : hs \in [1 .. n -> R]  BY <2>1, <2>2
  <2>. QED  BY <2>3, SeqDef
<1>5. Held \subseteq Ids /\ grown \in BOOLEAN  BY DEF IInv
<1>. QED  BY <1>1, <1>2, <1>4, <1>5 DEF TypeOK

LEMMA IntactFollows ==
    ASSUME IInv PROVE ValuesIntact
<1>1. /\ b.cap \in Nat /\ b.heap \in Nat /\ b.holes \in Seq(Region)
  BY DEF IInv, Good, Shaped
<1>2. SUFFICES ASSUME NEW id \in Held
               PROVE  /\ \A r \in Regions(live[id].s) : InBounds(b, r) /\ (r.len > 0 => ~Covered(b, r))
                      /\ \A x \in BytesOf(id) : b.mem[x] = <<id>>
  BY DEF ValuesIntact
<1>. DEFINE e == live[id]
            s == e.s
            v == e.v
<1>3. Kept(b, e, id)  BY DEF IInv
<1>4. Owned(b, s) /\ v \in Needs /\ Filled(b, v, s, id) /\ s.kids \in Seq(Region)
      /\ Len(s.kids) = Len(v.kids)
  BY <1>3 DEF Kept, Owned
<1>. HIDE DEF e, s, v
<1>5. ASSUME NEW r \in Regions(s) PROVE InBounds(b, r) /\ (r.len > 0 => ~Covered(b, r))
  <2>1. r \in Region /\ Clear(b, r)  BY <1>4, RegionsAre, PlaceIs
  <2>2. r.off \in Nat /\ r.len \in Nat  BY <2>1 DEF Region
  <2>3. CASE r = NoRegion  BY <1>1, <2>3 DEF NoRegion, InBounds, NODE
  <2>4. CASE InHeap(b, r) /\ AllApart(r, b.holes)
    <3>1. InBounds(b, r)  BY <2>2, <2>4 DEF InHeap, InBounds, NODE
    <3>2. ASSUME NEW i \in 1 .. Len(b.holes), r.len > 0,
                 b.holes[i].off >= r.off,
                 r.off + b.holes[i].len >= b.holes[i].off + r.len
          PROVE  FALSE
      <4>1. b.holes[i].off \in Nat /\ b.holes[i].len \in Nat  BY <1>1, HoleIs
      <4>2. r.off <= b.holes[i].off - b.holes[i].len \/ b.holes[i].off <= r.off - r.len
        BY <2>4 DEF AllApart, Apart, Above
      <4>. QED  BY <2>2, <3>2, <4>1, <4>2
    <3>3. r.len > 0 => ~Covered(b, r)  BY <3>2 DEF Covered
    <3>. QED  BY <3>1, <3>3
  <2>. QED  BY <2>1, <2>3, <2>4 DEF Clear
<1>6. ASSUME NEW k \in Places(s), NEW x \in Payload(NeedAt(v, k).size, RegionAt(s, k))
      PROVE  b.mem[x] = <<id>>
  <2>. DEFINE r == RegionAt(s, k)
              n == NeedAt(v, k).size
  <2>1. r \in Region  BY <1>4, PlaceIs
  <2>2. n \in Nat
    <3>1. k \in Places(v)  BY <1>4 DEF Places
    <3>. QED  BY <1>4, <3>1, AskIs
  <2>3. \A o \in r.off - n + 1 .. r.off : At(b, o) = <<id>>  BY <1>4 DEF Filled
  <2>4. x \in Payload(n, r)  OBVIOUS
  <2>. HIDE DEF r, n
  <2>5. r.off \in Nat  BY <2>1 DEF Region
  <2>6. x \in Int /\ b.cap - x \in r.off - n + 1 .. r.off /\ b.cap - (b.cap - x) = x
    BY <1>1, <2>2, <2>4, <2>5 DEF Payload, Addr
  <2>7. At(b, b.cap - x) = b.mem[x]  BY <2>6 DEF At
  <2>. QED  BY <2>3, <2>6, <2>7
<1>7. ASSUME NEW x \in BytesOf(id) PROVE b.mem[x] = <<id>>
  <2>1. \/ x \in Payload(v.own.size, s.own)
        \/ \E i \in 1 .. Len(s.kids) : x \in Payload(v.kids[i].size, s.kids[i])
    BY DEF BytesOf, e, s, v
  <2>2. CASE x \in Payload(v.own.size, s.own)
    <3>1. NeedAt(v, 0) = v.own  BY DEF NeedAt
    <3>. QED  BY <1>4, <1>6, <2>2, <3>1, RegionsAre
  <2>3. ASSUME NEW i \in 1 .. Len(s.kids), x \in Payload(v.kids[i].size, s.kids[i])
        PROVE  b.mem[x] = <<id>>
    <3>1. NeedAt(v, i) = v.kids[i]  BY DEF NeedAt
    <3>. QED  BY <1>4, <1>6, <2>3, <3>1, RegionsAre
  <2>. QED  BY <2>1, <2>2, <2>3
<1>. QED  BY <1>5, <1>7 DEF s, e

LEMMA ZeroFollows ==
    ASSUME IInv, ZeroInv PROVE ZeroRecord
<1>1. SUFFICES ASSUME Traced(b, live), NEW x \in DOMAIN b.mem PROVE Clean(x)
  BY DEF ZeroRecord, ZeroInv
<1>. DEFINE o == b.cap - x
<1>2. b.cap \in Nat /\ DOMAIN b.mem = 0 .. b.cap - 1 /\ b.holes \in Seq(Region)
  BY DEF IInv, Good, Shaped
<1>3. o \in 1 .. b.cap /\ b.cap - o = x  BY <1>1, <1>2
<1>4. At(b, o) = b.mem[x]  BY <1>3 DEF At
<1>. HIDE DEF o
<1>5. CASE At(b, o) = <<>>  BY <1>4, <1>5 DEF Clean
<1>6. CASE b.holes # <<>> /\ o <= NODE
  <2>1. x \in NodeBytes(Floor(b))  BY <1>2, <1>3, <1>6 DEF NodeBytes, Floor, NODE
  <2>. QED  BY <1>6, <2>1 DEF Clean
<1>7. ASSUME NEW i \in 1 .. Len(b.holes), HasNode(b.holes[i], o) PROVE Clean(x)
  <2>1. b.holes[i].off \in Nat  BY <1>2, HoleIs DEF Region
  <2>2. x \in NodeBytes(Addr(b, b.holes[i]))
    BY <1>2, <1>3, <1>7, <2>1 DEF HasNode, NodeBytes, Addr, NODE
  <2>. QED  BY <2>2 DEF Clean
<1>8. CASE At(b, o) = <<StackTag>> /\ b.cap - o < b.stack  BY <1>3, <1>4, <1>8 DEF Clean
<1>9. ASSUME NEW id \in Held, Paid(live[id].v, live[id].s, o) PROVE Clean(x)
  <2>. DEFINE s == live[id].s
              v == live[id].v
  <2>1. Kept(b, live[id], id)  BY DEF IInv
  <2>2. Owned(b, s) /\ v \in Needs /\ s.kids \in Seq(Region) /\ Len(s.kids) = Len(v.kids)
    BY <2>1 DEF Kept, Owned
  <2>. HIDE DEF s, v
  <2>3. PICK k \in Places(s) :
           o \in RegionAt(s, k).off - NeedAt(v, k).size + 1 .. RegionAt(s, k).off
    BY <1>9 DEF Paid, s, v
  <2>4. RegionAt(s, k).off \in Nat  BY <2>2, PlaceIs DEF Region
  <2>5. NeedAt(v, k).size \in Nat
    <3>1. k \in Places(v)  BY <2>2 DEF Places
    <3>. QED  BY <2>2, <3>1, AskIs
  <2>6. x \in Payload(NeedAt(v, k).size, RegionAt(s, k)) /\ NeedAt(v, k).size # 0
    BY <1>2, <1>3, <2>3, <2>4, <2>5 DEF Payload, Addr
  <2>. DEFINE P(i) == Payload(v.kids[i].size, s.kids[i])
              own == Payload(v.own.size, s.own)
              kids == UNION {P(i) : i \in 1 .. Len(s.kids)}
  <2>11. BytesOf(id) = (IF v.own.size = 0 THEN {} ELSE own) \union kids
    BY DEF BytesOf, s, v
  <2>12. \A i \in 1 .. Len(s.kids) : P(i) \subseteq kids  OBVIOUS
  <2>. HIDE DEF kids
  <2>7. ASSUME k = 0 PROVE x \in BytesOf(id)
    <3>1. x \in own /\ v.own.size # 0
      BY <2>6, <2>7 DEF NeedAt, RegionAt
    <3>. QED  BY <2>11, <3>1
  <2>8. ASSUME k # 0 PROVE x \in BytesOf(id)
    <3>1. k \in 1 .. Len(s.kids)
      <4>1. Len(s.kids) \in Nat  BY <2>2, LenProperties
      <4>. QED  BY <2>3, <2>8, <4>1 DEF Places
    <3>2. x \in P(k)  BY <2>6, <2>8 DEF NeedAt, RegionAt
    <3>. HIDE DEF P, own
    <3>. QED  BY <2>11, <2>12, <3>1, <3>2
  <2>9. x \in BytesOf(id)  BY <2>7, <2>8
  <2>10. b.mem[x] = <<id>>  BY <2>9, IntactFollows DEF ValuesIntact
  <2>. QED  BY <2>9, <2>10 DEF Clean
<1>10. Stray(b, o) => \/ At(b, o) = <<StackTag>> /\ b.cap - o < b.stack
                      \/ \E id \in Held : Paid(live[id].v, live[id].s, o)
  BY <1>1 DEF Traced, Held
<1>. QED  BY <1>3, <1>5, <1>6, <1>7, <1>8, <1>9, <1>10 DEF Stray, Marked

\* No step takes the freelist out of order.
LEMMA OrderIs ==
    ASSUME IInv, [Next]_vars, AllModest, Rising(b.holes)
    PROVE  Rising(b'.holes)
<1>0. Good(b) /\ Values \subseteq Needs /\ PushSizes \subseteq Nat
  BY ConstantsAssumption DEF IInv
<1>1. ASSUME NEW v \in Values, NEW x, b' = Archive(b, v, x).b PROVE Rising(b'.holes)
  <2>1. v \in Needs /\ Modest(v)  BY <1>0 DEF AllModest
  <2>. QED  BY <1>0, <1>1, <2>1, ArchiveIs
<1>2. ASSUME NEW id \in Ids, ReleaseValue(id) PROVE Rising(b'.holes)
  <2>1. b' = Release(b, live[id].s) /\ Owned(b, live[id].s)
    BY <1>2 DEF ReleaseValue, IInv, Kept
  <2>. QED  BY <1>0, <2>1, ReleaseIs
<1>3. ASSUME NEW size \in PushSizes, Push(size) \/ Extend(size) PROVE b'.holes = b.holes
  <2>1. size \in Nat /\ size \in Nat \ {0}  BY ConstantsAssumption
  <2>2. CASE Push(size)
    <3>1. PushBytes(b, size, size, StackTag).ok /\ b' = PushBytes(b, size, size, StackTag).b
      BY <2>2 DEF Push
    <3>. QED  BY <1>0, <2>1, <3>1, PushIs
  <2>3. CASE Extend(size)
    <3>1. ExtendBytes(b, size, StackTag).ok /\ b' = ExtendBytes(b, size, StackTag).b
      BY <2>3 DEF Extend
    <3>. QED  BY <1>0, <2>1, <3>1, ExtendStackIs
  <2>. QED  BY <1>3, <2>2, <2>3
<1>4. ASSUME Shrink PROVE b'.holes = b.holes
  <2>1. PICK pos \in Cuts : pos < b.stack /\ b' = StackShrink(b, pos)  BY <1>4 DEF Shrink
  <2>2. pos \in Nat  BY ConstantsAssumption
  <2>. QED  BY <1>0, <2>1, <2>2, ShrinkIs
<1>5. ASSUME Rollback PROVE Rising(b'.holes)
  <2>1. PICK front : front \in 0 .. b.heap - 1 /\ b' = PopHeap(b, b.heap - front)
    BY <1>5 DEF Rollback
  <2>2. b.heap \in Nat  BY <1>0 DEF Good, Shaped
  <2>3. b.heap - front \in Nat /\ b.heap - front <= b.heap  BY <2>1, <2>2
  <2>. QED  BY <1>0, <2>1, <2>3, PopIs
<1>6. ASSUME NEW cap \in Caps, GrowTo(cap) PROVE b'.holes = b.holes
  <2>1. cap \in Nat /\ b.cap < RoundUp(cap, MAX_ALIGN) /\ b' = Grow(b, cap)
    BY <1>6, ConstantsAssumption DEF GrowTo
  <2>. QED  BY <1>0, <2>1, GrowIs
<1>7. ASSUME SaveAndLoad PROVE b'.holes = b.holes
  BY <1>0, <1>7, ReloadIs DEF SaveAndLoad
<1>8. CASE \E v \in Values : ArchiveErr(v) \/ \E id \in Ids : ArchiveOk(v, id)
  BY <1>1, <1>8 DEF ArchiveErr, ArchiveOk
<1>9. CASE UNCHANGED vars  BY <1>9 DEF vars
<1>. QED  BY <1>2, <1>3, <1>4, <1>5, <1>6, <1>7, <1>8, <1>9 DEF Next

LEMMA OrderFollows ==
    ASSUME IInv, Rising(b.holes) PROVE HolesInOrder
<1>. DEFINE hs == b.holes
<1>1. /\ \A i \in 1 .. Len(hs) : /\ hs[i].len >= NODE /\ NODE <= hs[i].off - hs[i].len
                                 /\ hs[i].off <= NODE + b.heap
      /\ Len(hs) \in Nat /\ \A i \in 1 .. Len(hs) : hs[i] \in Region
  BY HoleIs DEF IInv, Good, Separate, Within
<1>2. ASSUME NEW i \in 1 .. Len(hs), i # 1
      PROVE  hs[i].off - hs[i].len >= hs[i - 1].off + NODE
  <2>1. i - 1 \in 1 .. Len(hs) /\ i - 1 < i  BY <1>1, <1>2
  <2>2. hs[i - 1].off + NODE <= hs[i].off - hs[i].len  BY <2>1 DEF Rising
  <2>3. hs[i - 1].off \in Nat /\ hs[i].off \in Nat /\ hs[i].len \in Nat
    BY <1>1, <2>1 DEF Region
  <2>. QED  BY <2>2, <2>3 DEF NODE
<1>3. \A i \in 1 .. Len(hs) : hs[i].off - hs[i].len >= NODE
  BY <1>1 DEF Region, NODE
<1>. QED  BY <1>1, <1>2, <1>3 DEF HolesInOrder

\* The freelist is sorted, its holes lie in the heap, hold a node and are kept
\* a node apart, if no value asks for an alignment above a node: what free
\* relies on (block.rs:420-464).  With a larger alignment the code puts the two
\* parts of a split hole in the wrong order.
THEOREM HolesStayInOrder == AllModest => (Spec => []HolesInOrder)
<1>. SUFFICES ASSUME AllModest PROVE Spec => []HolesInOrder  OBVIOUS
<1>1. Init => Rising(b.holes)
  BY NewIs, ConstantsAssumption DEF Init
<1>2. IInv /\ Rising(b.holes) /\ [Next]_vars => Rising(b.holes)'  BY OrderIs
<1>3. IInv /\ Rising(b.holes) => HolesInOrder  BY OrderFollows
<1>. QED  BY <1>1, <1>2, <1>3, Invariance, PTL DEF Spec

\* The bytes of the holes of a block, by their offsets.
LEMMA HoleSetIs ==
    ASSUME NEW blk, Good(blk), NEW x \in Int
    PROVE  x \in HoleSet(blk) <=> InHoles(blk.holes, blk.cap - x)
<1>. DEFINE hs == blk.holes
<1>1. blk.cap \in Nat /\ \A i \in 1 .. Len(hs) : hs[i].off \in Nat /\ hs[i].len \in Nat
  BY HoleIs DEF Good, Shaped, Region
<1>2. ASSUME NEW i \in 1 .. Len(hs) PROVE x \in Span(blk, hs[i]) <=> Has(hs[i], blk.cap - x)
  <2>. DEFINE k == blk.cap
              o == hs[i].off
              n == hs[i].len
  <2>1. k \in Nat /\ o \in Nat /\ n \in Nat  BY <1>1
  <2>. HIDE DEF k, o, n
  <2>2. x \in k - o .. (k - o) + n - 1 <=> o - n < k - x /\ k - x <= o  BY <2>1
  <2>. QED  BY <2>2 DEF Span, Addr, Has, k, o, n
<1>. QED  BY <1>2 DEF HoleSet, HoleBytes, InHoles

LEMMA UnwindFollows ==
    ASSUME IInv, Rising(b.holes), AllModest, NEW v \in Values, ArchiveErr(v)
    PROVE  /\ b'.stack = b.stack /\ b'.heap = b.heap
           /\ \A x \in DOMAIN b.mem :
                 ~(x .. x + NODE - 1 \subseteq HoleSet(b) \ HoleSet(b'))
<1>1. PICK id \in fresh : ~Archive(b, v, id).ok /\ b' = Archive(b, v, id).b
  BY DEF ArchiveErr
<1>. DEFINE c == Archive(b, v, id).b
<1>2. Good(b) /\ v \in Needs /\ Modest(v)  BY ConstantsAssumption DEF IInv, AllModest
<1>3. /\ Good(c) /\ c.cap = b.cap /\ c.stack = b.stack /\ c.heap = b.heap
      /\ NothingLost(b.holes, c.holes)
  BY <1>1, <1>2, ArchiveIs DEF Sparing
<1>4. b.cap \in Nat /\ DOMAIN b.mem = 0 .. b.cap - 1  BY <1>2 DEF Good, Shaped
<1>. HIDE DEF c
<1>5. ASSUME NEW x \in DOMAIN b.mem, x .. x + NODE - 1 \subseteq HoleSet(b) \ HoleSet(c)
      PROVE  FALSE
  <2>. DEFINE k == b.cap
              o == k - x - (NODE - 1)
  <2>1. x \in Int /\ k \in Nat /\ o \in Int  BY <1>4 DEF NODE
  <2>2. ASSUME NEW j \in 0 .. NODE - 1
        PROVE  InHoles(b.holes, o + j) /\ ~InHoles(c.holes, o + j)
    <3>. DEFINE y == x + (NODE - 1) - j
    <3>1. y \in x .. x + NODE - 1 /\ y \in Int /\ k - y = o + j  BY <2>1 DEF NODE
    <3>2. y \in HoleSet(b) /\ y \notin HoleSet(c)  BY <1>5, <3>1
    <3>. HIDE DEF y, o, k
    <3>3. InHoles(b.holes, b.cap - y) /\ ~InHoles(c.holes, c.cap - y)
      BY <1>2, <1>3, <3>1, <3>2, HoleSetIs
    <3>. QED  BY <1>3, <3>1, <3>3 DEF k
  <2>. HIDE DEF o
  <2>. QED  BY <1>3, <2>1, <2>2 DEF NothingLost
<1>6. b' = c  BY <1>1 DEF c
<1>. QED  BY <1>3, <1>5, <1>6

\* An archive that fails half way takes itself back: the fronts are where they
\* were, and no node-long run of the holes is lost (archive.rs:76-77, the
\* "near-exact" unwind of block.rs:417-421), if no value asks for an alignment
\* above a node.  What it lost on the way, less than a node at the top and at
\* the bottom of each hole that served it, free joins again or leaves dead.
THEOREM FailureUnwinds == AllModest => (Spec => ErrUnwinds)
<1>. SUFFICES ASSUME AllModest PROVE Spec => ErrUnwinds  OBVIOUS
<1>1. Init => Rising(b.holes)
  BY NewIs, ConstantsAssumption DEF Init
<1>2. IInv /\ Rising(b.holes) /\ [Next]_vars => Rising(b.holes)'  BY OrderIs
<1>3. IInv /\ Rising(b.holes) /\ [Next]_vars =>
        [(\E v \in Values : ArchiveErr(v)) =>
           /\ b'.stack = b.stack /\ b'.heap = b.heap
           /\ \A x \in DOMAIN b.mem :
                 ~(x .. x + NODE - 1 \subseteq HoleSet(b) \ HoleSet(b'))
        ]_vars
  BY UnwindFollows
<1>. QED  BY <1>1, <1>2, <1>3, Invariance, PTL DEF Spec, ErrUnwinds

\* The fronts never meet, and every hole is a region of the heap, after any
\* history of archives, failures, releases, rolls, growth and reloads.
THEOREM BlockTypes == Spec => []TypeOK
<1>1. IInv => TypeOK  BY TypeFollows
<1>. QED  BY <1>1, Invariance, PTL

\* No operation of a block ever writes to a byte of a value the caller holds,
\* hands it out twice, or takes its handle for a freed one (block.rs:420-464).
THEOREM ValuesStayIntact == Spec => []ValuesIntact
<1>1. IInv => ValuesIntact  BY IntactFollows
<1>. QED  BY <1>1, Invariance, PTL

\* Until a block is grown, every byte that is neither the stack's, nor a held
\* value's, nor a freelist node, is zero (block.rs:12-17): whatever the order
\* of archives, failures, releases, rolls and shrinks, none leaves a byte of
\* what it took away.
THEOREM NothingIsLeftBehind == Spec => []ZeroRecord
<1>1. Init => ZeroInv
  BY NewIs, ConstantsAssumption DEF Init, ZeroInv, Traced
<1>2. IInv /\ ZeroInv /\ [Next]_vars => ZeroInv'  BY ZeroNext
<1>3. IInv /\ ZeroInv => ZeroRecord  BY ZeroFollows
<1>. QED  BY <1>1, <1>2, <1>3, Invariance, PTL DEF Spec

\* A block written to its record and loaded back has the same fronts, the same
\* holes and the same bytes outside the gap (block.rs:504-536).
THEOREM LoadKeepsTheBlock == Spec => LoadKeeps
<1>1. IInv /\ [Next]_vars =>
        [SaveAndLoad =>
           /\ b'.stack = b.stack /\ b'.heap = b.heap /\ b'.holes = b.holes
           /\ \A x \in DOMAIN b.mem \ (b.stack .. Bottom(b) - 1) : b'.mem[x] = b.mem[x]
        ]_vars
  <2>1. SUFFICES ASSUME IInv, SaveAndLoad
                 PROVE  /\ b'.stack = b.stack /\ b'.heap = b.heap /\ b'.holes = b.holes
                        /\ \A x \in DOMAIN b.mem \ (b.stack .. Bottom(b) - 1) :
                              b'.mem[x] = b.mem[x]
    OBVIOUS
  <2>2. Good(b) /\ b' = Reload(b)  BY <2>1 DEF IInv, SaveAndLoad
  <2>. QED  BY <2>2, ReloadIs
<1>. QED  BY <1>1, Invariance, PTL DEF Spec, LoadKeeps
=============================================================================
