------------------------------ MODULE SkipSet ------------------------------
(***************************************************************************)
(* The skip-list index over a BlockSet (crates/doa/src/skipset.rs). A       *)
(* record                                                                   *)
(*                                                                          *)
(*   base    the block                                                      *)
(*   store   <<>> until the first rebuild, then the tiers from the top down *)
(*           to tier 0, and whether a hole was ever written in them         *)
(*   epoch   the base's epoch when the tiers were last in step with it      *)
(*                                                                          *)
(* Slot j of tier 0 holds the first key of the base's window of STRIDE      *)
(* slots; slot j of a tier above, the first key of a run of STRIDE slots    *)
(* below it. An empty one repeats its left neighbour, or MinKey at the      *)
(* head. A tier has `width` slots in use of the `capacity` reserved.        *)
(***************************************************************************)
EXTENDS SlotSet

CONSTANT STRIDE     \* slots per window, and per slot of the tier above (16)

ASSUME SkipSetAssumption == STRIDE \in {2^n : n \in 1 .. 6}

MinKey == 1         \* K::MIN, which may be a key of the set
CeilDiv(n) == (n + STRIDE - 1) \div STRIDE
Slots(lo, hi) == [i \in 1 .. hi - lo + 1 |-> lo + i - 1]
TierCount(store) == Len(store.tiers)
Tier0(store) == store.tiers[TierCount(store)]

NewSkip == [base |-> NewBlock, store |-> <<>>, epoch |-> 0]
Built(s) == s.store # <<>>
Tiers(s) == s.store[1]

-----------------------------------------------------------------------------
(* Writing a slot of a tier.                                                *)

SetSlot(store, tier, slot, key) ==
  [store EXCEPT
     !.holes = @ \/ key = None,
     !.tiers[tier].slots[slot] =
        IF key # None THEN key
        ELSE IF slot = 0 THEN MinKey ELSE store.tiers[tier].slots[slot - 1]]

\* The slots to the right that repeat the old value repeat the new one.
Cascaded(tier, slot, old) ==
  LET run == {x \in slot + 1 .. tier.width - 1 :
                \A y \in slot + 1 .. x : tier.slots[y] = old}
  IN  [tier EXCEPT !.slots =
         [x \in DOMAIN @ |-> IF x \in run THEN tier.slots[slot] ELSE @[x]]]

SetCascade(store, tier, slot, key) ==
  LET set == SetSlot(store, tier, slot, key)
  IN  [set EXCEPT !.tiers[tier] =
         Cascaded(@, slot, store.tiers[tier].slots[slot])]

\* The first key of the run below that is not a repetition.
Lifted(store, tier, slot) ==
  LET below == store.tiers[tier + 1]
      grid == slot * STRIDE
      real == {x \in grid .. Min({grid + STRIDE, below.width}) - 1 :
                 x = 0 \/ below.slots[x] # below.slots[x - 1]}
  IN  IF real = {} THEN None ELSE below.slots[Min(real)]

WindowHandle(base, window) ==
  LET live == {p \in Live(base) : p >= window * STRIDE}
  IN  IF live # {} /\ Min(live) < (window + 1) * STRIDE
      THEN KeyAt(base, Min(live)) ELSE None

Handle(base, store, tier, slot) ==
  IF tier = TierCount(store) THEN WindowHandle(base, slot)
  ELSE Lifted(store, tier, slot)

\* The slots lo..hi of a tier written anew, upwards.
Refill(base, store, tier, lo, hi) ==
  FoldLeft(LAMBDA t, slot : SetSlot(t, tier, slot, Handle(base, t, tier, slot)),
           store, Slots(lo, hi))
Reread(base, store, tier, lo, hi) ==
  FoldLeft(LAMBDA t, slot : SetCascade(t, tier, slot, Handle(base, t, tier, slot)),
           store, Slots(lo, hi))

-----------------------------------------------------------------------------
(* Tiers built, resized and read again.                                     *)

\* The widths of the tiers from tier 0 of width w up.
RECURSIVE Chain(_)
Chain(w) == IF w > STRIDE THEN <<w>> \o Chain(CeilDiv(w)) ELSE <<w>>

RECURSIVE Padded(_, _)
Padded(widths, n) ==
  IF Len(widths) >= n THEN widths
  ELSE Padded(Append(widths, CeilDiv(widths[Len(widths)])), n)

\* Room for the chain at twice the capacity, doubled.
FreshTiers(cap) ==
  LET ceil == Chain(CeilDiv(2 * cap))
      widths == Padded(Chain(CeilDiv(cap)), Len(ceil))
  IN  Reverse([i \in 1 .. Len(ceil) |->
        [width |-> widths[i], capacity |-> 2 * ceil[i],
         slots |-> [x \in 0 .. 2 * ceil[i] - 1 |-> MinKey]]])

FilledTier(base, store, tier) ==
  Refill(base, store, tier, 0, store.tiers[tier].width - 1)

Upwards(store) == [i \in 1 .. TierCount(store) |-> TierCount(store) + 1 - i]

Rebuild(s) ==
  LET fresh == [tiers |-> FreshTiers(s.base.cap), holes |-> FALSE]
      filled == FoldLeft(LAMBDA t, tier : FilledTier(s.base, t, tier),
                         fresh, Upwards(fresh))
  IN  [s EXCEPT !.store = <<filled>>, !.epoch = s.base.epoch]

\* The width that goes with the tier below, or with the block.
GrownWidth(base, store, tier) ==
  CeilDiv(IF tier = TierCount(store) THEN base.cap ELSE store.tiers[tier + 1].width)
Outgrown(s) == CeilDiv(s.base.cap) > Tier0(Tiers(s)).capacity

\* After a turn or a flip every window has another first key.
ResyncTier(base, store, tier) ==
  FilledTier(base,
    [store EXCEPT !.tiers[tier].width = GrownWidth(base, store, tier)], tier)

SyncMove(s) ==
  IF Outgrown(s) THEN Rebuild(s)
  ELSE [s EXCEPT
         !.store = <<FoldLeft(LAMBDA t, tier : ResyncTier(s.base, t, tier),
                              Tiers(s), Upwards(Tiers(s)))>>,
         !.epoch = s.base.epoch]

\* The block has grown at its tail.
ExtendTier(base, store, tier) ==
  LET width == GrownWidth(base, store, tier)
      filled == Refill(base, store, tier, store.tiers[tier].width, width - 1)
  IN  [filled EXCEPT !.tiers[tier].width = width]

Extend(s) ==
  IF Outgrown(s) THEN Rebuild(s)
  ELSE [s EXCEPT
         !.store = <<FoldLeft(LAMBDA t, tier : ExtendTier(s.base, t, tier),
                              Tiers(s), Upwards(Tiers(s)))>>]

-----------------------------------------------------------------------------
(* The slots that slides of the block have touched, from tier 0 up.         *)

\* (mutant) the window in which the slides begin is taken for untouched.
ApplySlideCeil(s, from, to) ==
  LET grid(tier, p) == p \div STRIDE^(TierCount(Tiers(s)) - tier + 1)
  IN  IF ~ Built(s) THEN s
      ELSE [s EXCEPT !.store = <<
             FoldLeft(LAMBDA t, tier :
                        Reread(s.base, t, tier,
                               grid(tier, from) + IF from % STRIDE = 0 THEN 0 ELSE 1,
                               grid(tier, to)),
                      Tiers(s), Upwards(Tiers(s)))>>]

ApplySlide(s, from, to) ==
  LET grid(tier, p) == p \div STRIDE^(TierCount(Tiers(s)) - tier + 1)
  IN  IF ~ Built(s) THEN s
      ELSE [s EXCEPT !.store = <<
             FoldLeft(LAMBDA t, tier :
                        Reread(s.base, t, tier, grid(tier, from), grid(tier, to)),
                      Tiers(s), Upwards(Tiers(s)))>>]

\* A push at the tail is all that is new: its window's first, perhaps. On a
\* gridline it may be the first of the runs above as well.
RECURSIVE Relifted(_, _, _)
Relifted(store, tier, slot) ==
  LET lifted == SetCascade(store, tier, slot, Lifted(store, tier, slot))
  IN  IF slot % STRIDE # 0 \/ tier = 1 THEN lifted
      ELSE Relifted(lifted, tier - 1, slot \div STRIDE)

TailPushed(s, placed) ==
  LET window == placed \div STRIDE
      tier0 == TierCount(Tiers(s))
      set == SetCascade(Tiers(s), tier0, window, KeyAt(s.base, placed))
  IN  IF Min({p \in Live(s.base) : p >= window * STRIDE}) # placed THEN s
      ELSE [s EXCEPT !.store =
             <<IF window % STRIDE = 0 /\ tier0 > 1
               THEN Relifted(set, tier0 - 1, window \div STRIDE) ELSE set>>]

Ends(spans) == UNION {{span[1], span[2]} : span \in spans}

Synced(s) == IF s.epoch # s.base.epoch THEN SyncMove(s) ELSE s
Crept(s) ==
  IF s.base.cap > Tier0(Tiers(s)).width * STRIDE THEN Extend(s) ELSE s
Touched(s, placed) ==
  LET spans == s.base.event.spans
  IN  IF spans = {} THEN TailPushed(s, placed)
      ELSE ApplySlide(s, Min(Ends(spans)), Max(Ends(spans)))

Maintain(s, placed) == Touched(Crept(Synced(s)), placed)

-----------------------------------------------------------------------------
(* The descent: a window of the base that holds k or its boundary.          *)

\* The slots of a range that are not holes. Holes repeat what is to the left.
Real(store, tier, lo, end) ==
  {x \in lo .. end - 1 :
     store.holes =>
       store.tiers[tier].slots[x] #
         IF x = 0 THEN MinKey ELSE store.tiers[tier].slots[x - 1]}

\* One tier: the last slot up to k, and the first beyond it.
Scanned(s, k, tier, lo, hi) ==
  LET slots == Tiers(s).tiers[tier].slots
      end == Min({hi, Tiers(s).tiers[tier].width})
      real == Real(Tiers(s), tier, lo, end)
      beyond == {x \in real : ~ Precedes(s.base, slots[x], k)}
      stop == Min(beyond \union {end})
      hit == beyond # {} /\ slots[stop] = k
      le == {x \in real : x < stop} \union IF hit THEN {stop} ELSE {}
  IN  [lo |-> STRIDE * IF le = {} THEN lo ELSE Max(le),
       hi |-> STRIDE * IF hit THEN stop + 1 ELSE stop]

RECURSIVE Descent(_, _, _, _)
Descent(s, k, tier, range) ==
  IF tier > TierCount(Tiers(s)) THEN range
  ELSE Descent(s, k, tier + 1, Scanned(s, k, tier, range.lo, range.hi))

WindowOf(s, k) ==
  LET range == Descent(s, k, 1, [lo |-> 0, hi |-> Tiers(s).tiers[1].width])
  IN  [from |-> range.lo, to |-> Min({range.hi, s.base.cap})]

SkipFind(s, k) ==
  IF ~ Built(s) THEN Find(s.base, k)
  ELSE FindWindow(s.base, k, WindowOf(s, k).from, WindowOf(s, k).to)

-----------------------------------------------------------------------------
(* Inserts.                                                                 *)

SkipAnswer(s, ok) == [s |-> s, ok |-> ok]
Based(s, b) == [s EXCEPT !.base = b]

\* The flip is the owner's: the base would do it too late.
FlippedFirst(s) ==
  IF Built(s) /\ ReverseDue(s.base) THEN SyncMove(Based(s, Flipped(s.base))) ELSE s

\* `r` is the base's answer.
Accepted(s, k, r) ==
  IF ~ r.ok THEN SkipAnswer(Based(s, r.b), FALSE)
  ELSE SkipAnswer(IF Built(s) THEN Maintain(Based(s, r.b), PosOf(r.b, k))
                  ELSE Based(s, r.b), TRUE)

InsertAround(s, k) ==
  IF BeyondTail(s.base, k) THEN PushBeyond(s.base, k)
  ELSE InsertWithin(s.base, k, WindowOf(s, k).from, WindowOf(s, k).to)

SkipInsert(s, k) ==
  IF ~ Built(s) THEN Accepted(s, k, InsertInto(s.base, k))
  ELSE LET ready == FlippedFirst(s) IN Accepted(ready, k, InsertAround(ready, k))

\* insert_maintain_only: the base finds the place itself, and may flip.
InsertPlainly(s, k) ==
  LET r == Accepted(s, k, InsertInto(s.base, k))
  IN  IF ~ r.ok /\ Built(s) THEN SkipAnswer(Synced(r.s), FALSE) ELSE r

-----------------------------------------------------------------------------
(* update: the key of a name replaced by one that may belong elsewhere.     *)

\* The neighbours of the slot leave room for k between them.
Fits(b, p, k) ==
  LET before == {q \in Live(b) : q < p}
      after == {q \in Live(b) : q > p}
      next == KeyAt(b, Min(after))
  IN  /\ before # {} => Precedes(b, KeyAt(b, Max(before)), k)
      /\ after # {} => ~ Precedes(b, next, k) /\ next # k

\* The walk from the emptied slot, both ways, to the keys around k.
HintWindow(b, k, hint) ==
  LET radius == 2 * STRIDE
      below(q) == Precedes(b, KeyAt(b, q), k)
      down == {q \in Live(b) : q < hint /\ ~ \E x \in Live(b) : q < x /\ x < hint /\ below(x)}
      up == {q \in Live(b) : q > hint /\ ~ \E x \in Live(b) : hint < x /\ x < q /\ ~ below(x)}
  IN  IF \E q \in down \union up : Apart(q, hint) > radius THEN <<>>
      ELSE <<[from |-> Max({q + 1 : q \in {x \in down : below(x)}} \union {0}),
              to |-> Min({q \in up : ~ below(q)} \union {b.cap})]>>

InsertHinted(s, k, hint) ==
  IF hint # <<>> THEN InsertWithin(s.base, k, hint[1].from, hint[1].to)
  ELSE IF BeyondTail(s.base, k) THEN PushBeyond(s.base, k)
  ELSE IF Built(s) THEN InsertWithin(s.base, k, WindowOf(s, k).from, WindowOf(s, k).to)
  ELSE InsertWithin(s.base, k, 0, s.base.cap)

\* The key at p goes; k, which is not in the set, comes in near it or not.
Moved(s, p, k) ==
  LET without == ApplySlide(Based(s, Removed(s.base, p)), p, p)
  IN  Accepted(without, k, InsertHinted(without, k, HintWindow(without.base, k, p)))

UpdateAt(s, p, k) ==
  IF KeyAt(s.base, p) = k THEN SkipAnswer(s, TRUE)
  ELSE IF Fits(s.base, p, k)
       THEN SkipAnswer(ApplySlide(Based(s, ReplaceKey(s.base, p, k)), p, p), TRUE)
  ELSE IF SkipFind(s, k) # None THEN SkipAnswer(s, FALSE)
  ELSE Moved(s, p, k)

NamesLive(b, name) == A2P(b.tr, name) \in Live(b)

Update(s, name, k) ==
  IF ~ NamesLive(s.base, name) THEN SkipAnswer(s, FALSE)
  ELSE LET ready == FlippedFirst(s) IN UpdateAt(ready, A2P(ready.base.tr, name), k)

SkipDrained(s) == [s EXCEPT !.base.event = NoEvent]
=============================================================================
