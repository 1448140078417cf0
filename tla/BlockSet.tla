------------------------------ MODULE BlockSet ------------------------------
(***************************************************************************)
(* One BlockSet (crates/doa/src/blockset_v1.rs) and a holder of its names.  *)
(*                                                                          *)
(* An insert may rename elements that are there already. It leaves an event *)
(* behind, and the holder pulls (from, to) names out of it, one at a time;  *)
(* for each it looks for the first entry called `from` and calls it `to`.   *)
(* Only when the event is exhausted does it keep the name of the new key,   *)
(* and may the next insert be made. Between two pulls the caller may find   *)
(* elements, remove them, or have the block flipped.                        *)
(***************************************************************************)
EXTENDS SlotOps

CONSTANTS
  Keys,        \* the keys the caller inserts: positive numbers
  Prefills,    \* earlier histories: k inserts the key k, -k removes it
  MaxCalls     \* bound: the calls made after that

ASSUME BlockSetAssumption ==
  /\ Keys \subseteq Nat \ {0}
  /\ Prefills \subseteq Seq(Int)
  /\ MaxCalls \in Nat

VARIABLES
  b,        \* the block
  holder,   \* key |-> the name the caller holds
  todo,     \* the (from, to) names of the event that are not pulled yet
  fresh,    \* the key just inserted and its name: <<>> or <<k, name>>
  calls     \* the calls made

vars == <<b, holder, todo, fresh, calls>>

With(h, entry) ==
  IF entry = <<>> THEN h
  ELSE [k \in DOMAIN h \union {entry[1]} |->
          IF k = entry[1] THEN entry[2] ELSE h[k]]
Without(h, k) == [x \in DOMAIN h \ {k} |-> h[x]]
Forget(entry, k) == IF entry # <<>> /\ entry[1] = k THEN <<>> ELSE entry

Drained(c) == [c EXCEPT !.event = NoEvent]

\* The block after one earlier call, which may be refused or find nothing.
Called(c, k) ==
  IF k > 0
  THEN IF Placeable(c, k) THEN Drained(Inserted(c, k)) ELSE Readied(c)
  ELSE IF -k \in KeysOf(c) THEN Removed(c, PosOf(c, -k)) ELSE c

\* The block after `history` (the only member of the set).
Earlier(history) ==
  LET after[i \in 0 .. Len(history)] ==
        IF i = 0 THEN {NewBlock} ELSE {Called(c, history[i]) : c \in after[i - 1]}
  IN  after[Len(history)]

Init ==
  /\ b \in UNION {Earlier(history) : history \in Prefills}
  /\ holder = [k \in KeysOf(b) |-> NameOf(b, k)]
  /\ todo = <<>>
  /\ fresh = <<>>
  /\ calls = 0

-----------------------------------------------------------------------------
Ready == ~ b.event.pending /\ fresh = <<>> /\ calls < MaxCalls

Insert(k) ==
  /\ Ready
  /\ Placeable(b, k)
  /\ b' = Inserted(b, k)
  /\ todo' = NamePairs(b'.event)
  /\ fresh' = <<k, NameOf(b', k)>>
  /\ calls' = calls + 1
  /\ UNCHANGED holder

\* A duplicate, or no name left. The block may have been flipped all the same.
Refuse(k) ==
  /\ Ready
  /\ ~ Placeable(b, k)
  /\ b' = Readied(b)
  /\ calls' = calls + 1
  /\ UNCHANGED <<holder, todo, fresh>>

Pull ==
  /\ todo # <<>>
  /\ holder' = Renamed(holder, Head(todo))
  /\ todo' = Tail(todo)
  /\ UNCHANGED <<b, fresh, calls>>

\* The pull that answers None clears the event; the new name is kept.
Settle ==
  /\ todo = <<>>
  /\ b.event.pending \/ fresh # <<>>
  /\ b' = Drained(b)
  /\ holder' = With(holder, fresh)
  /\ fresh' = <<>>
  /\ UNCHANGED <<todo, calls>>

\* find, and remove of the name it answers: at any time.
RemoveFound(k) ==
  /\ calls < MaxCalls
  /\ k \in KeysOf(b)
  /\ b' = Removed(b, A2P(b.tr, NameOf(b, k)))
  /\ holder' = Without(holder, k)
  /\ fresh' = Forget(fresh, k)
  /\ calls' = calls + 1
  /\ UNCHANGED todo

\* remove of a held name, which is good once the event is drained.
RemoveHeld(k) ==
  /\ Ready
  /\ k \in DOMAIN holder
  /\ LET p == A2P(b.tr, holder[k])
     IN  b' = IF p \in Live(b) THEN Removed(b, p) ELSE b
  /\ holder' = Without(holder, k)
  /\ calls' = calls + 1
  /\ UNCHANGED <<todo, fresh>>

\* reverse, which the owner of a block may call, with an event pending or not.
Flip ==
  /\ ReverseDue(b)
  /\ b' = Flipped(b)
  /\ UNCHANGED <<holder, todo, fresh, calls>>

Next ==
  \/ \E k \in Keys : Insert(k) \/ Refuse(k)
  \/ \E k \in Keys : RemoveFound(k) \/ RemoveHeld(k)
  \/ Pull \/ Settle \/ Flip

Spec == Init /\ [][Next]_vars

-----------------------------------------------------------------------------
(* The live slots hold the keys inserted and not removed, each once, in key *)
(* order (backwards in a reversed block): no rung of the ladder loses,      *)
(* doubles or reorders an element, or clears or sets a wrong mask bit.      *)
Ordered ==
  /\ \A c, d \in b.data : c # d => (c[1] < d[1] <=> Precedes(b, c[2], d[2]))
  /\ KeysOf(b) = DOMAIN holder \union (IF fresh = <<>> THEN {} ELSE {fresh[1]})

(* At every point of a drain, the pairs that are left bring the holder's    *)
(* names up to date, whatever was removed or flipped meanwhile: no pair is  *)
(* applied to an entry that an earlier pair has just given its name.        *)
HolderFollows ==
  LET final == With(FoldLeft(Renamed, holder, todo), fresh)
  IN  /\ \A k, x \in DOMAIN holder : k # x => holder[k] # holder[x]
      /\ final = [k \in KeysOf(b) |-> NameOf(b, k)]

(* The search answers a duplicate exactly for a key that is there, and      *)
(* otherwise a boundary between the smaller and the greater keys, however   *)
(* the streak's anchor was slid, banked, turned, mirrored or removed.       *)
SpotHonest ==
  \A k \in Keys :
    LET spot == Spot(b, k)
    IN  IF k \in KeysOf(b) THEN spot = Dup
        ELSE /\ spot \in 0 .. b.cap
             /\ \A p \in Live(b) : p < spot <=> Precedes(b, KeyAt(b, p), k)

(* A turn sets exactly the mask bits of the slots it moves elements to, and *)
(* moves none down or past another, so that its one descending pass never   *)
(* overwrites an element it has yet to move.                                *)
TurnAgrees ==
  CanTurn(b) =>
    /\ RotateMask(b) = {TurnedSpot(b, p) : p \in Live(b)}
    /\ \A p \in Live(b) : TurnedSpot(b, p) \in p .. 2 * b.cap - 1
    /\ \A p, q \in Live(b) : p < q => TurnedSpot(b, p) < TurnedSpot(b, q)

\* What a holder of positions does with one (from, to) pair of an event.
Followed(q, pair) == IF q = pair[1] THEN pair[2] ELSE q

\* An element's position changes as the pairs of the step's event say, and
\* within its slides.
MovesTold ==
  LET told == IF b'.event = b.event THEN NoEvent ELSE b'.event
      between(p, s) == p \in s[1] .. s[2] \union s[2] .. s[1]
  IN  \A k \in KeysOf(b) \intersect KeysOf(b') :
        LET was == PosOf(b, k) is == PosOf(b', k)
        IN  /\ is = FoldLeft(Followed, was, told.pairs)
            /\ was # is => /\ \E s \in told.spans : between(was, s)
                           /\ \E s \in told.spans : between(is, s)

(* Whoever keeps positions needs the event only: unless the epoch moves, an *)
(* element's position changes as the pairs say, and within the slides.      *)
PositionsTold == [][b'.epoch = b.epoch => MovesTold]_vars
=============================================================================
