------------------------------ MODULE BlockSetProofs -------------------------
(***************************************************************************)
(* One BlockSet and a holder of its names: the invariant, and what follows *)
(* from it for every width, stride and ratio, and for every earlier        *)
(* history of the block.                                                   *)
(***************************************************************************)
EXTENDS BlockSet, SlotOpsProofs

-----------------------------------------------------------------------------
(* The blocks of earlier histories.                                        *)

\* A drain clears the event and nothing else.
LEMMA DrainedIs ==
    ASSUME NEW c, Good(c)
    PROVE  LET d == Drained(c)
           IN  /\ Good(d) /\ d.event = NoEvent /\ d.epoch = c.epoch /\ d.tr = c.tr
               /\ KeysOf(d) = KeysOf(c) /\ Live(d) = Live(c)
               /\ \A k : PosOf(d, k) = PosOf(c, k) /\ NameOf(d, k) = NameOf(c, k)
<1>. DEFINE d == Drained(c)
<1>1. Whole(c)  BY DEF Good
<1>2. d = [c EXCEPT !.event = NoEvent]  BY DEF Drained
<1>. HIDE DEF d
<1>3. d = [cap |-> c.cap, data |-> c.data, tr |-> c.tr, sum |-> c.sum, last |-> c.last,
           streak |-> c.streak, epoch |-> c.epoch, event |-> NoEvent]
  BY <1>1, <1>2 DEF Whole
<1>4. /\ Whole(d) /\ d.cap = c.cap /\ d.data = c.data /\ d.tr = c.tr /\ d.last = c.last
      /\ d.streak = c.streak /\ d.epoch = c.epoch /\ d.event = NoEvent
  BY <1>3 DEF Whole
<1>5. KeyOrder(d)
  <2>1. KeyOrder(c)  BY DEF Good
  <2>. QED  BY <1>4, <2>1 DEF KeyOrder, Precedes
<1>6. Good(d)  BY <1>4, <1>5 DEF Good
<1>7. KeysOf(d) = KeysOf(c) /\ Live(d) = Live(c) /\ \A k : PosOf(d, k) = PosOf(c, k)
  BY <1>4 DEF KeysOf, Live, PosOf
<1>8. \A k : NameOf(d, k) = NameOf(c, k)  BY <1>4, <1>7 DEF NameOf
<1>. QED  BY <1>4, <1>6, <1>7, <1>8 DEF d

\* A new block is sound and has told nothing.
LEMMA NewBlockIs == Good(NewBlock) /\ NewBlock.event = NoEvent
<1>1. /\ NewBlock.cap = 0 /\ NewBlock.data = {} /\ NewBlock.tr = NewTranslator
      /\ NewBlock.last = 0 /\ NewBlock.streak = 0 /\ NewBlock.epoch = 0
      /\ NewBlock.event = NoEvent /\ Whole(NewBlock)
  BY DEF NewBlock, Whole
<1>2. NewTranslator \in Translator
  BY NamesAre DEF NewTranslator, Translator, Names
<1>3. 0 \in 0 .. NameCount  BY NamesAre
<1>. QED  BY <1>1, <1>2, <1>3 DEF Good, KeyOrder

\* a sound block with nothing pending
Still(c) == Good(c) /\ c.event = NoEvent

\* An earlier call leaves a sound block, and its event is drained.
LEMMA CalledIs ==
    ASSUME NEW c, Still(c), NEW k \in Int
    PROVE  Still(Called(c, k))
<1>1. CASE k > 0 /\ Placeable(c, k)
  <2>1. Good(c) /\ k \in Nat  BY <1>1 DEF Still
  <2>2. Good(Inserted(c, k))  BY <1>1, <2>1, InsertedIs DEF Entered
  <2>3. Still(Drained(Inserted(c, k)))  BY <2>2, DrainedIs DEF Still
  <2>. QED  BY <1>1, <2>3 DEF Called
<1>2. CASE k > 0 /\ ~Placeable(c, k)
  <2>1. Still(Readied(c))  BY ReadiedIs DEF Still, Silent, SameNames
  <2>. QED  BY <1>2, <2>1 DEF Called
<1>3. CASE ~(k > 0)
  <2>1. Still(Removed(c, PosOf(c, -k)))  BY RemovedIs DEF Still
  <2>. QED  BY <1>3, <2>1 DEF Called
<1>. QED  BY <1>1, <1>2, <1>3

\* f[i] holds the block after i calls of the history
Histories(f, n, history) ==
    f = [i \in 0 .. n |-> IF i = 0 THEN {NewBlock}
                          ELSE {Called(c, history[i]) : c \in f[i - 1]}]

\* The recursion that runs an earlier history defines a block for every prefix.
LEMMA HistoriesExist ==
    ASSUME NEW n \in Nat, NEW history
    PROVE  \E f : Histories(f, n, history)
<1>. DEFINE K == {k \in Nat : \E f : Histories(f, k, history)}
            next(S, k) == {Called(c, history[k]) : c \in S}
<1>1. 0 \in K
  <2>. DEFINE f == [i \in 0 .. 0 |-> {NewBlock}]
  <2>1. f = [i \in 0 .. 0 |-> IF i = 0 THEN {NewBlock} ELSE next(f[i - 1], i)]  OBVIOUS
  <2>. HIDE DEF f
  <2>2. Histories(f, 0, history)  BY <2>1 DEF Histories
  <2>. QED  BY <2>2
<1>2. ASSUME NEW k \in 0 + 1 .. n, k - 1 \in K PROVE k \in K
  <2>1. PICK g : Histories(g, k - 1, history)  BY <1>2
  <2>2. /\ \A i \in 0 .. k - 1 : g[i] = IF i = 0 THEN {NewBlock} ELSE next(g[i - 1], i)
        /\ k \in Nat /\ k >= 1
    <3>1. g = [i \in 0 .. k - 1 |-> IF i = 0 THEN {NewBlock} ELSE next(g[i - 1], i)]
      BY <2>1 DEF Histories
    <3>. HIDE DEF next
    <3>2. ASSUME NEW i \in 0 .. k - 1
          PROVE  g[i] = IF i = 0 THEN {NewBlock} ELSE next(g[i - 1], i)
      BY <3>1
    <3>3. k \in Nat /\ k >= 1  OBVIOUS
    <3>. QED  BY <3>2, <3>3
  <2>. DEFINE f == [i \in 0 .. k |-> IF i = k THEN next(g[k - 1], k) ELSE g[i]]
  <2>. HIDE DEF next
  <2>3. \A i \in 0 .. k : i - 1 \in 0 .. k => f[i - 1] = g[i - 1]  BY <2>2
  <2>4. \A i \in 0 .. k : f[i] = IF i = 0 THEN {NewBlock} ELSE next(f[i - 1], i)
    <3>. SUFFICES ASSUME NEW i \in 0 .. k
                  PROVE  f[i] = IF i = 0 THEN {NewBlock} ELSE next(f[i - 1], i)
      OBVIOUS
    <3>1. CASE i = k
      <4>1. f[i - 1] = g[k - 1]  BY <2>2, <2>3, <3>1
      <4>. QED  BY <2>2, <3>1, <4>1
    <3>2. CASE i = 0  BY <2>2, <3>2
    <3>3. CASE i # k /\ i # 0
      <4>1. i \in 0 .. k - 1 /\ i - 1 \in 0 .. k  BY <2>2, <3>3
      <4>. QED  BY <2>2, <2>3, <3>3, <4>1
    <3>. QED  BY <3>1, <3>2, <3>3
  <2>5. f = [i \in 0 .. k |-> f[i]]  OBVIOUS
  <2>. HIDE DEF f
  <2>6. f = [i \in 0 .. k |-> IF i = 0 THEN {NewBlock} ELSE next(f[i - 1], i)]
    BY <2>4, <2>5
  <2>7. Histories(f, k, history)  BY <2>6 DEF Histories, next
  <2>. QED  BY <2>2, <2>7
<1>. HIDE DEF K
<1>3. 0 .. n \subseteq K  BY <1>1, <1>2, Upwards
<1>4. n \in K  BY <1>3
<1>. QED  BY <1>4 DEF K

\* Every block that an earlier history leaves is sound.
LEMMA EarlierIs ==
    ASSUME NEW history \in Seq(Int), NEW c \in Earlier(history)
    PROVE  Still(c)
<1>. DEFINE n == Len(history)
            next(A, i) == {Called(d, history[i]) : d \in A}
            is(f) == f = [i \in 0 .. n |-> IF i = 0 THEN {NewBlock} ELSE next(f[i - 1], i)]
<1>1. n \in Nat  BY LenProperties
<1>2. \E f : is(f)
  <2>. HIDE DEF n
  <2>1. \E f : Histories(f, n, history)  BY <1>1, HistoriesExist
  <2>. QED  BY <2>1 DEF Histories
<1>3. PICK f : is(f) /\ Earlier(history) = f[n]
  <2>. DEFINE g == CHOOSE f : is(f)
  <2>1. is(g)
    <3>. HIDE DEF is
    <3>. QED  BY <1>2
  <2>2. Earlier(history) = g[n]  BY DEF Earlier
  <2>. HIDE DEF g
  <2>. QED  BY <2>1, <2>2
<1>. DEFINE S == {i \in Nat : \A d \in f[i] : Still(d)}
<1>4. /\ f[0] = {NewBlock}
      /\ \A i \in 1 .. n : f[i] = next(f[i - 1], i)
  <2>. HIDE DEF n, next
  <2>1. f = [i \in 0 .. n |-> IF i = 0 THEN {NewBlock} ELSE next(f[i - 1], i)]  BY <1>3
  <2>2. ASSUME NEW i \in 0 .. n
        PROVE  f[i] = IF i = 0 THEN {NewBlock} ELSE next(f[i - 1], i)
    BY <2>1
  <2>3. 0 \in 0 .. n /\ \A i \in 1 .. n : i \in 0 .. n /\ i # 0  BY <1>1
  <2>. QED  BY <2>2, <2>3
<1>5. \A i \in 1 .. n : history[i] \in Int  BY ElementOfSeq
<1>. HIDE DEF n, is
<1>6. 0 \in S  BY <1>4, NewBlockIs DEF Still
<1>7. ASSUME NEW i \in 0 + 1 .. n, i - 1 \in S PROVE i \in S
  <2>1. i \in 1 .. n /\ i \in Nat  OBVIOUS
  <2>2. ASSUME NEW d \in f[i] PROVE Still(d)
    <3>1. PICK e \in f[i - 1] : d = Called(e, history[i])  BY <1>4, <2>1
    <3>2. Still(e)  BY <1>7
    <3>. QED  BY <1>5, <2>1, <3>1, <3>2, CalledIs
  <2>. QED  BY <2>1, <2>2
<1>. HIDE DEF S
<1>8. 0 .. n \subseteq S  BY <1>1, <1>6, <1>7, Upwards
<1>9. n \in S  BY <1>1, <1>8
<1>. QED  BY <1>3, <1>9 DEF S

-----------------------------------------------------------------------------
(* What a holder does with the pairs of an event: two folds, which are     *)
(* instances of one, since a lemma takes no operator as a parameter.       *)

Stepped(kind, x, pair) == IF kind = "name" THEN Renamed(x, pair) ELSE Followed(x, pair)

\* the function that the library's fold defines by recursion on sets of places
Stepping(f, T, kind, base, s) ==
    f = [S \in SUBSET T |->
            IF S = {} THEN base ELSE Stepped(kind, f[S \ {Max(S)}], s[Max(S)])]

\* the values of the fold after each pair
Walk(m, kind, base, s) ==
    m[0] = base /\ \A k \in 1 .. Len(s) : m[k] = Stepped(kind, m[k - 1], s[k])

\* The recursion that applies pairs defines a value for every prefix.
LEMMA SteppingExists ==
    ASSUME NEW n \in Nat, NEW kind, NEW base, NEW s
    PROVE  \E f : Stepping(f, 1 .. n, kind, base, s)
<1>. DEFINE K == {k \in Nat : \E f : Stepping(f, 1 .. k, kind, base, s)}
            op(x, y) == Stepped(kind, x, y)
<1>1. 0 \in K
  <2>. DEFINE f == [S \in SUBSET (1 .. 0) |-> base]
  <2>1. \A S \in SUBSET (1 .. 0) : S = {}  OBVIOUS
  <2>2. Stepping(f, 1 .. 0, kind, base, s)  BY <2>1 DEF Stepping
  <2>. QED  BY <2>2
<1>2. ASSUME NEW k \in 0 + 1 .. n, k - 1 \in K PROVE k \in K
  <2>1. PICK g : Stepping(g, 1 .. k - 1, kind, base, s)  BY <1>2
  <2>. DEFINE f == [S \in SUBSET (1 .. k) |->
                      IF k \in S THEN op(g[S \ {k}], s[k]) ELSE g[S]]
  <2>2. ASSUME NEW S \in SUBSET (1 .. k)
        PROVE  f[S] = IF S = {} THEN base ELSE op(f[S \ {Max(S)}], s[Max(S)])
    <3>1. CASE k \in S
      <4>1. Max(S) = k  BY <3>1, MaxOf
      <4>2. /\ S \ {k} \in SUBSET (1 .. k - 1) /\ S \ {k} \in SUBSET (1 .. k)
            /\ k \notin S \ {k}
        OBVIOUS
      <4>3. f[S \ {k}] = g[S \ {k}]  BY <4>2
      <4>. QED  BY <3>1, <4>1, <4>3
    <3>2. CASE k \notin S
      <4>1. S \in SUBSET (1 .. k - 1)  BY <3>2
      <4>2. f[S] = g[S]  BY <3>2
      <4>3. CASE S = {}  BY <2>1, <4>1, <4>2, <4>3 DEF Stepping
      <4>4. CASE S # {}
        <5>1. Max(S) \in S  BY <4>4, MaxIn
        <5>2. k \notin S \ {Max(S)} /\ S \ {Max(S)} \in SUBSET (1 .. k)  BY <3>2
        <5>3. f[S \ {Max(S)}] = g[S \ {Max(S)}]  BY <5>2
        <5>4. g[S] = op(g[S \ {Max(S)}], s[Max(S)])  BY <2>1, <4>1, <4>4 DEF Stepping
        <5>. QED  BY <4>2, <4>4, <5>3, <5>4
      <4>. QED  BY <4>3, <4>4
    <3>. QED  BY <3>1, <3>2
  <2>3. f = [S \in SUBSET (1 .. k) |-> f[S]]  OBVIOUS
  <2>4. Stepping(f, 1 .. k, kind, base, s)
    <3>. HIDE DEF f
    <3>. QED  BY <2>2, <2>3 DEF Stepping
  <2>. HIDE DEF f
  <2>. QED  BY <2>4
<1>. HIDE DEF K
<1>3. 0 .. n \subseteq K  BY <1>1, <1>2, Upwards
<1>4. n \in K  BY <1>3
<1>. QED  BY <1>4 DEF K

\* There is such a function, and it passes through the pairs in order.
LEMMA SteppingWalks ==
    ASSUME NEW T, NEW s \in Seq(T), NEW kind, NEW base
    PROVE  /\ \E f : Stepping(f, DOMAIN s, kind, base, s)
           /\ \A f : Stepping(f, DOMAIN s, kind, base, s) =>
                \E m : Walk(m, kind, base, s) /\ f[DOMAIN s] = m[Len(s)]
<1>. DEFINE n == Len(s)
<1>1. n \in Nat /\ DOMAIN s = 1 .. n  BY LenProperties
<1>2. ASSUME NEW f, Stepping(f, DOMAIN s, kind, base, s)
      PROVE  \E m : Walk(m, kind, base, s) /\ f[DOMAIN s] = m[Len(s)]
  <2>. DEFINE m == [k \in 0 .. n |-> f[1 .. k]]
  <2>1. Stepping(f, 1 .. n, kind, base, s)  BY <1>1, <1>2
  <2>. HIDE DEF n
  <2>2. m[0] = base /\ f[DOMAIN s] = m[n]
    <3>1. 1 .. 0 = {} /\ 0 \in 0 .. n /\ n \in 0 .. n  BY <1>1
    <3>. QED  BY <1>1, <2>1, <3>1 DEF Stepping
  <2>3. ASSUME NEW k \in 1 .. n PROVE m[k] = Stepped(kind, m[k - 1], s[k])
    <3>1. k \in Nat /\ k >= 1 /\ 1 .. k \in SUBSET (1 .. n) /\ k - 1 \in 0 .. n /\ k \in 0 .. n
      BY <1>1
    <3>2. k \in 1 .. k /\ 1 .. k # {} /\ (1 .. k) \ {k} = 1 .. k - 1  BY <3>1, UpToIs
    <3>3. Max(1 .. k) = k  BY <3>1, <3>2, MaxOf
    <3>4. f[1 .. k] = Stepped(kind, f[1 .. k - 1], s[k])
      BY <2>1, <3>1, <3>2, <3>3 DEF Stepping
    <3>. QED  BY <3>1, <3>4
  <2>. HIDE DEF m
  <2>. QED  BY <2>2, <2>3 DEF Walk, n
<1>3. \E f : Stepping(f, DOMAIN s, kind, base, s)
  <2>. HIDE DEF n
  <2>. QED  BY <1>1, SteppingExists
<1>. QED  BY <1>2, <1>3

\* The fold of the holder's renames is that recursion.
LEMMA RenamesWalk ==
    ASSUME NEW T, NEW s \in Seq(T), NEW h
    PROVE  \E m : Walk(m, "name", h, s) /\ FoldLeft(Renamed, h, s) = m[Len(s)]
<1>. DEFINE is(f) == f = [S \in SUBSET DOMAIN s |->
                            IF S = {} THEN h ELSE Renamed(f[S \ {Max(S)}], s[Max(S)])]
<1>1. \A x, y : Stepped("name", x, y) = Renamed(x, y)  BY DEF Stepped
<1>2. \A f : is(f) <=> Stepping(f, DOMAIN s, "name", h, s)  BY <1>1 DEF Stepping
<1>3. \E f : is(f)
  <2>. HIDE DEF is
  <2>. QED  BY <1>2, SteppingWalks
<1>4. PICK f : is(f) /\ FoldLeft(Renamed, h, s) = f[DOMAIN s]
  BY <1>3 DEF FoldLeft, MapThenFoldSet
<1>. HIDE DEF is
<1>. QED  BY <1>2, <1>4, SteppingWalks

\* The fold that follows one position is that recursion.
LEMMA FollowsWalk ==
    ASSUME NEW T, NEW s \in Seq(T), NEW p
    PROVE  \E m : Walk(m, "place", p, s) /\ FoldLeft(Followed, p, s) = m[Len(s)]
<1>. DEFINE is(f) == f = [S \in SUBSET DOMAIN s |->
                            IF S = {} THEN p ELSE Followed(f[S \ {Max(S)}], s[Max(S)])]
<1>1. \A x, y : Stepped("place", x, y) = Followed(x, y)  BY DEF Stepped
<1>2. \A f : is(f) <=> Stepping(f, DOMAIN s, "place", p, s)  BY <1>1 DEF Stepping
<1>3. \E f : is(f)
  <2>. HIDE DEF is
  <2>. QED  BY <1>2, SteppingWalks
<1>4. PICK f : is(f) /\ FoldLeft(Followed, p, s) = f[DOMAIN s]
  BY <1>3 DEF FoldLeft, MapThenFoldSet
<1>. HIDE DEF is
<1>. QED  BY <1>2, <1>4, SteppingWalks

\* A position follows the pairs to where its element went.
LEMMA FollowsTo ==
    ASSUME NEW a, Good(a), NEW m, NEW pairs, NEW cap, Unravelled(a, m, pairs, cap),
           NEW p \in Live(a)
    PROVE  FoldLeft(Followed, p, pairs) = m[p]
<1>. DEFINE n == Len(pairs)
<1>1. pairs \in Seq(Live(a) \X (0 .. cap - 1))  BY DEF Unravelled
<1>2. PICK w : Walk(w, "place", p, pairs) /\ FoldLeft(Followed, p, pairs) = w[n]
  BY <1>1, FollowsWalk
<1>3. n \in Nat /\ DOMAIN pairs = 1 .. n  BY <1>1, LenProperties
<1>4. w[0] = p /\ \A k \in 1 .. n : w[k] = Followed(w[k - 1], pairs[k])
  BY <1>2 DEF Walk, Stepped
<1>. HIDE DEF n
<1>5. /\ \A i \in 1 .. n : pairs[i][2] = m[pairs[i][1]]
      /\ \A i, j \in 1 .. n : pairs[i][1] = pairs[j][1] => i = j
      /\ \A i, j \in 1 .. n : pairs[j][1] = pairs[i][2] => j < i
      /\ m[p] # p => \E i \in 1 .. n : pairs[i][1] = p
  BY <1>3 DEF Unravelled
<1>. DEFINE none(k) == \A j \in 1 .. k : pairs[j][1] # p
            some(k) == \E j \in 1 .. k : pairs[j][1] = p
            S == {k \in Nat : (w[k] = p /\ none(k)) \/ (w[k] = m[p] /\ some(k))}
<1>6. 0 \in S  BY <1>4
<1>7. ASSUME NEW k \in 0 + 1 .. n, k - 1 \in S PROVE k \in S
  <2>1. k \in 1 .. n /\ k \in Nat /\ \A j \in 1 .. k : j \in 1 .. n /\ (j = k \/ j \in 1 .. k - 1)
    BY <1>3
  <2>2. w[k] = IF w[k - 1] = pairs[k][1] THEN pairs[k][2] ELSE w[k - 1]
    BY <1>4, <2>1 DEF Followed
  <2>3. CASE w[k - 1] = p /\ none(k - 1)
    <3>1. CASE pairs[k][1] = p
      <4>1. w[k] = m[p]  BY <1>5, <2>1, <2>2, <2>3, <3>1
      <4>2. k \in 1 .. k  BY <2>1
      <4>. QED  BY <2>1, <3>1, <4>1, <4>2
    <3>2. CASE pairs[k][1] # p
      <4>1. w[k] = p /\ none(k)  BY <2>1, <2>2, <2>3, <3>2
      <4>. QED  BY <2>1, <4>1
    <3>. QED  BY <3>1, <3>2
  <2>4. CASE w[k - 1] = m[p] /\ some(k - 1)
    <3>1. PICK j \in 1 .. k - 1 : pairs[j][1] = p  BY <2>4
    <3>2. j \in 1 .. n /\ j \in 1 .. k /\ ~(k < j)  BY <1>3, <2>1
    <3>3. pairs[j][2] = m[p]  BY <1>5, <3>1, <3>2
    <3>4. pairs[k][1] # m[p]  BY <1>5, <2>1, <3>2, <3>3
    <3>5. w[k] = m[p]  BY <2>2, <2>4, <3>4
    <3>. QED  BY <2>1, <3>1, <3>2, <3>5
  <2>. QED  BY <1>7, <2>3, <2>4
<1>. HIDE DEF S
<1>8. 0 .. n \subseteq S  BY <1>3, <1>6, <1>7, Upwards
<1>9. n \in S  BY <1>3, <1>8
<1>. QED  BY <1>2, <1>5, <1>9 DEF S

\* An empty list leads nowhere.
LEMMA FollowsNone ==
    ASSUME NEW p
    PROVE  FoldLeft(Followed, p, <<>>) = p
<1>1. <<>> \in Seq(Nat) /\ Len(<<>>) = 0  OBVIOUS
<1>2. PICK w : Walk(w, "place", p, <<>>) /\ FoldLeft(Followed, p, <<>>) = w[Len(<<>>)]
  BY <1>1, FollowsWalk
<1>. QED  BY <1>1, <1>2 DEF Walk

-----------------------------------------------------------------------------
(* A holder of names.                                                      *)

\* the pairs have sources of their own, and none leads to where a later starts
Chained(pairs) ==
    /\ \A i, j \in DOMAIN pairs : pairs[i][1] = pairs[j][1] => i = j
    /\ \A i, j \in DOMAIN pairs : pairs[j][1] = pairs[i][2] => j < i

\* the pairs after the n-th bring the names h of keys of c up to date
Owing(c, h, pairs, n) ==
    /\ DOMAIN h \subseteq KeysOf(c) /\ h = [k \in DOMAIN h |-> h[k]]
    /\ \A k, x \in DOMAIN h : k # x => h[k] # h[x]
    /\ \A k \in DOMAIN h :
          \/ \E i \in DOMAIN pairs : n < i /\ pairs[i] = <<h[k], NameOf(c, k)>>
          \/ /\ \A i \in DOMAIN pairs : n < i => pairs[i][1] # h[k]
             /\ h[k] = NameOf(c, k)

\* the same of any names, t
Owes(t, h, pairs, n) ==
    /\ DOMAIN h \subseteq DOMAIN t /\ h = [k \in DOMAIN h |-> h[k]]
    /\ \A k, x \in DOMAIN h : k # x => h[k] # h[x]
    /\ \A k \in DOMAIN h :
          \/ \E i \in DOMAIN pairs : n < i /\ pairs[i] = <<h[k], t[k]>>
          \/ /\ \A i \in DOMAIN pairs : n < i => pairs[i][1] # h[k]
             /\ h[k] = t[k]

\* Each key has a name of its own, by which its slot is found.
LEMMA NameIs ==
    ASSUME NEW c, Good(c), NEW k \in KeysOf(c)
    PROVE  /\ NameOf(c, k) \in Names /\ A2P(c.tr, NameOf(c, k)) = PosOf(c, k)
           /\ \A x \in KeysOf(c) : NameOf(c, x) = NameOf(c, k) => x = k
<1>1. c.tr \in Translator /\ 0 .. c.cap - 1 \subseteq Names  BY GoodTypes
<1>2. \A x \in KeysOf(c) : PosOf(c, x) \in Names /\ KeyAt(c, PosOf(c, x)) = x
  BY <1>1, KeyIs
<1>3. ASSUME NEW x \in KeysOf(c), NameOf(c, x) = NameOf(c, k) PROVE x = k
  <2>1. PosOf(c, x) = PosOf(c, k)  BY <1>1, <1>2, <1>3, NameOnce DEF NameOf
  <2>. QED  BY <1>2, <2>1
<1>. QED  BY <1>1, <1>2, <1>3, NamesAndSlots DEF NameOf

\* The next pair renames the one entry that it is for, if that is still held.
LEMMA OwesNext ==
    ASSUME NEW t, IsInjective(t), NEW h, NEW pairs, Chained(pairs), NEW n \in Nat,
           DOMAIN pairs \subseteq Nat, n + 1 \in DOMAIN pairs, Owes(t, h, pairs, n)
    PROVE  /\ Owes(t, Renamed(h, pairs[n + 1]), pairs, n + 1)
           /\ DOMAIN Renamed(h, pairs[n + 1]) = DOMAIN h
<1>. DEFINE D == DOMAIN h
            u == n + 1
            pair == pairs[u]
            named == {k \in D : h[k] = pair[1]}
            g == Renamed(h, pair)
            name(k) == t[k]
            P == DOMAIN pairs
<1>1. /\ D \subseteq DOMAIN t /\ h = [k \in D |-> h[k]]
      /\ \A k, x \in D : k # x => h[k] # h[x]
      /\ \A k \in D :
          \/ \E i \in P : n < i /\ pairs[i] = <<h[k], name(k)>>
          \/ /\ \A i \in P : n < i => pairs[i][1] # h[k]
             /\ h[k] = name(k)
  BY DEF Owes
<1>2. /\ \A i, j \in P : pairs[i][1] = pairs[j][1] => i = j
      /\ \A i, j \in P : pairs[j][1] = pairs[i][2] => j < i
  BY DEF Chained
<1>3. u \in P /\ P \subseteq Nat /\ u \in Nat /\ n < u
      /\ \A i \in P : n < i <=> u < i \/ i = u
  <2>1. \A i \in Nat : n < i <=> u < i \/ i = u  OBVIOUS
  <2>. QED  BY <2>1
<1>4. \A k, x \in D : name(k) = name(x) => k = x  BY <1>1 DEF IsInjective
<1>. HIDE DEF u, D, P, name
<1>5. CASE named = {}
  <2>1. g = h  BY <1>5 DEF Renamed, D
  <2>2. \A k \in D : h[k] # pair[1]  BY <1>5
  <2>3. ASSUME NEW k \in D
        PROVE  \/ \E i \in P : u < i /\ pairs[i] = <<h[k], name(k)>>
               \/ (\A i \in P : u < i => pairs[i][1] # h[k]) /\ h[k] = name(k)
    <3>1. CASE \E i \in P : n < i /\ pairs[i] = <<h[k], name(k)>>
      <4>1. PICK i \in P : n < i /\ pairs[i] = <<h[k], name(k)>>  BY <3>1
      <4>2. i # u  BY <2>2, <4>1
      <4>. QED  BY <1>3, <4>1, <4>2
    <3>2. CASE (\A i \in P : n < i => pairs[i][1] # h[k]) /\ h[k] = name(k)
      BY <1>3, <3>2
    <3>. QED  BY <1>1, <3>1, <3>2
  <2>4. Owes(t, h, pairs, u)
    BY <1>1, <2>3 DEF Owes, D, P, name
  <2>. QED  BY <2>1, <2>4 DEF u
<1>6. CASE named # {}
  <2>. DEFINE z == CHOOSE k \in named : TRUE
              to == pair[2]
  <2>1. z \in D /\ h[z] = pair[1]
    <3>1. z \in named  BY <1>6
    <3>. HIDE DEF z
    <3>. QED  BY <3>1
  <2>2. g = [h EXCEPT ![z] = to]  BY <1>6 DEF Renamed, D
  <2>. HIDE DEF z, g
  <2>3. /\ DOMAIN g = D /\ g = [k \in D |-> g[k]]
        /\ \A k \in D : g[k] = IF k = z THEN to ELSE h[k]
    <3>1. g = [k \in D |-> IF k = z THEN to ELSE h[k]]  BY <1>1, <2>2
    <3>. QED  BY <3>1
  <2>4. to = name(z)
    <3>1. PICK i \in P : n < i /\ pairs[i] = <<h[z], name(z)>>
      BY <1>1, <1>3, <2>1
    <3>2. i = u  BY <1>2, <1>3, <2>1, <3>1
    <3>. QED  BY <3>1, <3>2
  <2>5. \A k \in D : k # z => h[k] # pair[1]  BY <1>1, <2>1
  <2>6. \A j \in P : n < j => pairs[j][1] # to
    <3>. SUFFICES ASSUME NEW j \in P, n < j, pairs[j][1] = to PROVE FALSE  OBVIOUS
    <3>1. j < u  BY <1>2, <1>3
    <3>. QED  BY <1>3, <3>1
  <2>7. ASSUME NEW k \in D, k # z PROVE h[k] # to
    <3>. SUFFICES ASSUME h[k] = to PROVE FALSE  OBVIOUS
    <3>1. CASE \E i \in P : n < i /\ pairs[i] = <<h[k], name(k)>>  BY <2>6, <3>1
    <3>2. CASE h[k] = name(k)  BY <1>4, <2>1, <2>4, <2>7, <3>2
    <3>. QED  BY <1>1, <3>1, <3>2
  <2>8. ASSUME NEW k \in D
        PROVE  \/ \E i \in P : u < i /\ pairs[i] = <<g[k], name(k)>>
               \/ (\A i \in P : u < i => pairs[i][1] # g[k]) /\ g[k] = name(k)
    <3>1. CASE k = z  BY <1>3, <2>3, <2>4, <2>6, <3>1
    <3>2. CASE k # z /\ \E i \in P : n < i /\ pairs[i] = <<h[k], name(k)>>
      <4>1. PICK i \in P : n < i /\ pairs[i] = <<h[k], name(k)>>  BY <3>2
      <4>2. i # u  BY <2>5, <3>2, <4>1
      <4>. QED  BY <1>3, <2>3, <3>2, <4>1, <4>2
    <3>3. CASE k # z /\ (\A i \in P : n < i => pairs[i][1] # h[k]) /\ h[k] = name(k)
      BY <1>3, <2>3, <3>3
    <3>. QED  BY <1>1, <3>1, <3>2, <3>3
  <2>9. \A k, x \in D : k # x => g[k] # g[x]  BY <1>1, <2>3, <2>7
  <2>10. Owes(t, g, pairs, u)
    BY <1>1, <2>3, <2>8, <2>9 DEF Owes, D, P, name
  <2>. QED  BY <2>3, <2>10 DEF u, D, g
<1>. QED  BY <1>5, <1>6

\* What is owed to the names of a block is owed to its names, as any function.
LEMMA OwingIs ==
    ASSUME NEW c, NEW h, NEW pairs, NEW n
    PROVE  Owing(c, h, pairs, n) <=> Owes([k \in KeysOf(c) |-> NameOf(c, k)], h, pairs, n)
<1>. DEFINE t == [k \in KeysOf(c) |-> NameOf(c, k)]
<1>1. DOMAIN t = KeysOf(c) /\ \A k \in KeysOf(c) : t[k] = NameOf(c, k)  OBVIOUS
<1>. HIDE DEF t
<1>2. ASSUME Owing(c, h, pairs, n) PROVE Owes(t, h, pairs, n)
  <2>1. \A k \in DOMAIN h : t[k] = NameOf(c, k)  BY <1>1, <1>2 DEF Owing
  <2>. QED  BY <1>1, <1>2, <2>1 DEF Owing, Owes
<1>3. ASSUME Owes(t, h, pairs, n) PROVE Owing(c, h, pairs, n)
  <2>1. \A k \in DOMAIN h : t[k] = NameOf(c, k)  BY <1>1, <1>3 DEF Owes
  <2>. QED  BY <1>1, <1>3, <2>1 DEF Owing, Owes
<1>. QED  BY <1>2, <1>3 DEF t

\* Taking the next pair leaves one pair less owing to a block.
LEMMA RenamedOwes ==
    ASSUME NEW c, Good(c), NEW h, NEW pairs, Chained(pairs), NEW n \in Nat,
           DOMAIN pairs \subseteq Nat, n + 1 \in DOMAIN pairs, Owing(c, h, pairs, n)
    PROVE  /\ Owing(c, Renamed(h, pairs[n + 1]), pairs, n + 1)
           /\ DOMAIN Renamed(h, pairs[n + 1]) = DOMAIN h
<1>. DEFINE t == [k \in KeysOf(c) |-> NameOf(c, k)]
<1>1. IsInjective(t)  BY NameIs DEF IsInjective
<1>2. Owes(t, h, pairs, n)  BY OwingIs
<1>. HIDE DEF t
<1>3. /\ Owes(t, Renamed(h, pairs[n + 1]), pairs, n + 1)
      /\ DOMAIN Renamed(h, pairs[n + 1]) = DOMAIN h
  BY <1>1, <1>2, OwesNext
<1>. QED  BY <1>3, OwingIs DEF t

\* With no pair left, the names are up to date.
LEMMA OwedOut ==
    ASSUME NEW c, NEW h, NEW pairs, NEW n, Owing(c, h, pairs, n),
           \A i \in DOMAIN pairs : ~(n < i)
    PROVE  \A k \in DOMAIN h : h[k] = NameOf(c, k)
BY DEF Owing

\* Names that are up to date need no pairs.
LEMMA OwingNone ==
    ASSUME NEW c, Good(c), NEW h, DOMAIN h \subseteq KeysOf(c), NEW n,
           h = [k \in DOMAIN h |-> h[k]], \A k \in DOMAIN h : h[k] = NameOf(c, k)
    PROVE  Owing(c, h, <<>>, n)
<1>1. \A k, x \in DOMAIN h : k # x => h[k] # h[x]  BY NameIs
<1>. QED  BY <1>1 DEF Owing

\* The rest of the pairs, as a list.
LEMMA OwingTail ==
    ASSUME NEW T, NEW pairs \in Seq(T), pairs # <<>>, NEW c, NEW h, Owing(c, h, pairs, 1),
           Chained(pairs)
    PROVE  Owing(c, h, Tail(pairs), 0) /\ Chained(Tail(pairs)) /\ Tail(pairs) \in Seq(T)
<1>. DEFINE n == Len(pairs)
            rest == Tail(pairs)
<1>1. n \in Nat /\ n >= 1 /\ DOMAIN pairs = 1 .. n
  BY LenProperties, EmptySeq
<1>2. rest \in Seq(T) /\ DOMAIN rest = 1 .. n - 1 /\ \A i \in 1 .. n - 1 : rest[i] = pairs[i + 1]
  <2>1. rest \in Seq(T) /\ Len(rest) = n - 1 /\ \A i \in 1 .. Len(rest) : rest[i] = pairs[i + 1]
    BY HeadTailProperties
  <2>2. DOMAIN rest = 1 .. Len(rest)  BY <2>1, LenProperties
  <2>. QED  BY <2>1, <2>2
<1>. HIDE DEF n, rest
<1>3. Chained(rest)
  <2>1. \A i \in 1 .. n - 1 : i \in Nat /\ i + 1 \in 1 .. n  BY <1>1
  <2>2. ASSUME NEW i \in 1 .. n - 1, NEW j \in 1 .. n - 1
        PROVE  /\ rest[i][1] = rest[j][1] => i = j
               /\ rest[j][1] = rest[i][2] => j < i
    <3>1. rest[i] = pairs[i + 1] /\ rest[j] = pairs[j + 1] /\ i + 1 \in 1 .. n
          /\ j + 1 \in 1 .. n /\ i \in Nat /\ j \in Nat
      BY <1>2, <2>1
    <3>2. rest[i][1] = rest[j][1] => i + 1 = j + 1  BY <1>1, <3>1 DEF Chained
    <3>3. rest[j][1] = rest[i][2] => j + 1 < i + 1  BY <1>1, <3>1 DEF Chained
    <3>. QED  BY <3>1, <3>2, <3>3
  <2>. QED  BY <1>2, <2>2 DEF Chained
<1>4. ASSUME NEW k \in DOMAIN h
      PROVE  \/ \E i \in 1 .. n - 1 : 0 < i /\ rest[i] = <<h[k], NameOf(c, k)>>
             \/ /\ \A i \in 1 .. n - 1 : 0 < i => rest[i][1] # h[k]
                /\ h[k] = NameOf(c, k)
  <2>1. CASE \E i \in DOMAIN pairs : 1 < i /\ pairs[i] = <<h[k], NameOf(c, k)>>
    <3>1. PICK i \in 1 .. n : 1 < i /\ pairs[i] = <<h[k], NameOf(c, k)>>  BY <1>1, <2>1
    <3>2. i - 1 \in 1 .. n - 1 /\ (i - 1) + 1 = i /\ 0 < i - 1  BY <1>1, <3>1
    <3>3. rest[i - 1] = pairs[i]  BY <1>2, <3>2
    <3>. QED  BY <3>1, <3>2, <3>3
  <2>2. CASE (\A i \in DOMAIN pairs : 1 < i => pairs[i][1] # h[k]) /\ h[k] = NameOf(c, k)
    <3>1. ASSUME NEW i \in 1 .. n - 1 PROVE rest[i][1] # h[k]
      <4>1. rest[i] = pairs[i + 1] /\ i + 1 \in 1 .. n /\ 1 < i + 1  BY <1>1, <1>2
      <4>. QED  BY <1>1, <2>2, <4>1
    <3>. QED  BY <2>2, <3>1
  <2>. QED  BY <2>1, <2>2 DEF Owing
<1>5. Owing(c, h, rest, 0)  BY <1>2, <1>4 DEF Owing
<1>. QED  BY <1>2, <1>3, <1>5 DEF rest

\* The pairs that are left bring all names up to date.
LEMMA OwesFolds ==
    ASSUME NEW T, NEW pairs \in Seq(T), NEW t, IsInjective(t), NEW h, Owes(t, h, pairs, 0),
           Chained(pairs)
    PROVE  FoldLeft(Renamed, h, pairs) = [k \in DOMAIN h |-> t[k]]
<1>. DEFINE n == Len(pairs)
<1>1. PICK m : Walk(m, "name", h, pairs) /\ FoldLeft(Renamed, h, pairs) = m[n]
  BY RenamesWalk
<1>2. n \in Nat /\ DOMAIN pairs = 1 .. n  BY LenProperties
<1>3. m[0] = h /\ \A k \in 1 .. n : m[k] = Renamed(m[k - 1], pairs[k])
  BY <1>1 DEF Walk, Stepped
<1>. HIDE DEF n
<1>. DEFINE S == {k \in Nat : Owes(t, m[k], pairs, k) /\ DOMAIN m[k] = DOMAIN h}
<1>4. 0 \in S  BY <1>3
<1>5. ASSUME NEW k \in 0 + 1 .. n, k - 1 \in S PROVE k \in S
  <2>. DEFINE i == k - 1
  <2>1. i \in Nat /\ i + 1 = k /\ k \in 1 .. n /\ k \in Nat  BY <1>2
  <2>2. Owes(t, m[i], pairs, i) /\ DOMAIN m[i] = DOMAIN h  BY <1>5
  <2>3. m[k] = Renamed(m[i], pairs[k])  BY <1>3, <2>1
  <2>. HIDE DEF i
  <2>4. DOMAIN pairs \subseteq Nat /\ i + 1 \in DOMAIN pairs  BY <1>2, <2>1
  <2>5. Owes(t, Renamed(m[i], pairs[i + 1]), pairs, i + 1)
        /\ DOMAIN Renamed(m[i], pairs[i + 1]) = DOMAIN m[i]
    BY <2>1, <2>2, <2>4, OwesNext
  <2>. QED  BY <2>1, <2>2, <2>3, <2>5
<1>. HIDE DEF S
<1>6. 0 .. n \subseteq S  BY <1>2, <1>4, <1>5, Upwards
<1>7. n \in S  BY <1>2, <1>6
<1>8. Owes(t, m[n], pairs, n) /\ DOMAIN m[n] = DOMAIN h  BY <1>7 DEF S
<1>9. \A i \in DOMAIN pairs : ~(n < i)  BY <1>2
<1>10. \A k \in DOMAIN m[n] : m[n][k] = t[k]  BY <1>8, <1>9 DEF Owes
<1>11. m[n] = [k \in DOMAIN m[n] |-> m[n][k]]  BY <1>8 DEF Owes
<1>. QED  BY <1>1, <1>8, <1>10, <1>11

\* All pairs applied, the holder has the names that the keys have.
LEMMA OwingFolds ==
    ASSUME NEW T, NEW pairs \in Seq(T), NEW c, Good(c), NEW h, Owing(c, h, pairs, 0),
           Chained(pairs)
    PROVE  FoldLeft(Renamed, h, pairs) = [k \in DOMAIN h |-> NameOf(c, k)]
<1>. DEFINE t == [k \in KeysOf(c) |-> NameOf(c, k)]
<1>1. IsInjective(t)  BY NameIs DEF IsInjective
<1>2. Owes(t, h, pairs, 0)  BY OwingIs
<1>3. \A k \in DOMAIN h : t[k] = NameOf(c, k)  BY DEF Owing
<1>. HIDE DEF t
<1>4. FoldLeft(Renamed, h, pairs) = [k \in DOMAIN h |-> t[k]]  BY <1>1, <1>2, OwesFolds
<1>. QED  BY <1>3, <1>4

\* What keeps the names leaves the rest of the pairs to do, for the keys kept.
LEMMA OwingOn ==
    ASSUME NEW c, NEW h, NEW pairs, NEW n, Owing(c, h, pairs, n),
           NEW d, NEW g, DOMAIN g \subseteq DOMAIN h, g = [k \in DOMAIN g |-> h[k]],
           DOMAIN g \subseteq KeysOf(d), \A k \in DOMAIN g : NameOf(d, k) = NameOf(c, k)
    PROVE  Owing(d, g, pairs, n)
<1>1. \A k \in DOMAIN g : g[k] = h[k] /\ k \in DOMAIN h  OBVIOUS
<1>2. g = [k \in DOMAIN g |-> g[k]]  BY <1>1
<1>3. \A k, x \in DOMAIN g : k # x => g[k] # g[x]  BY <1>1 DEF Owing
<1>4. ASSUME NEW k \in DOMAIN g
      PROVE  \/ \E i \in DOMAIN pairs : n < i /\ pairs[i] = <<g[k], NameOf(d, k)>>
             \/ /\ \A i \in DOMAIN pairs : n < i => pairs[i][1] # g[k]
                /\ g[k] = NameOf(d, k)
  <2>1. g[k] = h[k] /\ k \in DOMAIN h /\ NameOf(d, k) = NameOf(c, k)  BY <1>1
  <2>2. \/ \E i \in DOMAIN pairs : n < i /\ pairs[i] = <<h[k], NameOf(c, k)>>
        \/ /\ \A i \in DOMAIN pairs : n < i => pairs[i][1] # h[k]
           /\ h[k] = NameOf(c, k)
    BY <2>1 DEF Owing
  <2>. QED  BY <2>1, <2>2
<1>. QED  BY <1>2, <1>3, <1>4 DEF Owing

\* What an insert leaves to be pulled.
LEMMA EnteredOwes ==
    ASSUME NEW a, NEW k, NEW c, NEW m, Entered(a, k, c, m), a.event = NoEvent,
           NEW h, DOMAIN h = KeysOf(a), h = [x \in DOMAIN h |-> h[x]],
           \A x \in DOMAIN h : h[x] = NameOf(a, x)
    PROVE  LET pairs == NamePairs(c.event)
           IN  /\ pairs \in Seq(Names \X Names) /\ Chained(pairs) /\ Owing(c, h, pairs, 0)
               /\ ~c.event.pending => c.event = NoEvent /\ pairs = <<>>
<1>. DEFINE pairs == NamePairs(c.event)
<1>1. /\ Good(a) /\ Good(c) /\ KeysOf(a) \subseteq KeysOf(c) /\ c.tr = a.tr
      /\ \A x \in KeysOf(a) : PosOf(c, x) = m[PosOf(a, x)]
  BY DEF Entered
<1>2. /\ a.tr \in Translator /\ Live(a) \subseteq Names /\ 0 .. c.cap - 1 \subseteq Names
      /\ \A x \in KeysOf(a) : PosOf(a, x) \in Live(a)
  BY <1>1, GoodTypes, LiveIs, KeyIs
<1>3. CASE Told(a, m, c.event, c.cap)
  <2>. DEFINE P == c.event.pairs
              n == Len(P)
              tr == a.tr
  <2>1. /\ c.event.tr = tr /\ c.event.pending = TRUE /\ Unravelled(a, m, P, c.cap)
    <3>1. c.event = Event(a.tr, P, c.event.spans) /\ Unravelled(a, m, P, c.cap)
      BY <1>3 DEF Told
    <3>. HIDE DEF P
    <3>. QED  BY <3>1 DEF Event
  <2>2. pairs = [i \in DOMAIN P |-> <<P2A(tr, P[i][1]), P2A(tr, P[i][2])>>]
    BY <2>1 DEF NamePairs
  <2>. HIDE DEF P, tr, pairs
  <2>3. P \in Seq(Live(a) \X (0 .. c.cap - 1))  BY <2>1 DEF Unravelled
  <2>4. n \in Nat /\ DOMAIN P = 1 .. n /\ \A i \in 1 .. n : P[i] \in Live(a) \X (0 .. c.cap - 1)
    BY <2>3, LenProperties, ElementOfSeq
  <2>. HIDE DEF n
  <2>5. \A i \in 1 .. n : /\ P[i][1] \in Live(a) /\ P[i][1] \in Names /\ P[i][2] \in Names
    <3>1. \A i \in 1 .. n : P[i][1] \in Live(a) /\ P[i][2] \in 0 .. c.cap - 1  BY <2>4
    <3>. QED  BY <3>1, <1>2
  <2>6. tr \in Translator /\ tr = c.tr  BY <1>1, <1>2 DEF tr
  <2>7. \A i \in 1 .. n : /\ pairs[i] = <<P2A(tr, P[i][1]), P2A(tr, P[i][2])>>
                          /\ pairs[i][1] = P2A(tr, P[i][1]) /\ pairs[i][2] = P2A(tr, P[i][2])
                          /\ pairs[i] \in Names \X Names
    <3>. SUFFICES ASSUME NEW i \in 1 .. n
                  PROVE  /\ pairs[i] = <<P2A(tr, P[i][1]), P2A(tr, P[i][2])>>
                         /\ pairs[i][1] = P2A(tr, P[i][1]) /\ pairs[i][2] = P2A(tr, P[i][2])
                         /\ pairs[i] \in Names \X Names
      OBVIOUS
    <3>1. pairs[i] = <<P2A(tr, P[i][1]), P2A(tr, P[i][2])>>  BY <2>2, <2>4
    <3>2. P2A(tr, P[i][1]) \in Names /\ P2A(tr, P[i][2]) \in Names
      BY <2>5, <2>6, NamesAndSlots
    <3>. QED  BY <3>1, <3>2
  <2>8. pairs \in Seq(Names \X Names) /\ DOMAIN pairs = 1 .. n
    <3>1. pairs \in [1 .. n -> Names \X Names]
      <4>1. pairs = [i \in 1 .. n |-> pairs[i]]  BY <2>2, <2>4, <2>7
      <4>. QED  BY <2>7, <4>1
    <3>. QED  BY <2>4, <3>1, ListOf
  <2>9. /\ \A i \in 1 .. n : P[i][2] = m[P[i][1]]
        /\ \A i, j \in 1 .. n : P[i][1] = P[j][1] => i = j
        /\ \A i, j \in 1 .. n : P[j][1] = P[i][2] => j < i
        /\ \A p \in Live(a) : m[p] # p => \E i \in 1 .. n : P[i][1] = p
    BY <2>1, <2>4 DEF Unravelled
  <2>10. Chained(pairs)
    <3>1. ASSUME NEW i \in 1 .. n, NEW j \in 1 .. n, pairs[i][1] = pairs[j][1] PROVE i = j
      <4>1. P[i][1] = P[j][1]  BY <2>5, <2>6, <2>7, <3>1, NameOnce
      <4>. QED  BY <2>9, <4>1
    <3>2. ASSUME NEW i \in 1 .. n, NEW j \in 1 .. n, pairs[j][1] = pairs[i][2] PROVE j < i
      <4>1. P[j][1] = P[i][2]  BY <2>5, <2>6, <2>7, <3>2, NameOnce
      <4>. QED  BY <2>9, <4>1
    <3>. QED  BY <2>8, <3>1, <3>2 DEF Chained
  <2>11. ASSUME NEW x \in KeysOf(a)
         PROVE  \/ \E i \in DOMAIN pairs : 0 < i /\ pairs[i] = <<h[x], NameOf(c, x)>>
                \/ /\ \A i \in DOMAIN pairs : 0 < i => pairs[i][1] # h[x]
                   /\ h[x] = NameOf(c, x)
    <3>. DEFINE p == PosOf(a, x)
    <3>1. p \in Live(a) /\ p \in Names /\ h[x] = P2A(tr, p) /\ NameOf(c, x) = P2A(tr, m[p])
      BY <1>1, <1>2, <2>6 DEF NameOf
    <3>. HIDE DEF p
    <3>2. CASE \E i \in 1 .. n : P[i][1] = p
      <4>1. PICK i \in 1 .. n : P[i][1] = p  BY <3>2
      <4>2. pairs[i] = <<h[x], NameOf(c, x)>>  BY <2>7, <2>9, <3>1, <4>1
      <4>. QED  BY <2>4, <2>8, <4>2
    <3>3. CASE ~\E i \in 1 .. n : P[i][1] = p
      <4>1. h[x] = NameOf(c, x)  BY <2>9, <3>1, <3>3
      <4>2. ASSUME NEW i \in 1 .. n PROVE pairs[i][1] # h[x]
        <5>1. P[i][1] # p /\ P[i][1] \in Names /\ pairs[i][1] = P2A(tr, P[i][1])
          BY <2>5, <2>7, <3>3
        <5>. QED  BY <2>6, <3>1, <5>1, NameOnce
      <4>. QED  BY <2>8, <4>1, <4>2
    <3>. QED  BY <3>2, <3>3
  <2>12. \A x, y \in DOMAIN h : x # y => h[x] # h[y]  BY <1>1, NameIs
  <2>13. Owing(c, h, pairs, 0)  BY <1>1, <2>11, <2>12 DEF Owing
  <2>. QED  BY <2>1, <2>8, <2>10, <2>13 DEF pairs
<1>4. CASE c.event = NoEvent /\ \A p \in Live(a) : m[p] = p
  <2>1. pairs = <<>>  BY <1>4 DEF NamePairs, NoEvent
  <2>2. \A x \in KeysOf(a) : NameOf(c, x) = NameOf(a, x)  BY <1>1, <1>2, <1>4 DEF NameOf
  <2>3. Owing(c, h, <<>>, 0)  BY <1>1, <2>2, OwingNone
  <2>4. <<>> \in Seq(Names \X Names) /\ Chained(<<>>)  BY DEF Chained
  <2>. QED  BY <1>4, <2>1, <2>3, <2>4
<1>. QED  BY <1>3, <1>4 DEF Entered

-----------------------------------------------------------------------------
(* The invariant.                                                          *)

\* the key just inserted, if it is still there
FreshKeys == IF fresh = <<>> THEN {} ELSE {fresh[1]}

\* what an entry to be kept is
FreshNames(c, entry, h) ==
    entry # <<>> => entry = <<entry[1], NameOf(c, entry[1])>> /\ entry[1] \notin DOMAIN h

IInv ==
    /\ Good(b)
    /\ ~b.event.pending => b.event = NoEvent /\ todo = <<>>
    /\ todo \in Seq(Names \X Names) /\ Chained(todo)
    /\ Owing(b, holder, todo, 0)
    /\ KeysOf(b) = DOMAIN holder \union FreshKeys
    /\ FreshNames(b, fresh, holder)

\* A holder starts with the names of the elements there.
LEMMA InitIs == Init => IInv
<1>. SUFFICES ASSUME Init PROVE IInv  OBVIOUS
<1>1. PICK history \in Prefills : b \in Earlier(history)  BY DEF Init
<1>2. history \in Seq(Int)  BY BlockSetAssumption
<1>3. Good(b) /\ b.event = NoEvent  BY <1>1, <1>2, EarlierIs DEF Still
<1>4. /\ DOMAIN holder = KeysOf(b) /\ holder = [k \in DOMAIN holder |-> holder[k]]
      /\ \A k \in DOMAIN holder : holder[k] = NameOf(b, k)
      /\ todo = <<>> /\ fresh = <<>>
  BY DEF Init
<1>5. Owing(b, holder, todo, 0)  BY <1>3, <1>4, OwingNone
<1>6. todo \in Seq(Names \X Names) /\ Chained(todo)  BY <1>4 DEF Chained
<1>. QED  BY <1>3, <1>4, <1>5, <1>6 DEF IInv, FreshKeys, FreshNames

\* With nothing to pull, the holder has the names of the keys.
LEMMA CaughtUp ==
    ASSUME IInv, todo = <<>>
    PROVE  /\ holder = [k \in DOMAIN holder |-> holder[k]] /\ DOMAIN holder \subseteq KeysOf(b)
           /\ \A k \in DOMAIN holder : holder[k] = NameOf(b, k)
           /\ fresh = <<>> => DOMAIN holder = KeysOf(b)
<1>1. Owing(b, holder, todo, 0)  BY DEF IInv
<1>2. \A i \in DOMAIN todo : ~(0 < i)  OBVIOUS
<1>3. \A k \in DOMAIN holder : holder[k] = NameOf(b, k)  BY <1>1, <1>2, OwedOut
<1>. QED  BY <1>1, <1>3 DEF Owing, IInv, FreshKeys

\* After silent moves the holder is still up to date.
LEMMA SilentNames ==
    ASSUME NEW c, Good(c), NEW d, Silent(c, d)
    PROVE  /\ Good(d) /\ KeysOf(d) = KeysOf(c) /\ d.event = c.event
           /\ \A k \in KeysOf(c) : NameOf(d, k) = NameOf(c, k)
BY DEF Silent, SameNames

\* An insert of a key that is not there, with its event still to be drained.
LEMMA InsertKeeps ==
    ASSUME IInv, NEW k \in Keys, Insert(k)
    PROVE  IInv'
<1>1. /\ ~b.event.pending /\ fresh = <<>> /\ Placeable(b, k) /\ b' = Inserted(b, k)
      /\ todo' = NamePairs(b'.event) /\ fresh' = <<k, NameOf(b', k)>> /\ holder' = holder
  BY DEF Insert, Ready
<1>2. Good(b) /\ b.event = NoEvent /\ todo = <<>> /\ k \in Nat
  BY <1>1, BlockSetAssumption DEF IInv
<1>3. /\ holder = [x \in DOMAIN holder |-> holder[x]] /\ DOMAIN holder = KeysOf(b)
      /\ \A x \in DOMAIN holder : holder[x] = NameOf(b, x)
  BY <1>1, <1>2, CaughtUp
<1>. DEFINE c == Inserted(b, k)
<1>4. k \notin KeysOf(b) /\ \E a, m : Silent(b, a) /\ Entered(a, k, c, m)
  BY <1>1, <1>2, InsertedIs
<1>. HIDE DEF c
<1>5. PICK a, m : Silent(b, a) /\ Entered(a, k, c, m)  BY <1>4
<1>6. /\ KeysOf(a) = KeysOf(b) /\ a.event = NoEvent
      /\ \A x \in KeysOf(b) : NameOf(a, x) = NameOf(b, x)
  BY <1>2, <1>5, SilentNames
<1>7. Good(c) /\ KeysOf(c) = KeysOf(a) \union {k}  BY <1>5 DEF Entered
<1>. DEFINE pairs == NamePairs(c.event)
<1>8. /\ pairs \in Seq(Names \X Names) /\ Chained(pairs) /\ Owing(c, holder, pairs, 0)
      /\ ~c.event.pending => c.event = NoEvent /\ pairs = <<>>
  BY <1>3, <1>5, <1>6, EnteredOwes
<1>. HIDE DEF pairs
<1>9. b' = c /\ todo' = pairs /\ fresh' = <<k, NameOf(c, k)>>  BY <1>1 DEF c, pairs
<1>10. KeysOf(b') = DOMAIN holder' \union FreshKeys'
  BY <1>1, <1>3, <1>6, <1>7, <1>9 DEF FreshKeys
<1>11. FreshNames(b', fresh', holder')  BY <1>1, <1>3, <1>4, <1>9 DEF FreshNames
<1>. QED  BY <1>1, <1>7, <1>8, <1>9, <1>10, <1>11 DEF IInv

\* Moves that keep keys, names and event, with the holder as it is.
LEMMA NamesKept ==
    ASSUME IInv, Good(b'), KeysOf(b') = KeysOf(b), b'.event = b.event,
           \A k \in KeysOf(b) : NameOf(b', k) = NameOf(b, k),
           UNCHANGED <<holder, todo, fresh>>
    PROVE  IInv'
<1>1. Owing(b, holder, todo, 0) /\ DOMAIN holder \subseteq KeysOf(b)
      /\ holder = [k \in DOMAIN holder |-> holder[k]]
  BY DEF IInv, Owing
<1>2. \A k \in DOMAIN holder : NameOf(b', k) = NameOf(b, k)  BY <1>1
<1>3. Owing(b', holder, todo, 0)  BY <1>1, <1>2, OwingOn
<1>4. FreshNames(b', fresh', holder')
  <2>1. fresh # <<>> => fresh[1] \in KeysOf(b)  BY DEF IInv, FreshKeys
  <2>. QED  BY <2>1 DEF IInv, FreshNames
<1>. QED  BY <1>3, <1>4 DEF IInv, FreshKeys

\* An insert that is refused: a duplicate, or a full block.
LEMMA RefuseKeeps ==
    ASSUME IInv, NEW k \in Keys, Refuse(k)
    PROVE  IInv'
<1>1. b' = Readied(b) /\ UNCHANGED <<holder, todo, fresh>> /\ Good(b)  BY DEF Refuse, IInv
<1>2. Silent(b, Readied(b))  BY <1>1, ReadiedIs
<1>3. /\ Good(b') /\ KeysOf(b') = KeysOf(b) /\ b'.event = b.event
      /\ \A x \in KeysOf(b) : NameOf(b', x) = NameOf(b, x)
  BY <1>1, <1>2, SilentNames
<1>. QED  BY <1>1, <1>3, NamesKept

\* A reversal of the block, whatever is still to be drained.
LEMMA FlipKeeps ==
    ASSUME IInv, Flip
    PROVE  IInv'
<1>1. b' = Flipped(b) /\ UNCHANGED <<holder, todo, fresh>> /\ Good(b) /\ ReverseDue(b)
  BY DEF Flip, IInv
<1>2. Silent(b, Flipped(b))  BY <1>1, FlipIs DEF Silent
<1>3. /\ Good(b') /\ KeysOf(b') = KeysOf(b) /\ b'.event = b.event
      /\ \A x \in KeysOf(b) : NameOf(b', x) = NameOf(b, x)
  BY <1>1, <1>2, SilentNames
<1>. QED  BY <1>1, <1>3, NamesKept

\* One pair of the event is applied to the holder.
LEMMA PullKeeps ==
    ASSUME IInv, Pull
    PROVE  IInv'
<1>1. /\ todo # <<>> /\ holder' = Renamed(holder, Head(todo)) /\ todo' = Tail(todo)
      /\ b' = b /\ fresh' = fresh
  BY DEF Pull
<1>2. /\ Good(b) /\ todo \in Seq(Names \X Names) /\ Chained(todo) /\ b.event.pending
      /\ Owing(b, holder, todo, 0)
  BY <1>1 DEF IInv
<1>3. Head(todo) = todo[0 + 1] /\ 0 + 1 \in DOMAIN todo /\ DOMAIN todo \subseteq Nat
  <2>. DEFINE n == Len(todo)
  <2>1. n \in Nat /\ n # 0 /\ DOMAIN todo = 1 .. n
    BY <1>1, <1>2, LenProperties, EmptySeq
  <2>2. Head(todo) = todo[1]  BY <1>1, <1>2, HeadTailProperties
  <2>. HIDE DEF n
  <2>3. 0 + 1 = 1 /\ 1 \in 1 .. n /\ 1 .. n \subseteq Nat  BY <2>1
  <2>. QED  BY <2>1, <2>2, <2>3
<1>4. Owing(b, Renamed(holder, todo[0 + 1]), todo, 0 + 1)
      /\ DOMAIN Renamed(holder, todo[0 + 1]) = DOMAIN holder
  BY <1>2, <1>3, RenamedOwes
<1>5. Owing(b, holder', todo, 1) /\ DOMAIN holder' = DOMAIN holder
  BY <1>1, <1>3, <1>4
<1>6. Owing(b, holder', todo', 0) /\ Chained(todo') /\ todo' \in Seq(Names \X Names)
  BY <1>1, <1>2, <1>5, OwingTail
<1>. QED  BY <1>1, <1>2, <1>5, <1>6 DEF IInv, FreshKeys, FreshNames

\* The drain ends: the holder takes the new key's name.
LEMMA SettleKeeps ==
    ASSUME IInv, Settle
    PROVE  IInv'
<1>1. /\ todo = <<>> /\ b' = Drained(b) /\ holder' = With(holder, fresh) /\ fresh' = <<>>
      /\ todo' = todo
  BY DEF Settle
<1>2. /\ holder = [x \in DOMAIN holder |-> holder[x]] /\ DOMAIN holder \subseteq KeysOf(b)
      /\ \A x \in DOMAIN holder : holder[x] = NameOf(b, x)
  BY <1>1, CaughtUp
<1>3. Good(b) /\ FreshNames(b, fresh, holder) /\ KeysOf(b) = DOMAIN holder \union FreshKeys
  BY DEF IInv
<1>4. /\ Good(b') /\ b'.event = NoEvent /\ KeysOf(b') = KeysOf(b)
      /\ \A k : NameOf(b', k) = NameOf(b, k)
  BY <1>1, <1>3, DrainedIs
<1>5. /\ DOMAIN holder' = KeysOf(b) /\ holder' = [x \in DOMAIN holder' |-> holder'[x]]
      /\ \A x \in DOMAIN holder' : holder'[x] = NameOf(b, x)
  <2>1. CASE fresh = <<>>
    <3>1. holder' = holder  BY <1>1, <2>1 DEF With
    <3>. QED  BY <1>2, <1>3, <2>1, <3>1 DEF FreshKeys
  <2>2. CASE fresh # <<>>
    <3>. DEFINE k == fresh[1]
    <3>1. fresh[2] = NameOf(b, k) /\ k \notin DOMAIN holder
      BY <1>3, <2>2 DEF FreshNames
    <3>2. KeysOf(b) = DOMAIN holder \union {k}  BY <1>3, <2>2 DEF FreshKeys
    <3>3. holder' = [x \in DOMAIN holder \union {k} |->
                       IF x = k THEN fresh[2] ELSE holder[x]]
      BY <1>1, <2>2 DEF With
    <3>. HIDE DEF k
    <3>. QED  BY <1>2, <3>1, <3>2, <3>3
  <2>. QED  BY <2>1, <2>2
<1>6. Owing(b', holder', <<>>, 0)  BY <1>4, <1>5, OwingNone
<1>7. todo' \in Seq(Names \X Names) /\ Chained(todo')  BY <1>1 DEF Chained
<1>. QED  BY <1>1, <1>4, <1>5, <1>6, <1>7 DEF IInv, FreshKeys, FreshNames

\* A remove takes one key from the block and from the holder.
LEMMA RemoveKeeps ==
    ASSUME IInv, NEW k \in KeysOf(b), b' = Removed(b, PosOf(b, k)),
           holder' = Without(holder, k), fresh' = Forget(fresh, k), todo' = todo
    PROVE  IInv'
<1>1. /\ Good(b) /\ Owing(b, holder, todo, 0) /\ FreshNames(b, fresh, holder)
      /\ KeysOf(b) = DOMAIN holder \union FreshKeys
  BY DEF IInv
<1>2. /\ Good(b') /\ b'.tr = b.tr /\ b'.event = b.event
      /\ KeysOf(b') = KeysOf(b) \ {x \in KeysOf(b) : PosOf(b, x) = PosOf(b, k)}
      /\ \A x \in KeysOf(b') : PosOf(b', x) = PosOf(b, x)
  BY <1>1, RemovedIs
<1>3. KeysOf(b') = KeysOf(b) \ {k}
  <2>1. \A x \in KeysOf(b) : PosOf(b, x) = PosOf(b, k) <=> x = k
    <3>1. \A x \in KeysOf(b) : KeyAt(b, PosOf(b, x)) = x  BY <1>1, KeyIs
    <3>. QED  BY <3>1
  <2>. QED  BY <1>2, <2>1
<1>4. \A x \in KeysOf(b') : NameOf(b', x) = NameOf(b, x)  BY <1>2 DEF NameOf
<1>5. /\ DOMAIN holder' = DOMAIN holder \ {k}
      /\ holder' = [x \in DOMAIN holder' |-> holder[x]]
  BY DEF Without
<1>6. Owing(b', holder', todo, 0)
  <2>1. DOMAIN holder' \subseteq KeysOf(b')  BY <1>1, <1>3, <1>5
  <2>. QED  BY <1>1, <1>4, <1>5, <2>1, OwingOn
<1>7. KeysOf(b') = DOMAIN holder' \union FreshKeys'
  <2>1. CASE fresh = <<>>
    BY <1>1, <1>3, <1>5, <2>1 DEF FreshKeys, Forget
  <2>2. CASE fresh # <<>> /\ fresh[1] = k
    BY <1>1, <1>3, <1>5, <2>2 DEF FreshKeys, Forget, FreshNames
  <2>3. CASE fresh # <<>> /\ fresh[1] # k
    <3>1. fresh' = fresh  BY <2>3 DEF Forget
    <3>. QED  BY <1>1, <1>3, <1>5, <2>3, <3>1 DEF FreshKeys
  <2>. QED  BY <2>1, <2>2, <2>3
<1>8. FreshNames(b', fresh', holder')
  <2>1. CASE fresh' = <<>>  BY <2>1 DEF FreshNames
  <2>2. CASE fresh' # <<>>
    <3>1. fresh' = fresh /\ fresh # <<>> /\ fresh[1] # k  BY <2>2 DEF Forget
    <3>2. fresh[1] \in KeysOf(b')  BY <1>1, <1>3, <3>1 DEF FreshKeys
    <3>. QED  BY <1>1, <1>4, <1>5, <3>1, <3>2 DEF FreshNames
  <2>. QED  BY <2>1, <2>2
<1>. QED  BY <1>2, <1>6, <1>7, <1>8 DEF IInv

\* A remove by key.
LEMMA RemoveFoundKeeps ==
    ASSUME IInv, NEW k \in Keys, RemoveFound(k)
    PROVE  IInv'
<1>1. /\ k \in KeysOf(b) /\ b' = Removed(b, A2P(b.tr, NameOf(b, k)))
      /\ holder' = Without(holder, k) /\ fresh' = Forget(fresh, k) /\ todo' = todo
  BY DEF RemoveFound
<1>2. Good(b)  BY DEF IInv
<1>3. A2P(b.tr, NameOf(b, k)) = PosOf(b, k)  BY <1>1, <1>2, NameIs
<1>. QED  BY <1>1, <1>3, RemoveKeeps

\* A remove by a name that the holder keeps.
LEMMA RemoveHeldKeeps ==
    ASSUME IInv, NEW k \in Keys, RemoveHeld(k)
    PROVE  IInv' /\ k \in KeysOf(b) /\ b' = Removed(b, PosOf(b, k))
<1>1. /\ ~b.event.pending /\ fresh = <<>> /\ k \in DOMAIN holder
      /\ b' = IF A2P(b.tr, holder[k]) \in Live(b) THEN Removed(b, A2P(b.tr, holder[k])) ELSE b
      /\ holder' = Without(holder, k) /\ todo' = todo /\ fresh' = fresh
  BY DEF RemoveHeld, Ready
<1>2. Good(b) /\ todo = <<>>  BY <1>1 DEF IInv
<1>3. k \in KeysOf(b) /\ holder[k] = NameOf(b, k)  BY <1>1, <1>2, CaughtUp
<1>4. A2P(b.tr, holder[k]) = PosOf(b, k) /\ PosOf(b, k) \in Live(b)
  BY <1>2, <1>3, NameIs, KeyIs
<1>5. b' = Removed(b, PosOf(b, k)) /\ fresh' = Forget(fresh, k)
  BY <1>1, <1>4 DEF Forget
<1>. QED  BY <1>1, <1>3, <1>5, RemoveKeeps

\* Every step keeps the invariant.
LEMMA NextKeeps == IInv /\ [Next]_vars => IInv'
<1>. SUFFICES ASSUME IInv, [Next]_vars PROVE IInv'  OBVIOUS
<1>1. ASSUME NEW k \in Keys, Insert(k) PROVE IInv'  BY <1>1, InsertKeeps
<1>2. ASSUME NEW k \in Keys, Refuse(k) PROVE IInv'  BY <1>2, RefuseKeeps
<1>3. ASSUME NEW k \in Keys, RemoveFound(k) PROVE IInv'  BY <1>3, RemoveFoundKeeps
<1>4. ASSUME NEW k \in Keys, RemoveHeld(k) PROVE IInv'  BY <1>4, RemoveHeldKeeps
<1>5. CASE Pull  BY <1>5, PullKeeps
<1>6. CASE Settle  BY <1>6, SettleKeeps
<1>7. CASE Flip  BY <1>7, FlipKeeps
<1>8. CASE UNCHANGED vars
  BY <1>8 DEF vars, IInv, Owing, FreshKeys, FreshNames
<1>. QED  BY <1>1, <1>2, <1>3, <1>4, <1>5, <1>6, <1>7, <1>8 DEF Next

-----------------------------------------------------------------------------
(* What an event tells.                                                    *)

\* Where nothing is told, nothing may have moved.
LEMMA NothingMoved ==
    ASSUME b'.event = b.event \/ b'.event = NoEvent,
           \A k \in KeysOf(b) \intersect KeysOf(b') : PosOf(b', k) = PosOf(b, k)
    PROVE  MovesTold
<1>1. NoEvent.pairs = <<>>  BY DEF NoEvent
<1>. QED  BY <1>1, FollowsNone DEF MovesTold

\* An insert that keeps the epoch tells every move.
LEMMA InsertTells ==
    ASSUME IInv, NEW k \in Keys, Insert(k), b'.epoch = b.epoch
    PROVE  MovesTold
<1>1. ~b.event.pending /\ Placeable(b, k) /\ b' = Inserted(b, k)
  BY DEF Insert, Ready
<1>2. Good(b) /\ b.event = NoEvent /\ k \in Nat
  BY <1>1, BlockSetAssumption DEF IInv
<1>. DEFINE c == Inserted(b, k)
<1>3. \E a, m : Silent(b, a) /\ Entered(a, k, c, m)
  BY <1>1, <1>2, InsertedIs
<1>. HIDE DEF c
<1>4. PICK a, m : Silent(b, a) /\ Entered(a, k, c, m)  BY <1>3
<1>5. b' = c  BY <1>1 DEF c
<1>6. a = b
  <2>1. c.epoch = a.epoch /\ c.epoch = b.epoch  BY <1>4, <1>5 DEF Entered
  <2>2. b.epoch \in Nat  BY <1>2, GoodTypes
  <2>3. ~(a.epoch > b.epoch)  BY <2>1, <2>2
  <2>. QED  BY <1>4, <2>3 DEF Silent, SameNames
<1>7. \A x \in KeysOf(b) : PosOf(b, x) \in Live(b) /\ PosOf(c, x) = m[PosOf(b, x)]
  BY <1>2, <1>4, <1>6, KeyIs DEF Entered
<1>8. CASE Told(b, m, c.event, c.cap)
  <2>1. c.event.pending = TRUE /\ Unravelled(b, m, c.event.pairs, c.cap)
    <3>1. c.event = Event(b.tr, c.event.pairs, c.event.spans)  BY <1>8 DEF Told
    <3>2. \A t, p, s : Event(t, p, s).pending = TRUE  BY DEF Event
    <3>. QED  BY <1>8, <3>1, <3>2 DEF Told
  <2>2. c.event # b.event
    <3>1. NoEvent.pending = FALSE  BY DEF NoEvent
    <3>. QED  BY <1>2, <2>1, <3>1
  <2>. DEFINE told == c.event
  <2>3. ASSUME NEW x \in KeysOf(b)
        PROVE  /\ PosOf(c, x) = FoldLeft(Followed, PosOf(b, x), told.pairs)
               /\ PosOf(b, x) # PosOf(c, x) =>
                    /\ \E s \in told.spans : Between(PosOf(b, x), s)
                    /\ \E s \in told.spans : Between(PosOf(c, x), s)
    <3>1. PosOf(b, x) \in Live(b) /\ PosOf(c, x) = m[PosOf(b, x)]  BY <1>7
    <3>2. FoldLeft(Followed, PosOf(b, x), told.pairs) = m[PosOf(b, x)]
      BY <1>2, <2>1, <3>1, FollowsTo
    <3>3. m[PosOf(b, x)] # PosOf(b, x) =>
            /\ \E s \in told.spans : Between(PosOf(b, x), s)
            /\ \E s \in told.spans : Between(m[PosOf(b, x)], s)
      BY <1>8, <3>1 DEF Told
    <3>. QED  BY <3>1, <3>2, <3>3
  <2>. QED  BY <1>5, <2>2, <2>3 DEF MovesTold, Between
<1>9. CASE c.event = b.event /\ \A p \in Live(b) : m[p] = p
  <2>1. \A x \in KeysOf(b) : PosOf(c, x) = PosOf(b, x)  BY <1>7, <1>9
  <2>. QED  BY <1>5, <1>9, <2>1, NothingMoved
<1>. QED  BY <1>4, <1>6, <1>8, <1>9 DEF Entered

\* A remove moves nothing that stays.
LEMMA RemoveTells ==
    ASSUME IInv, NEW p, b' = Removed(b, p)
    PROVE  MovesTold
<1>1. Good(b)  BY DEF IInv
<1>2. b'.event = b.event /\ \A x \in KeysOf(b') : PosOf(b', x) = PosOf(b, x)
  BY <1>1, RemovedIs
<1>. QED  BY <1>2, NothingMoved

\* Every step tells every move, unless it moves the epoch.
LEMMA NextTells == IInv /\ [Next]_vars => [b'.epoch = b.epoch => MovesTold]_vars
<1>. SUFFICES ASSUME IInv, Next, b'.epoch = b.epoch PROVE MovesTold  OBVIOUS
<1>0. Good(b) /\ b.epoch \in Nat  BY GoodTypes DEF IInv
<1>1. ASSUME NEW k \in Keys, Insert(k) PROVE MovesTold  BY <1>1, InsertTells
<1>2. ASSUME Silent(b, b') PROVE MovesTold
  <2>1. ~(b'.epoch > b.epoch)  BY <1>0
  <2>2. b' = b  BY <1>2, <2>1 DEF Silent, SameNames
  <2>. QED  BY <2>2, NothingMoved
<1>3. ASSUME NEW k \in Keys, Refuse(k) PROVE MovesTold
  BY <1>0, <1>2, <1>3, ReadiedIs DEF Refuse
<1>4. CASE Flip
  <2>1. SameNames(b, Flipped(b)) /\ b' = Flipped(b)  BY <1>0, <1>4, FlipIs DEF Flip
  <2>. QED  BY <1>2, <2>1 DEF Silent
<1>5. ASSUME NEW k \in Keys, RemoveFound(k) PROVE MovesTold
  BY <1>5, RemoveTells DEF RemoveFound
<1>6. ASSUME NEW k \in Keys, RemoveHeld(k) PROVE MovesTold
  BY <1>6, RemoveHeldKeeps, RemoveTells
<1>7. CASE Pull  BY <1>7, NothingMoved DEF Pull
<1>8. CASE Settle
  <2>1. b' = Drained(b)  BY <1>8 DEF Settle
  <2>. QED  BY <1>0, <2>1, DrainedIs, NothingMoved
<1>. QED  BY <1>1, <1>3, <1>4, <1>5, <1>6, <1>7, <1>8 DEF Next

-----------------------------------------------------------------------------
(* The theorems.                                                           *)

\* Every block that calls of insert, remove and reverse can leave is sound, and the
\* pairs that are left bring the holder's names up to date.
THEOREM Sound == Spec => []IInv
<1>. QED  BY InitIs, NextKeeps, PTL DEF Spec

\* A sound block's live slots hold the keys in order.
LEMMA OrderedHolds == IInv => Ordered
<1>. SUFFICES ASSUME IInv PROVE Ordered  OBVIOUS
<1>1. KeyOrder(b)  BY DEF IInv, Good
<1>. QED  BY <1>1 DEF Ordered, IInv, FreshKeys, KeyOrder

\* A sound block's search is honest.
LEMMA SpotHolds == IInv => SpotHonest
<1>. SUFFICES ASSUME IInv, NEW k \in Keys PROVE Answers(b, k, Spot(b, k))
  BY DEF SpotHonest, Answers, Belongs
<1>. QED  BY SpotIs, BlockSetAssumption DEF IInv

\* A sound block's turn agrees with its mask.
LEMMA TurnHolds == IInv => TurnAgrees
<1>. SUFFICES ASSUME IInv, CanTurn(b) PROVE TurnAgrees  BY DEF TurnAgrees
<1>1. Good(b) /\ b.tr \in Translator /\ b.cap \in Nat /\ Live(b) \subseteq 0 .. b.cap - 1
  BY GoodTypes, LiveIs DEF IInv
<1>2. \A p \in 0 .. b.cap - 1 : /\ TurnedSpot(b, p) = Doubled(b.tr, p)
                                /\ Doubled(b.tr, p) \in 0 .. 2 * b.cap - 1
                                /\ p <= Doubled(b.tr, p)
  BY <1>1, TurnIs
<1>3. \A p \in Live(b) : TurnedSpot(b, p) = Doubled(b.tr, p)  BY <1>1, <1>2
<1>4. RotateMask(b) = {TurnedSpot(b, p) : p \in Live(b)}
  <2>1. RotateMask(b) = {Doubled(b.tr, p) : p \in Live(b)}  BY <1>1, TurnMask
  <2>. QED  BY <1>3, <2>1
<1>5. \A p \in Live(b) : TurnedSpot(b, p) \in p .. 2 * b.cap - 1  BY <1>1, <1>2
<1>6. \A p, q \in Live(b) : p < q => TurnedSpot(b, p) < TurnedSpot(b, q)
  <2>. SUFFICES ASSUME NEW p \in Live(b), NEW q \in Live(b), p < q
                PROVE  TurnedSpot(b, p) < TurnedSpot(b, q)
    OBVIOUS
  <2>1. p \in Nat /\ q \in Nat  BY <1>1
  <2>2. Doubled(b.tr, p) < Doubled(b.tr, q)  BY <1>1, <2>1, DoubledOrder
  <2>. QED  BY <1>3, <2>2
<1>. QED  BY <1>4, <1>5, <1>6 DEF TurnAgrees

\* The invariant's pairs bring the holder up to date.
LEMMA HolderHolds == IInv => HolderFollows
<1>. SUFFICES ASSUME IInv PROVE HolderFollows  OBVIOUS
<1>1. /\ Good(b) /\ todo \in Seq(Names \X Names) /\ Chained(todo) /\ Owing(b, holder, todo, 0)
      /\ FreshNames(b, fresh, holder) /\ KeysOf(b) = DOMAIN holder \union FreshKeys
  BY DEF IInv
<1>. DEFINE h == FoldLeft(Renamed, holder, todo)
<1>2. h = [k \in DOMAIN holder |-> NameOf(b, k)]  BY <1>1, OwingFolds
<1>. HIDE DEF h
<1>3. With(h, fresh) = [k \in KeysOf(b) |-> NameOf(b, k)]
  <2>1. CASE fresh = <<>>
    BY <1>1, <1>2, <2>1 DEF With, FreshKeys
  <2>2. CASE fresh # <<>>
    <3>. DEFINE x == fresh[1]
    <3>1. fresh[2] = NameOf(b, x)  BY <1>1, <2>2 DEF FreshNames
    <3>2. KeysOf(b) = DOMAIN holder \union {x}  BY <1>1, <2>2 DEF FreshKeys
    <3>3. With(h, fresh) = [k \in DOMAIN h \union {x} |-> IF k = x THEN fresh[2] ELSE h[k]]
      BY <2>2 DEF With
    <3>. HIDE DEF x
    <3>4. DOMAIN h = DOMAIN holder /\ \A k \in DOMAIN holder : h[k] = NameOf(b, k)
      BY <1>2
    <3>. QED  BY <3>1, <3>2, <3>3, <3>4
  <2>. QED  BY <2>1, <2>2
<1>4. \A k, x \in DOMAIN holder : k # x => holder[k] # holder[x]  BY <1>1 DEF Owing
<1>. QED  BY <1>3, <1>4 DEF HolderFollows, h

\* No rung of the insert ladder, remove or reverse loses, doubles or reorders an
\* element: the live slots hold the keys inserted and not removed, in key order.
THEOREM OrderedAlways == Spec => []Ordered
<1>. QED  BY Sound, OrderedHolds, PTL

\* spot() answers a duplicate exactly for a key that is there and otherwise its
\* boundary, wherever the streak's anchor has been left by slides, banks and turns.
THEOREM SpotHonestAlways == Spec => []SpotHonest
<1>. QED  BY Sound, SpotHolds, PTL

\* grow_rotate() sets the mask bits of the slots it moves elements to, and its
\* one descending pass overwrites no element that it has yet to move.
THEOREM TurnAgreesAlways == Spec => []TurnAgrees
<1>. QED  BY Sound, TurnHolds, PTL

\* A holder of names that drains an event pair by pair, with removes and
\* reversals in between, ends with the name of every key and no name twice.
THEOREM HolderFollowsAlways == Spec => []HolderFollows
<1>. QED  BY Sound, HolderHolds, PTL

\* A holder of positions needs the event only: unless the epoch moves, each
\* position changes as the pairs say and within the slides of the event.
THEOREM PositionsToldAlways == Spec => PositionsTold
<1>. QED  BY Sound, NextTells, PTL DEF Spec, PositionsTold
=============================================================================
