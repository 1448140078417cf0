----------------------------- MODULE MaskWords -----------------------------
(***************************************************************************)
(* The occupancy bitmap (crates/doa/src/mask.rs) word by word: a record of  *)
(* the words, each the set of the bits set in it, and the number of bits    *)
(* tracked. No bit past that number is ever set.                            *)
(***************************************************************************)
EXTENDS SlotOps

Nil == -1

WordsFor(n) == (n + Word - 1) \div Word
WithBits(n) == [words |-> [w \in 1 .. WordsFor(n) |-> {}], bits |-> n]

\* Words are counted from 0; past the last one there is nothing.
WordCount(m) == Len(m.words)
WordOf(m, w) == IF w \in 0 .. WordCount(m) - 1 THEN m.words[w + 1] ELSE {}
WordAt(m, p) == WordOf(m, p \div Word)
Lowest(w, bits) == w * Word + Min(bits)
Highest(w, bits) == w * Word + Max(bits)

BitsOf(m) == {p \in 0 .. WordCount(m) * Word - 1 : p % Word \in WordAt(m, p)}

Resize(m, n) ==
  [words |-> [w \in 1 .. WordsFor(n) |->
     IF w = WordsFor(n) /\ n % Word # 0
     THEN WordOf(m, w - 1) \intersect 0 .. (n % Word) - 1 ELSE WordOf(m, w - 1)],
   bits |-> n]

Put(m, p, live) ==
  [m EXCEPT !.words[p \div Word + 1] =
     IF live THEN @ \union {p % Word} ELSE @ \ {p % Word}]
Cleared(m) == [m EXCEPT !.words = [w \in DOMAIN @ |-> {}]]

-----------------------------------------------------------------------------
(* Scans for a bit, a word at a time.                                       *)

RECURSIVE ScanUp(_, _, _)
ScanUp(m, w, off) ==
  LET rest == {i \in WordOf(m, w) : i >= off}
  IN  IF w >= WordCount(m) THEN Nil
      ELSE IF rest # {} THEN Lowest(w, rest) ELSE ScanUp(m, w + 1, 0)
RECURSIVE ScanDown(_, _, _)
ScanDown(m, w, keep) ==
  LET rest == {i \in WordOf(m, w) : i < keep}
  IN  IF w < 0 THEN Nil
      ELSE IF rest # {} THEN Highest(w, rest) ELSE ScanDown(m, w - 1, Word)

NextSet(m, from) == ScanUp(m, from \div Word, from % Word)
PrevSet(m, from) ==
  LET below == Min({from, m.bits})
  IN  IF below = 0 THEN Nil
      ELSE ScanDown(m, (below - 1) \div Word, ((below - 1) % Word) + 1)
LastSet(m) == ScanDown(m, WordCount(m) - 1, Word)

\* The clear bits of a word that are tracked.
Free(m, w) == (0 .. Min({m.bits - w * Word, Word}) - 1) \ WordOf(m, w)
RECURSIVE ClearUp(_, _, _)
ClearUp(m, w, off) ==
  LET free == {i \in Free(m, w) : i >= off}
  IN  IF w >= WordCount(m) THEN Nil
      ELSE IF free # {} THEN Lowest(w, free) ELSE ClearUp(m, w + 1, 0)
RECURSIVE ClearDown(_, _, _)
ClearDown(m, w, keep) ==
  LET free == {i \in Free(m, w) : i <= keep}
  IN  IF w < 0 THEN Nil
      ELSE IF free # {} THEN Highest(w, free) ELSE ClearDown(m, w - 1, Word - 1)

NextClear(m, from) ==
  IF from >= m.bits THEN Nil ELSE ClearUp(m, from \div Word, from % Word)
PrevClear(m, from) ==
  LET at == Min({from, m.bits - 1})
  IN  IF m.bits = 0 THEN Nil ELSE ClearDown(m, at \div Word, at % Word)

NearestHole(m, centre) ==
  LET after == IF centre < m.bits THEN NextClear(m, centre + 1) ELSE Nil
      before == IF centre > 0 THEN PrevClear(m, centre - 1) ELSE Nil
  IN  IF after # Nil /\ before # Nil
      THEN IF after - centre <= centre - before THEN after ELSE before
      ELSE IF after # Nil THEN after ELSE before

-----------------------------------------------------------------------------
(* The walks. A cursor keeps the word it is in.                             *)

Step(p, word) == [p |-> p, word |-> word]
Stepped(m, p) == IF p = Nil THEN Step(Nil, {}) ELSE Step(p, WordAt(m, p))

StepUp(m, p, word) ==
  LET rest == {i \in word : i > p % Word}
  IN  IF rest # {} THEN Step(Lowest(p \div Word, rest), word)
      ELSE Stepped(m, NextSet(m, p + 1))
StepDown(m, p, word) ==
  LET rest == {i \in word : i < p % Word}
  IN  IF rest # {} THEN Step(Highest(p \div Word, rest), word)
      ELSE Stepped(m, PrevSet(m, p))

Ahead(m, dir, at) ==
  IF dir THEN StepUp(m, at.p, at.word) ELSE StepDown(m, at.p, at.word)

\* advance ghosts past the last slot (p = Nil); the ghost's word is stale.
Advance(m, dir, at) == [Ahead(m, dir, at) EXCEPT !.word =
                          IF Ahead(m, dir, at).p = Nil THEN at.word ELSE @]

\* retreat resumes from the ghost at the far end; at the start it stays.
Retreat(m, dir, at) ==
  IF at.p = Nil THEN Stepped(m, IF dir THEN LastSet(m) ELSE NextSet(m, 0))
  ELSE Ahead(m, ~ dir, at)

\* All that a cursor yields from slot `at` on, and back from the ghost.
RECURSIVE CursorOn(_, _, _)
CursorOn(m, dir, at) ==
  IF at.p = Nil THEN <<>> ELSE <<at.p>> \o CursorOn(m, dir, Advance(m, dir, at))
RECURSIVE CursorBack(_, _, _)
CursorBack(m, dir, at) ==
  LET back == Retreat(m, dir, at)
  IN  IF back.p = Nil THEN <<>> ELSE <<back.p>> \o CursorBack(m, dir, back)

\* iter_set and iter_set_rev test one bit after the other in the word they
\* hold; `next` is the word to load when it is done with.
RECURSIVE SetBits(_, _, _, _)
SetBits(m, word, next, pos) ==
  LET done == {i \in word : i >= pos % Word} = {}
      edge == (pos + 1) % Word = 0
      load == WordOf(m, next)
  IN  IF pos % Word \in word
      THEN <<pos>> \o SetBits(m, IF edge THEN load ELSE word,
                              IF edge THEN next + 1 ELSE next, pos + 1)
      ELSE IF ~ done THEN SetBits(m, word, next, pos + 1)
      ELSE IF next >= WordCount(m) THEN <<>>
      ELSE SetBits(m, load, next + 1, (pos \div Word + 1) * Word)
RECURSIVE SetBitsRev(_, _, _, _)
SetBitsRev(m, word, next, pos) ==
  LET done == {i \in word : i <= pos % Word} = {}
      edge == (pos - 1) % Word = Word - 1
      load == WordOf(m, next)
  IN  IF pos % Word \in word
      THEN <<pos>> \o SetBitsRev(m, IF edge THEN load ELSE word,
                                 IF edge THEN next - 1 ELSE next, pos - 1)
      ELSE IF ~ done THEN SetBitsRev(m, word, next, pos - 1)
      ELSE IF next < 0 THEN <<>>
      ELSE SetBitsRev(m, load, next - 1, (pos \div Word) * Word - 1)

IterSet(m) == SetBits(m, WordOf(m, 0), 1, 0)
IterSetRev(m) ==
  SetBitsRev(m, WordOf(m, WordCount(m) - 1), WordCount(m) - 2, m.bits - 1)

-----------------------------------------------------------------------------
(* Counts, and the masks of a cleave, a flip and a turn.                    *)

SetCount(m) ==
  FoldLeft(LAMBDA n, word : n + Cardinality(word), 0, m.words)
CountBelow(m, p) ==
  FoldLeft(LAMBDA n, word : n + Cardinality(word), 0, SubSeq(m.words, 1, p \div Word))
    + Cardinality({i \in WordAt(m, p) : i < p % Word})

\* The bits of a word moved down by n, those below falling out; and up.
ShiftedDown(word, n) == {i - n : i \in {x \in word : x >= n}}
ShiftedUp(word, n) == {i + n : i \in {x \in word : x + n < Word}}

CopyRegion(m, from, to) ==
  LET off == from % Word
      words == [j \in 1 .. WordsFor(to - from) |->
                  ShiftedDown(WordOf(m, from \div Word + j - 1), off)
                    \union ShiftedUp(WordOf(m, from \div Word + j), Word - off)]
  IN  Resize([words |-> words, bits |-> to - from], to - from)

Mirrored(word) == {Word - 1 - i : i \in word}
ReverseWords(m) ==
  LET slack == (Word - (m.bits % Word)) % Word
      turned == [w \in DOMAIN m.words |-> Mirrored(m.words[WordCount(m) + 1 - w])]
      above(w) == IF w < WordCount(m) THEN turned[w + 1] ELSE {}
  IN  [m EXCEPT !.words = [w \in DOMAIN @ |->
         IF slack = 0 THEN turned[w]
         ELSE ShiftedDown(turned[w], slack) \union ShiftedUp(above(w), Word - slack)]]

\* A turn: every bit to its double, and in the band lo..hi-1 one further or,
\* in a reversed block, one less, where it may fall into the word below.
Spread(word, upper) ==
  {2 * (IF upper THEN i - Word \div 2 ELSE i) :
     i \in {x \in word : upper <=> x >= Word \div 2}}
Doubled(m) ==
  [words |-> [w \in 1 .. WordsFor(2 * m.bits) |->
                Spread(WordOf(m, (w - 1) \div 2), w % 2 = 0)],
   bits |-> 2 * m.bits]

Band(cap, off, rev) ==
  IF rev THEN [lo |-> 2 * off + 1, hi |-> 2 * cap]
  ELSE IF off <= Midpoint THEN [lo |-> 0, hi |-> 2 * Min({off, cap})]
  ELSE [lo |-> 2 * (off - Midpoint), hi |-> 2 * cap]

Banded(w, band) ==
  {i \in 0 .. Word - 1 : band.lo <= w * Word + i /\ w * Word + i < band.hi}

\* (mutant) what falls out of a word is lost.
RippledShort(m, band, down, w) ==
  LET word == WordOf(m, w)
      mask == Banded(w, band)
      ripple == {IF down THEN i - 1 ELSE i + 1 : i \in word \intersect mask} \intersect mask
  IN  (word \ mask) \union ripple

Rippled(m, band, down, w) ==
  LET word == WordOf(m, w)
      mask == Banded(w, band)
      ripple == {IF down THEN i - 1 ELSE i + 1 : i \in word \intersect mask} \intersect mask
      fall == down /\ mask # {} /\ 0 \in WordOf(m, w + 1) \intersect Banded(w + 1, band)
  IN  (word \ mask) \union ripple \union IF fall THEN {Word - 1} ELSE {}

RotateWords(m, off, rev) ==
  LET doubled == Doubled(m)
      band == Band(m.bits, off, rev)
  IN  [doubled EXCEPT !.words =
         [w \in DOMAIN @ |-> Rippled(doubled, band, rev, w - 1)]]
=============================================================================
