----------------------------- MODULE MCBlockSet -----------------------------
(* Instances of BlockSet for TLC: the histories that bring a block to each  *)
(* rung of the ladder, and keys that fall between and upon theirs.          *)
EXTENDS BlockSet

Up(n) == [i \in 1 .. n |-> 10 * i]
Down(n) == [i \in 1 .. n |-> 10 * (n + 1 - i)]
Mixed(n, a) == [i \in 1 .. n |-> 10 * ((a * i) % (n + 1))]
Cut(i, j) == [x \in 1 .. j - i + 1 |-> -10 * (i + x - 1)]

\* Small, thinned, grown out of order, and at the slot ceiling.
MCPrefills ==
  {<<>>, Up(6), Down(6), Up(9) \o Cut(2, 6), Up(14), Up(18) \o Cut(2, 9)}
    \union {Down(8), Down(10), Down(11), Down(14), Down(24), Down(32)}
    \union {Up(20) \o Cut(11, 18), Up(32) \o Cut(20, 30), Up(28) \o Cut(3, 3) \o Cut(22, 22)}
    \union {Mixed(12, 5), Mixed(22, 7), Mixed(28, 12), Mixed(30, 5)}
    \union {Up(64) \o Cut(3, 3), Up(64) \o Cut(64, 64), Up(64) \o Cut(30, 50),
            Down(64) \o Cut(1, 1), Up(63)}
MCKeys == {5, 15, 45, 60, 75, 95, 165, 205, 355, 635, 645}
=============================================================================
