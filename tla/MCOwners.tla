------------------------------ MODULE MCOwners ------------------------------
(* Instances of Owners for TLC.                                             *)
EXTENDS Owners

Up(n) == [i \in 1 .. n |-> 10 * i]
Down(n) == [i \in 1 .. n |-> 10 * (n + 1 - i)]
Mixed(n, a) == [i \in 1 .. n |-> 10 * ((a * i) % (n + 1))]
Perfect == <<80, 40, 120, 20, 60, 100, 140>>
Pairs(keys, values) == [i \in DOMAIN keys |-> <<keys[i], values[i]>>]
Without(i, j) == [x \in 1 .. j - i + 1 |-> <<10 * (i + x - 1), 0>>]

MCKeysOf ==
  [k \in {"arena", "skip", "bimap", "mask", "bplus", "binary", "pinned"} |->
     CASE k = "arena" -> {5, 45, 80, 85, 155, 175, 325}
       [] k = "skip" -> {1, 5, 25, 30, 55, 85, 105, 175}
       [] k = "bimap" -> {5, 30, 55, 85, 175}
       [] k = "mask" -> 0 .. 10
       [] k \in Trees -> {1, 2, 15, 45, 46, 75, 105, 135, 301, 302}]
MCValues == {5, 30, 55, 85, 175}

\* Full arenas, of blocks grown at either end and in between; sets with tiers
\* built early and late; pairs in like and in opposite order; sparse masks and
\* solid ones; trees of one to three levels, and lists, up to a full block.
MCPrefillsOf ==
  [k \in DOMAIN MCKeysOf |->
     CASE k = "arena" -> {<<>>, Up(16), Down(16), Mixed(16, 5), Up(28), Down(18), Mixed(30, 7)}
       [] k = "skip" -> {<<>>, <<0>>, Up(3) \o <<0>>, <<0>> \o Up(12), Down(6) \o <<0>>,
                         <<0>> \o Down(14), Down(10) \o <<0>>, Mixed(12, 5) \o <<0>>,
                         <<70, 20, 0>> \o Mixed(6, 3), Up(16) \o <<0>>, Mixed(12, 8), Up(9)}
       [] k = "bimap" -> {<<>>, Pairs(Up(6), Down(6)), Pairs(Down(9), Up(9)),
                          Pairs(Mixed(12, 5), Mixed(12, 8)), Pairs(Down(16), Mixed(16, 3)),
                          Pairs(Up(14), Down(14)) \o Without(4, 9),
                          Pairs(Mixed(10, 3), Up(10)) \o Without(2, 3)}
       [] k = "mask" -> {<<0>>, <<5, 0, 3, 4>>, <<9, 0, 1, 2, 3, 4, 5, 6, 7, 8>>,
                         <<10, 3, 4, 8, 9>>}
       [] k = "bplus" -> {<<>>, Up(4), Up(8), Down(8), Mixed(10, 3), Up(12), Up(16), Down(16),
                          Mixed(16, 5), Mixed(20, 13), Mixed(22, 7), Mixed(26, 5), Mixed(30, 7)}
       [] k = "binary" -> {<<30>>, Down(6), Perfect, Perfect \o <<10, 30>>,
                           Perfect \o <<10, 30, 50, 70, 90, 110>>, Down(14), Down(16)}
       [] k = "pinned" -> {<<30>>, Perfect, Down(5), <<90>> \o Down(8), <<80, 40, 160, 120, 20>>,
                           Perfect \o <<10, 30, 50, 70, 90, 110>>}]
=============================================================================
