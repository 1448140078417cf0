------------------------------- MODULE MCMaps -------------------------------
(* Instances of Maps for TLC.                                               *)
EXTENDS Maps

MCKeysOf ==
  [k \in {"nibble", "dyn", "nib", "bit", "fixed", "fixedauto", "int", "str", "poly"} |->
     CASE k = "nibble" -> {<<>>, <<17>>, <<17, 18>>, <<17, 33>>, <<18>>}
       [] k = "dyn" -> {<<17>>, <<17, 18>>, <<17, 33>>, <<33>>}
       [] k = "nib" -> {<<>>, <<80>>, <<80, 81>>, <<80, 100>>, <<81>>}
       [] k = "bit" -> {<<0>>, <<80, 0>>, <<80, 81, 0>>, <<80, 200, 0>>, <<81, 0>>}
       [] k = "int" -> {<<i>> : i \in 1 .. 20} \union {<<i, i>> : i \in {3, 7, 9, 14}}
       [] k = "str" -> {<<i>> : i \in 1 .. 20} \union {<<i, i>> : i \in {3, 7, 9}}
                         \union {<<7, 0, 0>>}
       [] k = "poly" -> {<<16>>, <<32>>, <<80>>, <<144>>, <<16, 64>>, <<16, 0>>}
       [] OTHER -> {<<>>, <<80>>, <<80, 81>>, <<80, 100>>, <<81>>}]
MCPtrOf == [k \in DOMAIN MCKeysOf |-> 31]
Up(i, j) == [x \in 1 .. j - i + 1 |-> <<i + x - 1>>]
Down(i, j) == [x \in 1 .. j - i + 1 |-> <<j + 1 - x>>]
Every(a, n) == [x \in 1 .. n |-> <<((a * x) % 21)>>]
MCPrefillsOf ==
  [k \in DOMAIN MCKeysOf |->
     CASE k \in {"int", "str"} -> {<<>>, Up(1, 20), Down(1, 20), Up(11, 20) \o Up(1, 10),
                        Every(2, 10), Every(5, 18), Every(8, 18), Every(13, 20)}
       [] OTHER -> {<<>>}]
MCMaxCallsOf ==
  [k \in DOMAIN MCKeysOf |->
     CASE k \in {"int", "str"} -> 2 [] k \in {"nibble", "nib", "bit", "poly"} -> 6 [] OTHER -> 7]
MCDeepCallsOf == [k \in DOMAIN MCKeysOf |-> 3]
MCWidths == <<7, 15, 31>>
=============================================================================
