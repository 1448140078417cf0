----------------------------- MODULE LifoStack ------------------------------
(***************************************************************************)
(* What one caller sees of stacks.rs: a single stack, whatever its blocks, *)
(* evictions and reopened files (the header's "single-threaded semantics", *)
(* stacks.rs:48-51).                                                       *)
(***************************************************************************)
EXTENDS Integers, Sequences

CONSTANT Items

VARIABLES s,       \* the stored items, the next to pop last
          gone     \* the items popped

lifoVars == <<s, gone>>

LifoInit == s \in Seq(Items) /\ gone = {}

Push(x) == s' = Append(s, x) /\ UNCHANGED gone

Pop == /\ s # <<>>
       /\ gone' = gone \union {s[Len(s)]}
       /\ s' = SubSeq(s, 1, Len(s) - 1)

LifoNext == Pop \/ \E x \in Items \ gone : Push(x)

LifoSpec == LifoInit /\ [][LifoNext]_lifoVars
=============================================================================
