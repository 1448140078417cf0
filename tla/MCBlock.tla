------------------------------ MODULE MCBlock ------------------------------
(* Instances of Block and Stack for TLC: the two clients of one BlockOps.  *)
(* A behaviour has one of them, and the block of the other stays empty.    *)
EXTENDS Block, Stack

CONSTANTS v1, v2, v3, v4

CONSTANT Clients    \* the clients to start: "values" (Block), "units" (Stack)
VARIABLE client     \* chosen at the start

Region(size, align) == [size |-> size, align |-> align]
Bytes(n) == Region(n, 1)
None == Bytes(0)
Value(own, kids) == [own |-> own, kids |-> kids]

\* strings of 3 and 8 bytes, a u32, a vec of one string and of two
MCValues == {
    Value(Bytes(3), <<>>), Value(Region(8, 4), <<>>),
    Value(Region(4, 2), <<Bytes(5)>>), Value(Region(8, 2), <<Bytes(3), Bytes(5)>>)}

MCAligned == {Value(Region(16, 1), <<>>), Value(Region(8, 8), <<>>)}

Inline == {Value(None, <<>>)}

\* u8; a handle of three u16; String; Vec<u8>; Vec<String>
MCKinds == {
    [size |-> 1, align |-> 1, values |-> Inline],
    [size |-> 6, align |-> 2, values |-> Inline],
    [size |-> 16, align |-> 8,
     values |-> Inline \union {Value(Bytes(9), <<>>), Value(Bytes(13), <<>>)}],
    [size |-> 8, align |-> 2,
     values |-> Inline \union {Value(Bytes(n), <<>>) : n \in {1, 3, 6}}],
    [size |-> 8, align |-> 2,
     values |-> {Value(Region(16, 8), <<None>>), Value(Region(16, 8), <<Bytes(9)>>),
                 Value(Region(32, 8), <<Bytes(10), Bytes(9)>>)}]}

Symmetry == Permutations(Ids)
-----------------------------------------------------------------------------
NoValues == b = NewBlock(0) /\ live = <<>> /\ fresh = {} /\ grown = FALSE

NoUnits ==
    /\ block = NewBlock(0) /\ pushed = <<>>
    /\ kind = CHOOSE k \in Kinds : k.values = Inline

MCInit ==
    /\ client \in Clients
    /\ IF client = "values" THEN Init /\ NoUnits ELSE StackInit /\ NoValues

MCNext ==
    /\ UNCHANGED client
    /\ \/ client = "values" /\ Next /\ UNCHANGED stackVars
       \/ client = "units" /\ StackNext /\ UNCHANGED vars

MCSpec == MCInit /\ [][MCNext]_<<vars, stackVars, client>>
=============================================================================
