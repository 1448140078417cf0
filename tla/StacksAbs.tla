----------------------------- MODULE StacksAbs ------------------------------
(***************************************************************************)
(* What stacks.rs promises once caching is hidden: a growing list of       *)
(* blocks, each a stack, and a target.  No residency, dirt, locks or file. *)
(* A push lands on the end of some block that has room, a pop takes the    *)
(* last item of some block.                                                *)
(***************************************************************************)
EXTENDS Integers, Sequences

CONSTANTS Items, Room(_, _)     \* Room(s, x): block s has space for item x

VARIABLES content,   \* the blocks, oldest first
          top,       \* the push/pop target
          gone       \* items pops have returned

absVars == <<content, top, gone>>

Newest == IF content = <<>> THEN 0 ELSE Len(content) - 1

AbsInit == content \in Seq(Seq(Items)) /\ gone = {} /\ top = Newest

Spill ==
    /\ content' = Append(content, <<>>) /\ top' = Len(content) /\ UNCHANGED gone

Land(i, x) ==
    /\ Room(content[i], x)
    /\ content' = [content EXCEPT ![i] = Append(@, x)]
    /\ UNCHANGED <<top, gone>>

Take(i) ==
    LET n == Len(content[i]) IN
    /\ n > 0
    /\ content' = [content EXCEPT ![i] = SubSeq(@, 1, n - 1)]
    /\ gone' = gone \union {content[i][n]}
    /\ UNCHANGED top

Retreat == top > 0 /\ top' = top - 1 /\ UNCHANGED <<content, gone>>

\* the handle was dropped and the file opened again
Reload == top' = Newest /\ UNCHANGED <<content, gone>>

AbsNext ==
    \/ Spill \/ Retreat \/ Reload
    \/ \E i \in 1 .. Len(content) : Take(i) \/ \E x \in Items \ gone : Land(i, x)

AbsSpec == AbsInit /\ [][AbsNext]_absVars
=============================================================================
