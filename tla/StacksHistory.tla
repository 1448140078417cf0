--------------------------- MODULE StacksHistory ----------------------------
(***************************************************************************)
(* Stacks with a history variable, for the property that relates the       *)
(* answer of a flush to what was stored when it was called.                *)
(***************************************************************************)
EXTENDS Stacks

VARIABLE
    atFlush      \* a running flush: what the blocks held when it was called

histVars == <<atFlush>>

StoredItems == UNION {ItemsIn(Contents(b)) : b \in 0 .. ncells - 1}

Begins(t, k) == pc[t] = "idle" /\ pc'[t] # "idle" /\ op'[t] = k

HistInit ==
    /\ Init
    /\ atFlush = [t \in Threads |-> {}]

Record ==
    atFlush' = [t \in Threads |->
        IF Begins(t, "flush") THEN StoredItems
        ELSE IF op'[t] = "flush" THEN atFlush[t] ELSE {}]

HistNext == Next /\ Record

HistSpec == HistInit /\ [][HistNext]_<<vars, histVars>>

HistFairSpec ==
    HistSpec /\ \A t \in Threads : WF_<<vars, histVars>>(Step(t) /\ Record)

\* FlushCovers: when flush answers Ok and no write failed, every item that was
\* stored when it was called is on file or has been popped since, whatever was
\* evicted, loaded or appended while flush walked the cells (stacks.rs:661-672).
FlushCovers ==
    \A t \in Threads : op[t] = "flush" /\ res[t] = "ok" /\ faults = 0 =>
        atFlush[t] \subseteq gone \union UNION {ItemsIn(file[i]) : i \in 1 .. Len(file)}

\* ClosedFileReads: the file the last handle leaves behind holds a valid record
\* for each block, if only an empty one (stacks.rs:5-6, 451-454).
ClosedFileReads == ~open => \A i \in 1 .. Len(file) : file[i] # Nil
=============================================================================
