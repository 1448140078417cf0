------------------------------- MODULE Stacks -------------------------------
(***************************************************************************)
(* block/src/stacks.rs: a file of stack records shared by threads.         *)
(*                                                                         *)
(* Every record has a Cell: an RwLock over Slot{stack, dirty} and an       *)
(* atomic count of leases.  One mutex, Shared, owns the push/pop target,   *)
(* the table of cells and the LRU order.  A call is a chain of critical    *)
(* sections; each one is a step here, and a section that takes a second    *)
(* lock (evictor: shared then cell, loader: cell then shared) is cut at    *)
(* every point where another thread could see or race it.  The file mutex  *)
(* is a leaf: it is taken and released inside one step.                    *)
(*                                                                         *)
(* A stack is the sequence of its items; the byte record of a stack is     *)
(* that same sequence, and a record that was never written (set_len grew   *)
(* the file, the write failed) is Nil, as is the stack of an evicted slot. *)
(***************************************************************************)
EXTENDS Integers, Sequences, FiniteSets

CONSTANTS
    Threads,      \* callers; each owns a clone of the handle
    Items,        \* values to push, each pushed at most once
    Units,        \* Units[x]: the space item x takes in a record
    PerBlock,     \* the space of one record
    Budget,       \* resident blocks kept by eviction
    OpKinds,      \* the operations the threads call
    InitFiles,    \* contents of the file a behaviour may open first
    MaxBlocks,    \* bound: records the disk holds (set_len fails beyond)
    MaxOps,       \* bound: calls per thread
    MaxFaults,    \* bound: I/O calls that fail
    MaxReopens,   \* bound: reopens after the last handle was dropped
    StaleLoads,   \* TRUE: a Relaxed load may return an older value
    Nil           \* the absent stack, record, thread, item

AllOpKinds == {"push", "pop", "read", "lease", "flush", "len", "peek"}

Blocks == 0 .. MaxBlocks - 1

ASSUME ThreadsAssumption == Nil \notin Threads
ASSUME ItemsAssumption == Nil \notin Items /\ Nil \notin Seq(Items)
ASSUME UnitsAssumption == Units \in [Items -> Nat]
ASSUME BoundsAssumption ==
    /\ MaxBlocks \in Nat \ {0} /\ Budget \in Nat /\ PerBlock \in Nat
    /\ MaxOps \in Nat /\ MaxFaults \in Nat /\ MaxReopens \in Nat
    /\ StaleLoads \in BOOLEAN /\ OpKinds \subseteq AllOpKinds
ASSUME FilesAssumption ==
    InitFiles \subseteq {f \in Seq(Seq(Items)) : Len(f) <= MaxBlocks}
\* an item stands for one push: no file holds it twice
ASSUME OneCopyAssumption ==
    \A f \in InitFiles : \A i, j \in 1 .. Len(f) :
        \A m \in 1 .. Len(f[i]), n \in 1 .. Len(f[j]) :
            f[i][m] = f[j][n] => i = j /\ m = n

VARIABLES
    \* Cell of every block
    stack,           \* Slot.stack
    dirty,           \* Slot.dirty
    writer,          \* the thread holding the cell's write lock
    rguard,          \* the threads holding its read guard
    readers,         \* leases granted and not dropped
    \* Shared
    shared,          \* the thread holding the mutex
    top, ncells, resident,
    resident_count,  \* the atomic mirror of Len(resident)
    \* the file
    file, faults,
    \* the callers
    open, reopens,
    pc, op, blk, arg, lim, acc, cur, res, left,
    leased,          \* the block a thread holds a Lease of
    born, landed, gone   \* items given to push, stored by it, taken by pop

cellVars   == <<stack, dirty, writer, rguard, readers>>
sharedVars == <<shared, top, ncells, resident, resident_count>>
diskVars   == <<file, faults>>
lifeVars   == <<open, reopens>>
localVars  == <<op, blk, arg, lim, acc, cur>>
callVars   == <<left, leased>>
itemVars   == <<born, landed, gone>>
vars == <<cellVars, sharedVars, diskVars, lifeVars, localVars, callVars,
          itemVars, pc, res>>

-----------------------------------------------------------------------------
(* A record's space.                                                       *)

SpaceUsed(s) ==
    LET used[n \in 0 .. Len(s)] == IF n = 0 THEN 0 ELSE used[n - 1] + Units[s[n]]
    IN  used[Len(s)]

Fits(s, x) == SpaceUsed(s) + Units[x] <= PerBlock

ItemsIn(s) == {s[i] : i \in 1 .. Len(s)}

\* what a block holds now: its stack, or its record when it is evicted
Contents(b) == IF stack[b] # Nil THEN stack[b] ELSE file[b + 1]

Goto(t, l) == pc' = [pc EXCEPT ![t] = l] /\ UNCHANGED res

Return(t, r) == pc' = [pc EXCEPT ![t] = "idle"] /\ res' = [res EXCEPT ![t] = r]

Unlocked(b) == writer[b] = Nil /\ rguard[b] = {}

CanFault == faults < MaxFaults

Fault == CanFault /\ faults' = faults + 1

-----------------------------------------------------------------------------
(* Opening a file (load_with_budget): every record gets an evicted cell,   *)
(* the top is the last record.                                             *)

\* (mutant) a file is reopened at its first record
LastBlockFirst(f) == 0

LastBlock(f) == IF Len(f) = 0 THEN 0 ELSE Len(f) - 1

Init ==
    /\ file \in InitFiles
    /\ faults = 0 /\ open = TRUE /\ reopens = 0
    /\ stack = [b \in Blocks |-> Nil]
    /\ dirty = [b \in Blocks |-> FALSE]
    /\ writer = [b \in Blocks |-> Nil]
    /\ rguard = [b \in Blocks |-> {}]
    /\ readers = [b \in Blocks |-> 0]
    /\ shared = Nil /\ top = LastBlock(file) /\ ncells = Len(file)
    /\ resident = <<>> /\ resident_count = 0
    /\ pc = [t \in Threads |-> "idle"] /\ res = [t \in Threads |-> "-"]
    /\ op = [t \in Threads |-> "-"] /\ blk = [t \in Threads |-> 0]
    /\ arg = [t \in Threads |-> Nil] /\ lim = [t \in Threads |-> 0]
    /\ acc = [t \in Threads |-> 0] /\ cur = [t \in Threads |-> 1]
    /\ left = [t \in Threads |-> MaxOps]
    /\ leased = [t \in Threads |-> Nil]
    /\ born = UNION {ItemsIn(file[i]) : i \in 1 .. Len(file)}
    /\ landed = born /\ gone = {}

\* (mutant) the drop does not write the dirty records back
CloseUnwritten ==
    /\ open /\ \A t \in Threads : pc[t] = "idle"
    /\ open' = FALSE
    /\ stack' = [b \in Blocks |-> Nil] /\ dirty' = [b \in Blocks |-> FALSE]
    /\ readers' = [b \in Blocks |-> 0] /\ leased' = [t \in Threads |-> Nil]
    /\ resident' = <<>> /\ resident_count' = 0
    /\ UNCHANGED <<writer, rguard, shared, top, ncells, diskVars, reopens, localVars,
                   left, itemVars, pc, res>>

\* the last clone is dropped: Inner's Drop writes every dirty record back.
\* No call is running (a call borrows a clone).  A lease may outlive it: it
\* keeps only its cell, which nothing reaches any more.
Close ==
    /\ open /\ \A t \in Threads : pc[t] = "idle"
    /\ \E failed \in SUBSET {b \in Blocks : dirty[b]} :
          /\ faults + Cardinality(failed) <= MaxFaults
          /\ faults' = faults + Cardinality(failed)
          /\ file' = [i \in 1 .. Len(file) |->
                        IF dirty[i - 1] /\ i - 1 \notin failed THEN stack[i - 1]
                                                               ELSE file[i]]
    /\ open' = FALSE
    /\ stack' = [b \in Blocks |-> Nil] /\ dirty' = [b \in Blocks |-> FALSE]
    /\ readers' = [b \in Blocks |-> 0] /\ leased' = [t \in Threads |-> Nil]
    /\ resident' = <<>> /\ resident_count' = 0
    /\ UNCHANGED <<writer, rguard, shared, top, ncells, reopens, localVars,
                   left, itemVars, pc, res>>

\* load: the stride comes from record 0, a zeroed one is refused (BadCap)
Reopen ==
    /\ ~open /\ reopens < MaxReopens
    /\ Len(file) > 0 => file[1] # Nil
    /\ open' = TRUE /\ reopens' = reopens + 1
    /\ top' = LastBlock(file) /\ ncells' = Len(file)
    /\ left' = [t \in Threads |-> MaxOps]
    /\ UNCHANGED <<cellVars, shared, resident, resident_count, diskVars,
                   localVars, leased, itemVars, pc, res>>

-----------------------------------------------------------------------------
(* The calls.  read, lease and len_block name any block id; one past the   *)
(* table is answered UnknownBlock.                                         *)

Begin(t, k, b, x, l) ==
    /\ op' = [op EXCEPT ![t] = k]
    /\ blk' = [blk EXCEPT ![t] = b]
    /\ arg' = [arg EXCEPT ![t] = x]
    /\ lim' = [lim EXCEPT ![t] = 0]
    /\ acc' = [acc EXCEPT ![t] = 0]
    /\ pc' = [pc EXCEPT ![t] = l]
    /\ res' = [res EXCEPT ![t] = "-"]
    /\ left' = [left EXCEPT ![t] = @ - 1]
    /\ UNCHANGED <<cur, cellVars, sharedVars, diskVars, lifeVars, landed, gone>>

CanCall(t, k) == open /\ pc[t] = "idle" /\ left[t] > 0 /\ k \in OpKinds

CallPush(t) ==
    /\ CanCall(t, "push")
    /\ \E x \in Items \ born :
          Begin(t, "push", 0, x, "top") /\ born' = born \union {x}
    /\ UNCHANGED leased

CallPop(t) ==
    CanCall(t, "pop") /\ Begin(t, "pop", 0, Nil, "top") /\ UNCHANGED <<leased, born>>

CallRead(t) ==
    /\ CanCall(t, "read")
    /\ \E b \in Blocks : Begin(t, "read", b, Nil, "rtouch")
    /\ UNCHANGED <<leased, born>>

CallLease(t) ==
    /\ CanCall(t, "lease") /\ leased[t] = Nil
    /\ \E b \in Blocks : Begin(t, "lease", b, Nil, "rtouch")
    /\ UNCHANGED <<leased, born>>

CallFlush(t) ==
    CanCall(t, "flush") /\ Begin(t, "flush", 0, Nil, "cells") /\ UNCHANGED <<leased, born>>

CallLen(t) ==
    CanCall(t, "len") /\ Begin(t, "len", -1, Nil, "peek") /\ UNCHANGED <<leased, born>>

\* blocks(), top(), resident_ids(): one look at Shared
CallPeek(t) ==
    CanCall(t, "peek") /\ Begin(t, "peek", 0, Nil, "peek") /\ UNCHANGED <<leased, born>>

Call(t) ==
    \/ CallPush(t) \/ CallPop(t) \/ CallRead(t) \/ CallLease(t)
    \/ CallFlush(t) \/ CallLen(t) \/ CallPeek(t)

\* Drop of a Lease: the pin is released without any lock
DropLease(t) ==
    /\ pc[t] = "idle" /\ leased[t] # Nil
    /\ readers' = [readers EXCEPT ![leased[t]] = @ - 1]
    /\ leased' = [leased EXCEPT ![t] = Nil]
    /\ UNCHANGED <<stack, dirty, writer, rguard, sharedVars, diskVars, lifeVars,
                   localVars, left, itemVars, pc, res>>

-----------------------------------------------------------------------------
(* Sections under the shared mutex.                                        *)

Positions(b) == {i \in 1 .. Len(resident) : resident[i] = b}

RemoveIndex(s, i) == SubSeq(s, 1, i - 1) \o SubSeq(s, i + 1, Len(s))

\* the LRU touch: a resident block moves to the back
Touch(b) ==
    \/ Positions(b) = {} /\ UNCHANGED resident
    \/ \E i \in Positions(b) :
          /\ \A j \in Positions(b) : i <= j
          /\ resident' = Append(RemoveIndex(resident, i), b)

\* register: residency enters the LRU order and its count
Register(b) ==
    /\ resident' = Append(resident, b)
    /\ resident_count' = resident_count + 1

Grown == IF ncells = Len(file) THEN Append(file, Nil) ELSE file

\* append_block: the file grows, the empty birth record is written, the new
\* block becomes the top, resident and dirty
AppendBlock ==
    /\ ncells < MaxBlocks
    /\ file' = [Grown EXCEPT ![ncells + 1] = <<>>]
    /\ stack' = [stack EXCEPT ![ncells] = <<>>]
    /\ dirty' = [dirty EXCEPT ![ncells] = TRUE]
    /\ Register(ncells)
    /\ top' = ncells /\ ncells' = ncells + 1
    /\ UNCHANGED <<faults, writer, rguard, readers>>

\* set_len failed (the disk is full, or a fault), or the write after it did
AppendFails ==
    /\ \/ ncells = MaxBlocks /\ UNCHANGED diskVars
       \/ ncells < MaxBlocks /\ Fault /\ UNCHANGED file
       \/ ncells < MaxBlocks /\ Fault /\ file' = Grown
    /\ UNCHANGED <<cellVars, top, ncells, resident, resident_count>>

\* push and pop: read the target; push creates the first record
ReadTop(t) ==
    /\ pc[t] = "top" /\ shared = Nil
    /\ \/ /\ ncells > 0
          /\ blk' = [blk EXCEPT ![t] = top] /\ Goto(t, "touch")
          /\ UNCHANGED <<cellVars, top, ncells, resident, resident_count, diskVars>>
       \/ /\ ncells = 0 /\ op[t] = "pop"
          /\ Return(t, "none")
          /\ UNCHANGED <<blk, cellVars, top, ncells, resident, resident_count, diskVars>>
       \/ /\ ncells = 0 /\ op[t] = "push"
          /\ AppendBlock
          /\ blk' = [blk EXCEPT ![t] = top'] /\ Goto(t, "touch")
       \/ /\ ncells = 0 /\ op[t] = "push"
          /\ AppendFails
          /\ Return(t, "err") /\ UNCHANGED blk
    /\ UNCHANGED <<shared, lifeVars, op, arg, lim, acc, cur, callVars, itemVars>>

\* cell_of: touch the LRU order and take the cell
CellOf(t) ==
    /\ pc[t] \in {"rtouch", "touch"} /\ shared = Nil
    /\ Touch(blk[t])
    /\ IF blk[t] < ncells
       THEN Goto(t, IF pc[t] = "rtouch" THEN "rlock" ELSE "wlock")
       ELSE Return(t, "unknown")
    /\ UNCHANGED <<cellVars, shared, top, ncells, resident_count, diskVars, lifeVars,
                   localVars, callVars, itemVars>>

\* push after a full block: append unless a racing producer already did
Spill(t) ==
    /\ pc[t] = "spill" /\ shared = Nil
    /\ \/ /\ top # blk[t] /\ Goto(t, "top")
          /\ UNCHANGED <<cellVars, top, ncells, resident, resident_count, diskVars>>
       \/ top = blk[t] /\ AppendBlock /\ Goto(t, "top")
       \/ top = blk[t] /\ AppendFails /\ Return(t, "err")
    /\ UNCHANGED <<shared, lifeVars, localVars, callVars, itemVars>>

\* (mutants) retreat below the first block; stay there for ever; answer None
\* for the first empty block
RetreatBelow(t) ==
    /\ pc[t] = "retreat" /\ shared = Nil
    /\ Goto(t, "top")
    /\ top' = IF top = blk[t] THEN top - 1 ELSE top
    /\ UNCHANGED <<cellVars, shared, ncells, resident, resident_count, diskVars,
                   lifeVars, localVars, callVars, itemVars>>

RetreatStays(t) ==
    /\ pc[t] = "retreat" /\ shared = Nil
    /\ Goto(t, "top")
    /\ top' = IF top = blk[t] /\ top > 0 THEN top - 1 ELSE top
    /\ UNCHANGED <<cellVars, shared, ncells, resident, resident_count, diskVars,
                   lifeVars, localVars, callVars, itemVars>>

RetreatNone(t) ==
    /\ pc[t] = "retreat" /\ shared = Nil
    /\ Return(t, "none")
    /\ UNCHANGED <<cellVars, sharedVars, diskVars, lifeVars, localVars, callVars,
                   itemVars>>

\* pop after an empty block: retreat only from the block that was seen empty
Retreat(t) ==
    /\ pc[t] = "retreat" /\ shared = Nil
    /\ IF top = blk[t] /\ top = 0
       THEN Return(t, "none") /\ UNCHANGED top
       ELSE /\ Goto(t, "top")
            /\ top' = IF top = blk[t] THEN top - 1 ELSE top
    /\ UNCHANGED <<cellVars, shared, ncells, resident, resident_count, diskVars,
                   lifeVars, localVars, callVars, itemVars>>

\* blocks(), top(), resident_ids(); len() starts as blocks()
Peek(t) ==
    /\ pc[t] = "peek" /\ shared = Nil
    /\ lim' = [lim EXCEPT ![t] = IF op[t] = "len" THEN ncells ELSE 0]
    /\ Goto(t, "gate")
    /\ UNCHANGED <<cellVars, sharedVars, diskVars, lifeVars, op, blk, arg, acc, cur,
                   callVars, itemVars>>

\* (mutant) flush stops below the push target
ListCellsBelowTop(t) ==
    /\ pc[t] = "cells" /\ shared = Nil
    /\ lim' = [lim EXCEPT ![t] = top]
    /\ IF top = 0 THEN Return(t, "ok") ELSE Goto(t, "wlock")
    /\ UNCHANGED <<cellVars, sharedVars, diskVars, lifeVars, op, blk, arg, acc, cur,
                   callVars, itemVars>>

\* flush: the table as it is now, its blocks in id order
ListCells(t) ==
    /\ pc[t] = "cells" /\ shared = Nil
    /\ lim' = [lim EXCEPT ![t] = ncells]
    /\ IF ncells = 0 THEN Return(t, "ok") ELSE Goto(t, "wlock")
    /\ UNCHANGED <<cellVars, sharedVars, diskVars, lifeVars, op, blk, arg, acc, cur,
                   callVars, itemVars>>

-----------------------------------------------------------------------------
(* Sections under a cell's lock.                                           *)

\* the fast path of read and lease: the read guard
ReadLock(t) ==
    /\ pc[t] = "rlock" /\ writer[blk[t]] = Nil
    /\ rguard' = [rguard EXCEPT ![blk[t]] = @ \union {t}]
    /\ Goto(t, "rbody")
    /\ UNCHANGED <<stack, dirty, writer, readers, sharedVars, diskVars, lifeVars,
                   localVars, callVars, itemVars>>

\* resident: run the closure, or ship the snapshot and count the lease, and
\* return without enforcing the budget.  Absent: to the write path.
ReadBody(t) ==
    LET b == blk[t] IN
    /\ pc[t] = "rbody"
    /\ rguard' = [rguard EXCEPT ![b] = @ \ {t}]
    /\ IF stack[b] = Nil
       THEN Goto(t, "touch") /\ UNCHANGED <<readers, leased>>
       ELSE /\ Return(t, "ok")
            /\ IF op[t] = "lease"
               THEN /\ readers' = [readers EXCEPT ![b] = @ + 1]
                    /\ leased' = [leased EXCEPT ![t] = b]
               ELSE UNCHANGED <<readers, leased>>
    /\ UNCHANGED <<stack, dirty, writer, sharedVars, diskVars, lifeVars, localVars,
                   left, itemVars>>

WriteLock(t) ==
    /\ pc[t] = "wlock" /\ Unlocked(blk[t])
    /\ writer' = [writer EXCEPT ![blk[t]] = t]
    /\ Goto(t, IF op[t] = "flush" THEN "fbody" ELSE "ensure")
    /\ UNCHANGED <<stack, dirty, rguard, readers, sharedVars, diskVars, lifeVars,
                   localVars, callVars, itemVars>>

\* (mutant) the miss path loads without the recheck under the write lock
EnsureAgain(t) ==
    LET b == blk[t] IN
    /\ pc[t] = "ensure" /\ file[b + 1] # Nil
    /\ stack' = [stack EXCEPT ![b] = file[b + 1]]
    /\ Goto(t, IF stack[b] = Nil THEN "register" ELSE "body")
    /\ UNCHANGED <<dirty, writer, rguard, readers, sharedVars, diskVars, lifeVars,
                   localVars, callVars, itemVars>>

\* ensure: residency is rechecked under the write lock; an absent stack is
\* loaded from its record, the lock still held
Ensure(t) ==
    LET b == blk[t] IN
    /\ pc[t] = "ensure"
    /\ \/ /\ stack[b] # Nil /\ Goto(t, "body")
          /\ UNCHANGED <<stack, writer, diskVars>>
       \/ /\ stack[b] = Nil /\ file[b + 1] # Nil
          /\ stack' = [stack EXCEPT ![b] = file[b + 1]]
          /\ Goto(t, "register") /\ UNCHANGED <<writer, diskVars>>
       \/ /\ stack[b] = Nil
          /\ \/ file[b + 1] = Nil /\ UNCHANGED diskVars      \* StrideMismatch
             \/ Fault /\ UNCHANGED file
          /\ writer' = [writer EXCEPT ![b] = Nil]
          /\ Return(t, "err") /\ UNCHANGED stack
    /\ UNCHANGED <<dirty, rguard, readers, sharedVars, lifeVars, localVars, callVars,
                   itemVars>>

\* (mutant) residency is registered without the shared mutex
RegisterUnlocked(t) ==
    /\ pc[t] = "register"
    /\ Register(blk[t]) /\ Goto(t, "body")
    /\ UNCHANGED <<cellVars, shared, top, ncells, diskVars, lifeVars, localVars,
                   callVars, itemVars>>

\* the one edge from a cell's lock to the shared mutex
RegisterLoaded(t) ==
    /\ pc[t] = "register" /\ shared = Nil
    /\ Register(blk[t]) /\ Goto(t, "body")
    /\ UNCHANGED <<cellVars, shared, top, ncells, diskVars, lifeVars, localVars,
                   callVars, itemVars>>

\* (mutant) a push that fails a second time, after its spill, answers Cap
PushBodyRetry(t) ==
    LET b == blk[t]  x == arg[t] IN
    /\ IF Fits(stack[b], x)
       THEN /\ stack' = [stack EXCEPT ![b] = Append(@, x)]
            /\ dirty' = [dirty EXCEPT ![b] = TRUE]
            /\ landed' = landed \union {x}
            /\ Goto(t, "gate") /\ UNCHANGED acc
       ELSE /\ IF acc[t] = 1 THEN Return(t, "cap") ELSE Goto(t, "spill")
            /\ acc' = [acc EXCEPT ![t] = 1]
            /\ UNCHANGED <<stack, dirty, landed>>
    /\ UNCHANGED <<readers, leased, gone>>

\* push's closure: Ok lands the item and dirties the slot; Err tells an item
\* too big for an empty record (Cap) from a full block
PushBody(t) ==
    LET b == blk[t]  x == arg[t] IN
    /\ IF Fits(stack[b], x)
       THEN /\ stack' = [stack EXCEPT ![b] = Append(@, x)]
            /\ dirty' = [dirty EXCEPT ![b] = TRUE]
            /\ landed' = landed \union {x}
            /\ Goto(t, "gate")
       ELSE /\ IF stack[b] = <<>> THEN Return(t, "cap") ELSE Goto(t, "spill")
            /\ UNCHANGED <<stack, dirty, landed>>
    /\ UNCHANGED <<readers, leased, acc, gone>>

\* (mutant) a pop does not mark the record dirty
PopBodyClean(t) ==
    LET b == blk[t]  n == Len(stack[b]) IN
    /\ IF n = 0
       THEN Goto(t, "retreat") /\ UNCHANGED <<stack, gone>>
       ELSE /\ stack' = [stack EXCEPT ![b] = SubSeq(@, 1, n - 1)]
            /\ gone' = gone \union {stack[b][n]}
            /\ Goto(t, "gate")
    /\ UNCHANGED <<dirty, readers, leased, acc, landed>>

PopBody(t) ==
    LET b == blk[t]  n == Len(stack[b]) IN
    /\ IF n = 0
       THEN Goto(t, "retreat") /\ UNCHANGED <<stack, dirty, gone>>
       ELSE /\ stack' = [stack EXCEPT ![b] = SubSeq(@, 1, n - 1)]
            /\ dirty' = [dirty EXCEPT ![b] = TRUE]
            /\ gone' = gone \union {stack[b][n]}
            /\ Goto(t, "gate")
    /\ UNCHANGED <<readers, leased, acc, landed>>

\* the miss path of read, lease and every len_block
LookBody(t) ==
    LET b == blk[t] IN
    /\ Goto(t, "gate")
    /\ acc' = [acc EXCEPT ![t] = IF op[t] = "len" THEN @ + Len(stack[b]) ELSE @]
    /\ IF op[t] = "lease"
       THEN /\ readers' = [readers EXCEPT ![b] = @ + 1]
            /\ leased' = [leased EXCEPT ![t] = b]
       ELSE UNCHANGED <<readers, leased>>
    /\ UNCHANGED <<stack, dirty, landed, gone>>

\* with_slot's closure, then the write guard is dropped
Body(t) ==
    /\ pc[t] = "body"
    /\ \/ op[t] = "push" /\ PushBody(t)
       \/ op[t] = "pop" /\ PopBody(t)
       \/ op[t] \in {"read", "lease", "len"} /\ LookBody(t)
    /\ writer' = [writer EXCEPT ![blk[t]] = Nil]
    /\ UNCHANGED <<rguard, sharedVars, diskVars, lifeVars, op, blk, arg, lim, cur, left,
                   born>>

\* (mutant) the dirty flag is cleared before the write that may fail
FlushSlotForgets(b) ==
    IF dirty[b]
    THEN /\ dirty' = [dirty EXCEPT ![b] = FALSE]
         /\ \/ file' = [file EXCEPT ![b + 1] = stack[b]] /\ UNCHANGED faults
            \/ Fault /\ UNCHANGED file
    ELSE UNCHANGED <<file, dirty, faults>>

\* flush_slot: a dirty stack is written back; a failed write leaves it dirty
FlushSlot(b) ==
    IF dirty[b]
    THEN \/ /\ file' = [file EXCEPT ![b + 1] = stack[b]]
            /\ dirty' = [dirty EXCEPT ![b] = FALSE]
            /\ UNCHANGED faults
         \/ Fault /\ UNCHANGED <<file, dirty>>
    ELSE UNCHANGED <<file, dirty, faults>>

\* one record of flush(): the first error is kept, the others are still written
FlushBody(t) ==
    LET b == blk[t] IN
    /\ pc[t] = "fbody"
    /\ FlushSlot(b)
    /\ writer' = [writer EXCEPT ![b] = Nil]
    /\ acc' = [acc EXCEPT ![t] = IF faults' # faults THEN 1 ELSE @]
    /\ IF b + 1 < lim[t]
       THEN blk' = [blk EXCEPT ![t] = b + 1] /\ Goto(t, "wlock")
       ELSE Return(t, IF acc'[t] = 0 THEN "ok" ELSE "err") /\ UNCHANGED blk
    /\ UNCHANGED <<stack, rguard, readers, sharedVars, lifeVars, op, arg, lim, cur,
                   callVars, itemVars>>

-----------------------------------------------------------------------------
(* Budget enforcement after an operation, and the evictor.                 *)

\* (mutant) len() leaves out the last block
FinishEarly(t) ==
    IF op[t] = "len" /\ blk[t] + 2 < lim[t]
    THEN blk' = [blk EXCEPT ![t] = @ + 1] /\ Goto(t, "touch")
    ELSE Return(t, "ok") /\ UNCHANGED blk

\* the operation is over; len() goes on with its next block
Finish(t) ==
    IF op[t] = "len" /\ blk[t] + 1 < lim[t]
    THEN blk' = [blk EXCEPT ![t] = @ + 1] /\ Goto(t, "touch")
    ELSE Return(t, "ok") /\ UNCHANGED blk

\* enforce_budget: the count mirror decides, by a Relaxed load, whether the
\* mutex is taken at all
Gate(t) ==
    /\ pc[t] = "gate"
    /\ \/ /\ resident_count > Budget \/ StaleLoads
          /\ Goto(t, "evict") /\ UNCHANGED blk
       \/ /\ resident_count <= Budget \/ StaleLoads
          /\ Finish(t)
    /\ UNCHANGED <<cellVars, sharedVars, diskVars, lifeVars, op, arg, lim, acc, cur,
                   callVars, itemVars>>

EvictStart(t) ==
    /\ pc[t] = "evict" /\ shared = Nil
    /\ shared' = t
    /\ cur' = [cur EXCEPT ![t] = 1]
    /\ Goto(t, "scan")
    /\ UNCHANGED <<cellVars, top, ncells, resident, resident_count, diskVars, lifeVars,
                   op, blk, arg, lim, acc, callVars, itemVars>>

\* (mutant) one block over the budget is tolerated
HasCandidateOver(t) == Len(resident) > Budget + 1 /\ cur[t] < Len(resident)

\* a victim is sought from the LRU front, never the MRU at the back
HasCandidate(t) == Len(resident) > Budget /\ cur[t] < Len(resident)

Candidate(t) == resident[cur[t]]

\* the first look at the lease count, before the cell's lock
EvictScan(t) ==
    /\ pc[t] = "scan" /\ HasCandidate(t)
    /\ \/ /\ readers[Candidate(t)] # 0 \/ StaleLoads
          /\ cur' = [cur EXCEPT ![t] = @ + 1] /\ UNCHANGED pc
       \/ /\ readers[Candidate(t)] = 0 \/ StaleLoads
          /\ pc' = [pc EXCEPT ![t] = "take"] /\ UNCHANGED cur
    /\ UNCHANGED <<cellVars, sharedVars, diskVars, lifeVars, op, blk, arg, lim, acc, res,
                   callVars, itemVars>>

EvictEnd(t) ==
    /\ pc[t] = "scan" /\ ~HasCandidate(t)
    /\ shared' = Nil
    /\ cur' = [cur EXCEPT ![t] = 1]
    /\ Finish(t)
    /\ UNCHANGED <<cellVars, top, ncells, resident, resident_count, diskVars, lifeVars,
                   op, arg, lim, acc, callVars, itemVars>>

\* (mutant) the lease count is not read again under the cell's lock
EvictableUnchecked(b) == Unlocked(b)

\* try_write fails on a busy cell.  The lease count is read again under the
\* lock, where every grant is visible (a decrement may still be missed).
Evictable(b) == Unlocked(b) /\ readers[b] = 0

EvictSkip(t) ==
    /\ pc[t] = "take"
    /\ ~Evictable(Candidate(t)) \/ StaleLoads
    /\ cur' = [cur EXCEPT ![t] = @ + 1]
    /\ Goto(t, "scan")
    /\ UNCHANGED <<cellVars, sharedVars, diskVars, lifeVars, op, blk, arg, lim, acc,
                   callVars, itemVars>>

\* the write-back is best effort; the stack and its dirty flag go together
EvictTake(t) ==
    LET b == Candidate(t) IN
    /\ pc[t] = "take" /\ Evictable(b)
    /\ \/ dirty[b] /\ file' = [file EXCEPT ![b + 1] = stack[b]] /\ UNCHANGED faults
       \/ dirty[b] /\ Fault /\ UNCHANGED file
       \/ ~dirty[b] /\ UNCHANGED diskVars
    /\ stack' = [stack EXCEPT ![b] = Nil]
    /\ dirty' = [dirty EXCEPT ![b] = FALSE]
    /\ Goto(t, "unlist")
    /\ UNCHANGED <<writer, rguard, readers, sharedVars, lifeVars, localVars, callVars,
                   itemVars>>

\* the cell is already unlocked; the LRU order and its count follow
EvictUnlist(t) ==
    /\ pc[t] = "unlist"
    /\ resident' = RemoveIndex(resident, cur[t])
    /\ resident_count' = resident_count - 1
    /\ cur' = [cur EXCEPT ![t] = 1]
    /\ Goto(t, "scan")
    /\ UNCHANGED <<cellVars, shared, top, ncells, diskVars, lifeVars, op, blk, arg, lim,
                   acc, callVars, itemVars>>

-----------------------------------------------------------------------------
Step(t) ==
    \/ ReadTop(t) \/ CellOf(t) \/ Spill(t) \/ Retreat(t) \/ Peek(t) \/ ListCells(t)
    \/ ReadLock(t) \/ ReadBody(t) \/ WriteLock(t) \/ Ensure(t) \/ RegisterLoaded(t)
    \/ Body(t) \/ FlushBody(t)
    \/ Gate(t) \/ EvictStart(t) \/ EvictScan(t) \/ EvictEnd(t) \/ EvictSkip(t)
    \/ EvictTake(t) \/ EvictUnlist(t)

\* every call was made and every lease dropped, or the file stays closed
Done ==
    /\ \/ ~open
       \/ \A t \in Threads : pc[t] = "idle" /\ left[t] = 0 /\ leased[t] = Nil
    /\ UNCHANGED vars

Next ==
    \/ \E t \in Threads : Call(t) \/ DropLease(t) \/ Step(t)
    \/ Close \/ Reopen \/ Done

Spec == Init /\ [][Next]_vars

\* a thread inside a call keeps running; nothing makes it call again, drop
\* its lease or close the file
FairSpec == Spec /\ \A t \in Threads : WF_vars(Step(t))
-----------------------------------------------------------------------------
(* What the threads may rely on.                                           *)

Labels == {"idle", "top", "touch", "rtouch", "rlock", "rbody", "wlock", "ensure",
           "register", "body", "spill", "retreat", "peek", "cells", "fbody", "gate",
           "evict", "scan", "take", "unlist"}

Results == {"-", "ok", "none", "cap", "err", "unknown"}

Stackable == Seq(Items) \union {Nil}

CellsOK ==
    /\ stack \in [Blocks -> Stackable] /\ dirty \in [Blocks -> BOOLEAN]
    /\ writer \in [Blocks -> Threads \union {Nil}]
    /\ rguard \in [Blocks -> SUBSET Threads] /\ readers \in [Blocks -> Int]

SharedOK ==
    /\ shared \in Threads \union {Nil}
    /\ top \in Blocks /\ ncells \in 0 .. MaxBlocks
    /\ resident \in Seq(Blocks) /\ resident_count \in Int

DiskOK ==
    /\ file \in Seq(Stackable) /\ Len(file) \in ncells .. MaxBlocks
    /\ faults \in Nat /\ open \in BOOLEAN /\ reopens \in Nat

CallsOK ==
    /\ pc \in [Threads -> Labels]
    /\ res \in [Threads -> Results]
    /\ op \in [Threads -> AllOpKinds \union {"-"}]
    /\ blk \in [Threads -> Blocks \union {-1}]
    /\ arg \in [Threads -> Items \union {Nil}]
    /\ lim \in [Threads -> 0 .. MaxBlocks] /\ acc \in [Threads -> Int]
    /\ cur \in [Threads -> Nat \ {0}] /\ left \in [Threads -> Int]
    /\ leased \in [Threads -> Blocks \union {Nil}]

\* TypeOK: every variable holds a value of the kind the Rust field has; the
\* table of cells never outgrows the file.
TypeOK ==
    /\ CellsOK /\ SharedOK /\ DiskOK /\ CallsOK
    /\ born \subseteq Items /\ landed \subseteq Items /\ gone \subseteq Items

\* LeasePinned: while a lease of a block is held the block is resident: no
\* eviction slips between the evictor's first look at the lease count and the
\* cell's lock, whichever path granted the lease (stacks.rs:23-30, 411-420).
LeasePinned == \A b \in Blocks : readers[b] > 0 => stack[b] # Nil

\* ResidencyExact: the LRU order names each resident block once and its mirror
\* counts it; a block is out of step with its slot only while the thread that
\* loaded or evicted it has yet to record it, and a loader never registers a
\* block that is still listed (the debug_assert of register, stacks.rs:386).
ResidencyExact ==
    /\ resident_count = Len(resident)
    /\ \A i, j \in 1 .. Len(resident) : resident[i] = resident[j] => i = j
    /\ \A b \in Blocks :
          LET listed    == Positions(b) # {}
              loading   == \E t \in Threads : pc[t] = "register" /\ blk[t] = b
              unlisting == \E t \in Threads : pc[t] = "unlist" /\ Candidate(t) = b
          IN  /\ stack[b] # Nil /\ ~loading => listed /\ ~unlisting
              /\ stack[b] = Nil \/ loading => (listed <=> unlisting)

\* CleanIsOnFile: a stack that is not dirty equals its record, so dropping it
\* loses nothing, and no evicted slot is dirty (stacks.rs:424-428, 443).
CleanIsOnFile ==
    \A b \in Blocks : IF stack[b] = Nil THEN ~dirty[b]
                                       ELSE dirty[b] \/ file[b + 1] = stack[b]

Copies(x) ==
    UNION {{<<b, i>> : i \in {j \in 1 .. Len(Contents(b)) : Contents(b)[j] = x}}
              : b \in 0 .. Len(file) - 1}

\* Conservation: as long as no I/O call failed, an item a push stored is in one
\* place of one block until a pop returns it, and is nowhere afterwards: no
\* interleaving of pushes, pops, evictions and reloads loses, duplicates or
\* resurrects it (tests/stacks.rs:51 and :244 sample this).
Conservation ==
    faults = 0 =>
        \A x \in Items : Cardinality(Copies(x)) = IF x \in landed \ gone THEN 1 ELSE 0

\* NoFalseCap: push answers Cap only to an item no empty record could hold,
\* however producers race around a fresh record (subtle_bugs.md, 11).
NoFalseCap == \A t \in Threads : res[t] = "cap" => Units[arg[t]] > PerBlock

\* CallsEnd: every call returns: the lock order has no cycle, the evictor
\* never waits for a cell, and no retry goes on for ever.
CallsEnd == \A t \in Threads : pc[t] # "idle" ~> pc[t] = "idle"

\* NothingAboveTop: with one caller every block above the top is empty, which
\* is what makes push and pop a stack across blocks.
NothingAboveTop ==
    open => \A b \in top + 1 .. ncells - 1 : Contents(b) = <<>>

\* LenCounts: with one caller len() answers the number of stored items.
LenCounts ==
    \A t \in Threads : op[t] = "len" /\ res[t] = "ok" /\ pc[t] = "idle" =>
        \/ acc[t] = Cardinality(landed \ gone) \/ ~open

\* NoneMeansEmpty: with one caller pop answers None only if nothing is stored,
\* whatever it had to load or retreat past (stacks.rs:526-527).
NoneMeansEmpty ==
    \A t \in Threads : op[t] = "pop" /\ res[t] = "none" /\ pc[t] = "idle" => landed = gone

\* BudgetKept: with one caller, an operation that enforced the budget leaves
\* more than Budget blocks resident only if each of them but the most recently
\* used is leased (stacks.rs:28-31, tests/stacks.rs:91-93).
BudgetKept ==
    [][\A t \in Threads : pc[t] \in {"gate", "scan"} /\ pc'[t] = "idle" =>
          \/ Len(resident') <= Budget
          \/ \A i \in 1 .. Len(resident') - 1 : readers'[resident'[i]] > 0
      ]_vars
=============================================================================
