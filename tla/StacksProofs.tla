---------------------------- MODULE StacksProofs ----------------------------
(***************************************************************************)
(* Theorems about Stacks, for any number of threads, items and blocks: the *)
(* types, one claimant to a block, the pool, the file, the counters and    *)
(* the lock.  Then what the calls do to the blocks a caller could read: no *)
(* item is lost or doubled and the file follows the blocks; a flush puts   *)
(* on file what was stored when it was called; and what one caller may     *)
(* rely on: len, None, the budget, and that the blocks are one stack.      *)
(* That stack is the concatenation of the blocks, a function defined by    *)
(* recursion; what it computes is shown by induction on the number of      *)
(* blocks, by the least-number principle.                                  *)
(***************************************************************************)
EXTENDS StacksBlocks, StacksHistory, ListLemmas

\* Taking one element out of a sequence leaves a sequence one shorter.
LEMMA RemoveIndexType ==
    ASSUME NEW S, NEW s \in Seq(S), NEW i \in 1 .. Len(s)
    PROVE  /\ RemoveIndex(s, i) \in Seq(S)
           /\ Len(RemoveIndex(s, i)) = Len(s) - 1
<1>. DEFINE before == SubSeq(s, 1, i - 1)
            after  == SubSeq(s, i + 1, Len(s))
<1>0. Len(s) \in Nat /\ i \in Nat  BY LenProperties
<1>1. before \in Seq(S) /\ Len(before) = i - 1
  <2>1. \A k \in 1 .. i - 1 : s[k] \in S  BY <1>0, ElementOfSeq
  <2>. QED  BY <1>0, <2>1, SubSeqProperties
<1>2. after \in Seq(S) /\ Len(after) = Len(s) - i
  <2>1. \A k \in i + 1 .. Len(s) : s[k] \in S  BY <1>0, ElementOfSeq
  <2>. QED  BY <1>0, <2>1, SubSeqProperties
<1>3. /\ before \o after \in Seq(S)
      /\ Len(before \o after) = Len(before) + Len(after)
  <2>. HIDE DEF before, after
  <2>. QED  BY <1>1, <1>2, ConcatProperties
<1>4. RemoveIndex(s, i) = before \o after  BY DEF RemoveIndex
<1>. HIDE DEF before, after
<1>5. RemoveIndex(s, i) \in Seq(S)  BY <1>3, <1>4
<1>6. Len(RemoveIndex(s, i)) = Len(before) + Len(after)  BY <1>3, <1>4
<1>. QED  BY <1>0, <1>1, <1>2, <1>5, <1>6

\* Moving a block to the most recently used end keeps the LRU list a list of
\* blocks (touch, stacks.rs:374-382).
LEMMA TouchType ==
    ASSUME NEW b \in Blocks, resident \in Seq(Blocks), Touch(b)
    PROVE  resident' \in Seq(Blocks)
<1>1. CASE Positions(b) = {} /\ UNCHANGED resident  BY <1>1
<1>2. CASE Positions(b) # {}
  <2>1. PICK i \in 1 .. Len(resident) : resident' = Append(RemoveIndex(resident, i), b)
    BY <1>2 DEF Touch, Positions
  <2>. QED  BY <2>1, RemoveIndexType, AppendProperties
<1>. QED  BY <1>1, <1>2 DEF Touch
-----------------------------------------------------------------------------
(* The inductive invariant.                                                *)

\* a thread past cell_of works on a block of the table
OnTable(t) ==
    /\ pc[t] \in {"touch", "rtouch"} => blk[t] \in Blocks
    /\ pc[t] \in {"rlock", "rbody", "wlock", "ensure", "register", "body", "fbody"} =>
          blk[t] \in 0 .. ncells - 1
    /\ pc[t] = "cells" => blk[t] = 0
    /\ lim[t] <= ncells
    /\ op[t] = "push" => arg[t] \in Items

\* it holds the locks its place in the code implies, keeps its block resident
\* under them, and the evictor's victim stays listed
HoldsLocks(t) ==
    /\ pc[t] \in {"ensure", "register", "body", "fbody"} => writer[blk[t]] = t
    /\ pc[t] \in {"register", "body"} => stack[blk[t]] # Nil
    /\ pc[t] \in {"scan", "take", "unlist"} => shared = t
    /\ pc[t] \in {"take", "unlist"} => cur[t] \in 1 .. Len(resident)

LockInv == \A t \in Threads : OnTable(t) /\ HoldsLocks(t)

IInv == TypeOK /\ LockInv /\ LeasePinned

\* A step that goes on to another label of the call keeps pc and res typed.
LEMMA GotoTypes ==
    ASSUME CallsOK, NEW t \in Threads, NEW l \in Labels, Goto(t, l)
    PROVE  pc' \in [Threads -> Labels] /\ res' \in [Threads -> Results]
BY DEF CallsOK, Goto

\* A step that ends the call keeps pc and res typed.
LEMMA ReturnTypes ==
    ASSUME CallsOK, NEW t \in Threads, NEW r \in Results, Return(t, r)
    PROVE  pc' \in [Threads -> Labels] /\ res' \in [Threads -> Results]
<1>1. "idle" \in Labels  BY DEF Labels
<1>. QED  BY <1>1 DEF CallsOK, Return

\* A step of t that leaves alone the locals of the other threads, the locks
\* they hold and what those protect keeps the lock invariant if t keeps it.
LEMMA LockFrame ==
    ASSUME IInv, NEW t \in Threads,
           \A u \in Threads \ {t} :
              /\ pc'[u] = pc[u] /\ blk'[u] = blk[u] /\ op'[u] = op[u]
              /\ arg'[u] = arg[u] /\ lim'[u] = lim[u] /\ cur'[u] = cur[u],
           ncells' \in ncells .. MaxBlocks,
           \A b \in Blocks : writer[b] \in Threads \ {t} =>
              /\ writer'[b] = writer[b]
              /\ stack[b] # Nil => stack'[b] # Nil,
           shared \in Threads \ {t} => shared' = shared /\ resident' = resident,
           OnTable(t)', HoldsLocks(t)'
    PROVE  LockInv'
<1>. SUFFICES ASSUME NEW u \in Threads \ {t} PROVE OnTable(u)' /\ HoldsLocks(u)'
  BY DEF LockInv
<1>1. OnTable(u) /\ HoldsLocks(u)  BY DEF IInv, LockInv
<1>2. lim[u] \in Nat /\ ncells \in Nat /\ ncells <= MaxBlocks
  BY BoundsAssumption DEF IInv, TypeOK, CallsOK, SharedOK
<1>3. \A n \in 0 .. ncells - 1 : n \in 0 .. ncells' - 1 /\ n \in Blocks
  BY <1>2, BoundsAssumption DEF Blocks
<1>4. lim[u] <= ncells'  BY <1>1, <1>2, BoundsAssumption DEF OnTable
<1>5. OnTable(u)'  BY <1>1, <1>3, <1>4 DEF OnTable
<1>6. HoldsLocks(u)'  BY <1>1, <1>3 DEF OnTable, HoldsLocks
<1>. QED  BY <1>5, <1>6

\* A call that is past its look at the table is at a block of the table.
LEMMA BlockOf ==
    ASSUME IInv, NEW t \in Threads,
           pc[t] \in {"rlock", "rbody", "wlock", "ensure", "register", "body", "fbody"}
    PROVE  blk[t] \in Blocks /\ blk[t] \in 0 .. ncells - 1 /\ blk[t] + 1 \in 1 .. Len(file)
<1>1. blk[t] \in 0 .. ncells - 1  BY DEF IInv, LockInv, OnTable
<1>2. ncells \in 0 .. MaxBlocks /\ Len(file) \in ncells .. MaxBlocks
  BY DEF IInv, TypeOK, SharedOK, DiskOK
<1>. QED  BY <1>1, <1>2, BoundsAssumption DEF Blocks

-----------------------------------------------------------------------------
\* A file just created or opened satisfies the invariant (stacks.rs:218-294).
LEMMA InitIInv == Init => IInv
<1>. SUFFICES ASSUME Init PROVE IInv  OBVIOUS
<1>1. file \in Seq(Seq(Items)) /\ Len(file) \in 0 .. MaxBlocks
  BY FilesAssumption, BoundsAssumption, LenProperties DEF Init
<1>2. CellsOK  BY DEF Init, CellsOK, Stackable
<1>3. SharedOK
  BY <1>1, BoundsAssumption, EmptySeq DEF Init, SharedOK, LastBlock, Blocks
<1>4. DiskOK
  <2>1. Seq(Items) \subseteq Stackable  BY DEF Stackable
  <2>2. file \in Seq(Stackable)  BY <1>1, <2>1, SeqMonotonic
  <2>. QED  BY <1>1, <2>2 DEF Init, DiskOK
<1>5. CallsOK
  BY BoundsAssumption DEF Init, CallsOK, Labels, Results, AllOpKinds, Blocks
<1>6. born \subseteq Items /\ landed \subseteq Items /\ gone \subseteq Items
  <2>1. \A i \in 1 .. Len(file) : ItemsIn(file[i]) \subseteq Items
    <3>. SUFFICES ASSUME NEW i \in 1 .. Len(file), NEW j \in 1 .. Len(file[i])
                  PROVE  file[i][j] \in Items
      BY DEF ItemsIn
    <3>1. file[i] \in Seq(Items)  BY <1>1, ElementOfSeq
    <3>. QED  BY <3>1, ElementOfSeq
  <2>. QED  BY <2>1 DEF Init
<1>7. LockInv  BY <1>1 DEF Init, LockInv, OnTable, HoldsLocks
<1>8. LeasePinned  BY DEF Init, LeasePinned
<1>. QED  BY <1>2, <1>3, <1>4, <1>5, <1>6, <1>7, <1>8 DEF IInv, TypeOK

-----------------------------------------------------------------------------
(* The life of the file.                                                   *)

\* The drop of the last handle keeps the invariant (stacks.rs:199-210).
LEMMA CloseIInv ==
    ASSUME IInv, Close
    PROVE  IInv'
<1>1. CellsOK'  BY DEF IInv, TypeOK, CellsOK, Close, Stackable
<1>2. SharedOK'  BY EmptySeq DEF IInv, TypeOK, SharedOK, Close
<1>3. DiskOK'
  <2>1. PICK failed \in SUBSET {b \in Blocks : dirty[b]} :
          /\ faults' = faults + Cardinality(failed)
          /\ file' = [i \in 1 .. Len(file) |->
                        IF dirty[i - 1] /\ i - 1 \notin failed THEN stack[i - 1]
                                                               ELSE file[i]]
    BY DEF Close
  <2>2. faults' \in Nat
    <3>1. IsFiniteSet(Blocks)  BY BoundsAssumption, FS_Interval DEF Blocks
    <3>2. IsFiniteSet(failed)  BY <3>1, FS_Subset
    <3>. QED  BY <2>1, <3>2, FS_CardinalityType DEF IInv, TypeOK, DiskOK
  <2>3. file \in Seq(Stackable) /\ Len(file) \in ncells .. MaxBlocks /\ Len(file) \in Nat
    BY LenProperties DEF IInv, TypeOK, DiskOK
  <2>4. \A i \in 1 .. Len(file) : stack[i - 1] \in Stackable /\ file[i] \in Stackable
    <3>1. \A i \in 1 .. Len(file) : i - 1 \in Blocks  BY <2>3, BoundsAssumption DEF Blocks
    <3>. QED  BY <2>3, <3>1, ElementOfSeq DEF IInv, TypeOK, CellsOK
  <2>5. file' \in Seq(Stackable) /\ Len(file') = Len(file)
    BY <2>1, <2>3, <2>4
  <2>. QED  BY <2>2, <2>3, <2>5 DEF IInv, TypeOK, DiskOK, Close
<1>4. CallsOK'  BY DEF IInv, TypeOK, CallsOK, Close, localVars
<1>5. LockInv'  BY DEF IInv, LockInv, OnTable, HoldsLocks, Close, localVars
<1>6. LeasePinned'  BY DEF LeasePinned, Close
<1>. QED  BY <1>1, <1>2, <1>3, <1>4, <1>5, <1>6 DEF IInv, TypeOK, Close, itemVars

\* Opening the file again keeps the invariant (stacks.rs:247-294).
LEMMA ReopenIInv ==
    ASSUME IInv, Reopen
    PROVE  IInv'
<1>1. Len(file) \in ncells .. MaxBlocks /\ Len(file) \in Nat /\ ncells \in Nat
  BY LenProperties DEF IInv, TypeOK, DiskOK, SharedOK
<1>2. CellsOK'  BY DEF IInv, TypeOK, CellsOK, Reopen, cellVars
<1>3. SharedOK'
  <2>1. top' \in Blocks /\ ncells' \in 0 .. MaxBlocks
    <3>1. file \in Seq(Stackable)  BY DEF IInv, TypeOK, DiskOK
    <3>2. LastBlock(file) \in Blocks
      BY <1>1, <3>1, BoundsAssumption DEF LastBlock, Blocks
    <3>. QED  BY <1>1, <3>2 DEF Reopen
  <2>2. UNCHANGED <<shared, resident, resident_count>>  BY DEF Reopen
  <2>. QED  BY <2>1, <2>2 DEF IInv, TypeOK, SharedOK
<1>4. DiskOK'  BY <1>1 DEF IInv, TypeOK, DiskOK, Reopen, diskVars
<1>5. CallsOK'  BY BoundsAssumption DEF IInv, TypeOK, CallsOK, Reopen, localVars
<1>6. LockInv'
  <2>. SUFFICES ASSUME NEW u \in Threads PROVE OnTable(u)' /\ HoldsLocks(u)'
    BY DEF LockInv
  <2>1. OnTable(u)'
    <3>1. lim[u] \in Nat  BY DEF IInv, TypeOK, CallsOK
    <3>. QED  BY <1>1, <3>1 DEF IInv, LockInv, OnTable, Reopen, localVars
  <2>2. HoldsLocks(u)'
    BY DEF IInv, LockInv, HoldsLocks, Reopen, localVars, cellVars
  <2>. QED  BY <2>1, <2>2
<1>7. LeasePinned'  BY DEF IInv, LeasePinned, Reopen, cellVars
<1>. QED  BY <1>2, <1>3, <1>4, <1>5, <1>6, <1>7 DEF IInv, TypeOK, Reopen, itemVars

-----------------------------------------------------------------------------
(* The calls.                                                              *)

\* A call that starts holds no lock, and keeps the invariant.
LEMMA BeginIInv ==
    ASSUME IInv, NEW t \in Threads, NEW k \in AllOpKinds, NEW b \in Blocks \union {-1},
           NEW x \in Items \union {Nil}, NEW l \in {"top", "rtouch", "cells", "peek"},
           Begin(t, k, b, x, l), UNCHANGED leased, born' \subseteq Items,
           k = "push" => x \in Items, l = "rtouch" => b \in Blocks, l = "cells" => b = 0
    PROVE  IInv'
<1>1. CellsOK'  BY DEF IInv, TypeOK, CellsOK, Begin, cellVars
<1>2. SharedOK'  BY DEF IInv, TypeOK, SharedOK, Begin, sharedVars
<1>3. DiskOK'  BY DEF IInv, TypeOK, DiskOK, Begin, sharedVars, diskVars, lifeVars
<1>4. CallsOK'
  BY BoundsAssumption DEF IInv, TypeOK, CallsOK, Begin, Labels, Results
<1>5. LockInv'
  <2>. SUFFICES ASSUME NEW u \in Threads PROVE OnTable(u)' /\ HoldsLocks(u)'
    BY DEF LockInv
  <2>1. CASE u = t
    <3>1. pc'[t] = l /\ blk'[t] = b /\ lim'[t] = 0 /\ op'[t] = k /\ arg'[t] = x
      BY DEF IInv, TypeOK, CallsOK, Begin
    <3>2. ncells' \in Nat  BY <1>2 DEF SharedOK
    <3>. QED  BY <2>1, <3>1, <3>2 DEF OnTable, HoldsLocks
  <2>2. CASE u # t
    BY <2>2 DEF IInv, TypeOK, CallsOK, LockInv, OnTable, HoldsLocks, Begin, sharedVars,
                cellVars
  <2>. QED  BY <2>1, <2>2
<1>6. LeasePinned'  BY DEF IInv, LeasePinned, Begin, cellVars
<1>. QED  BY <1>1, <1>2, <1>3, <1>4, <1>5, <1>6 DEF IInv, TypeOK, Begin

\* Every public operation starts that way.
LEMMA CallIInv ==
    ASSUME IInv, NEW t \in Threads, Call(t)
    PROVE  IInv'
<1>. USE BeginIInv, BoundsAssumption DEF AllOpKinds, Blocks, IInv, TypeOK
<1>1. CASE CallPush(t)
  <2>1. PICK x \in Items \ born : Begin(t, "push", 0, x, "top") /\ born' = born \union {x}
    BY <1>1 DEF CallPush
  <2>. QED  BY <1>1, <2>1 DEF CallPush
<1>2. CASE CallPop(t)  BY <1>2 DEF CallPop
<1>3. CASE CallRead(t)  BY <1>3 DEF CallRead
<1>4. CASE CallLease(t)  BY <1>4 DEF CallLease
<1>5. CASE CallFlush(t)  BY <1>5 DEF CallFlush
<1>6. CASE CallLen(t)  BY <1>6 DEF CallLen
<1>7. CASE CallPeek(t)  BY <1>7 DEF CallPeek
<1>. QED  BY <1>1, <1>2, <1>3, <1>4, <1>5, <1>6, <1>7 DEF Call

\* A dropped lease takes its own count back only (stacks.rs:170-174).
LEMMA DropLeaseIInv ==
    ASSUME IInv, NEW t \in Threads, DropLease(t)
    PROVE  IInv'
<1>1. CellsOK'  BY DEF IInv, TypeOK, CellsOK, CallsOK, DropLease
<1>2. SharedOK'  BY DEF IInv, TypeOK, SharedOK, DropLease, sharedVars
<1>3. DiskOK'  BY DEF IInv, TypeOK, DiskOK, DropLease, sharedVars, diskVars, lifeVars
<1>4. CallsOK'  BY DEF IInv, TypeOK, CallsOK, DropLease, localVars
<1>5. LockInv'
  BY DEF IInv, LockInv, OnTable, HoldsLocks, DropLease, localVars, sharedVars
<1>6. LeasePinned'  BY DEF IInv, TypeOK, CellsOK, CallsOK, LeasePinned, DropLease
<1>. QED  BY <1>1, <1>2, <1>3, <1>4, <1>5, <1>6 DEF IInv, TypeOK, DropLease, itemVars

-----------------------------------------------------------------------------
(* Sections under the shared mutex.                                        *)

\* What append_block changes: one more cell, resident, clean and empty
\* (stacks.rs:451-475).
LEMMA AppendBlockFacts ==
    ASSUME IInv, AppendBlock
    PROVE  /\ CellsOK' /\ file' \in Seq(Stackable) /\ Len(file') \in ncells' .. MaxBlocks
           /\ top' \in Blocks /\ ncells' \in 0 .. MaxBlocks /\ ncells' = ncells + 1
           /\ resident' \in Seq(Blocks) /\ resident_count' \in Int
           /\ \A b \in Blocks : stack[b] # Nil => stack'[b] # Nil
           /\ LeasePinned'
<1>1. ncells \in 0 .. MaxBlocks - 1 /\ ncells \in Blocks
  BY BoundsAssumption DEF IInv, TypeOK, SharedOK, AppendBlock, Blocks
<1>2. <<>> \in Stackable /\ <<>> # Nil  BY ItemsAssumption, EmptySeq DEF Stackable
<1>3. CellsOK'  BY <1>1, <1>2 DEF IInv, TypeOK, CellsOK, AppendBlock
<1>4. /\ Grown \in Seq(Stackable)
      /\ Len(Grown) \in ncells + 1 .. MaxBlocks
  <2>1. file \in Seq(Stackable) /\ Len(file) \in ncells .. MaxBlocks /\ Nil \in Stackable
    BY DEF IInv, TypeOK, DiskOK, Stackable
  <2>2. CASE ncells = Len(file)
    BY <1>1, <2>1, <2>2, AppendProperties, BoundsAssumption DEF Grown
  <2>3. CASE ncells # Len(file)  BY <1>1, <2>1, <2>3, BoundsAssumption DEF Grown
  <2>. QED  BY <2>2, <2>3
<1>5. file' \in Seq(Stackable) /\ Len(file') = Len(Grown)
  BY <1>1, <1>2, <1>4, ExceptSeq DEF AppendBlock
<1>6. resident' \in Seq(Blocks) /\ resident_count' \in Int
  BY <1>1, AppendProperties DEF IInv, TypeOK, SharedOK, AppendBlock, Register
<1>7. \A b \in Blocks : stack[b] # Nil => stack'[b] # Nil
  BY <1>1, <1>2 DEF IInv, TypeOK, CellsOK, AppendBlock
<1>8. LeasePinned'  BY <1>7 DEF IInv, LeasePinned, AppendBlock
<1>9. top' \in Blocks /\ ncells' = ncells + 1 /\ ncells' \in 0 .. MaxBlocks
  BY <1>1, BoundsAssumption DEF AppendBlock
<1>. QED  BY <1>3, <1>4, <1>5, <1>6, <1>7, <1>8, <1>9

\* What a failed append_block changes: at most the length of the file
\* (stacks.rs:459-467).
LEMMA AppendFailsFacts ==
    ASSUME IInv, AppendFails
    PROVE  /\ CellsOK' /\ file' \in Seq(Stackable) /\ Len(file') \in ncells .. MaxBlocks
           /\ faults' \in Nat /\ LeasePinned'
           /\ UNCHANGED <<cellVars, top, ncells, resident, resident_count>>
<1>1. file \in Seq(Stackable) /\ Len(file) \in ncells .. MaxBlocks /\ Nil \in Stackable
      /\ ncells \in 0 .. MaxBlocks /\ faults \in Nat
  BY DEF IInv, TypeOK, DiskOK, SharedOK, Stackable
<1>2. CellsOK'  BY DEF IInv, TypeOK, CellsOK, AppendFails, cellVars
<1>3. LeasePinned'  BY DEF IInv, LeasePinned, AppendFails, cellVars
<1>4. faults' \in Nat  BY <1>1 DEF AppendFails, diskVars, Fault
<1>5. file' \in Seq(Stackable) /\ Len(file') \in ncells .. MaxBlocks
  <2>1. CASE file' = file  BY <1>1, <2>1
  <2>2. CASE ncells < MaxBlocks /\ file' = Grown
    <3>1. CASE ncells = Len(file)
      BY <1>1, <2>2, <3>1, AppendProperties, BoundsAssumption DEF Grown
    <3>2. CASE ncells # Len(file)  BY <1>1, <2>2, <3>2 DEF Grown
    <3>. QED  BY <3>1, <3>2
  <2>. QED  BY <2>1, <2>2 DEF AppendFails, diskVars
<1>. QED  BY <1>2, <1>3, <1>4, <1>5 DEF AppendFails

\* what a section under the mutex that may append leaves
Appended ==
    /\ CellsOK' /\ file' \in Seq(Stackable) /\ Len(file') \in ncells' .. MaxBlocks
    /\ faults' \in Nat /\ top' \in Blocks /\ ncells' \in ncells .. MaxBlocks
    /\ resident' \in Seq(Blocks) /\ resident_count' \in Int
    /\ \A b \in Blocks : stack[b] # Nil => stack'[b] # Nil
    /\ writer' = writer /\ LeasePinned'

\* The invariant after append_block, for any label the caller goes to.
LEMMA AppendedFacts ==
    ASSUME IInv,
           \/ UNCHANGED <<cellVars, top, ncells, resident, resident_count, diskVars>>
           \/ AppendBlock \/ AppendFails
    PROVE  Appended
<1>0. ncells \in 0 .. MaxBlocks /\ faults \in Nat
  BY DEF IInv, TypeOK, SharedOK, DiskOK
<1>1. CASE UNCHANGED <<cellVars, top, ncells, resident, resident_count, diskVars>>
  <2>1. CellsOK'  BY <1>1 DEF IInv, TypeOK, CellsOK, cellVars
  <2>2. LeasePinned'  BY <1>1 DEF IInv, LeasePinned, cellVars
  <2>. QED  BY <1>0, <1>1, <2>1, <2>2
            DEF Appended, IInv, TypeOK, SharedOK, DiskOK, cellVars, diskVars
<1>2. CASE AppendBlock
  <2>1. writer' = writer /\ faults' = faults  BY <1>2 DEF AppendBlock
  <2>. QED  BY <1>0, <1>2, <2>1, AppendBlockFacts DEF Appended
<1>3. CASE AppendFails
  BY <1>0, <1>3, AppendFailsFacts DEF Appended, IInv, TypeOK, SharedOK, cellVars
<1>. QED  BY <1>1, <1>2, <1>3

\* push's look at the target, and its first block, keep the invariant
\* (stacks.rs:493-499).
LEMMA ReadTopIInv ==
    ASSUME IInv, NEW t \in Threads, ReadTop(t)
    PROVE  IInv'
<1>1. Appended  BY AppendedFacts DEF ReadTop
<1>. DEFINE called == \/ /\ blk' = blk /\ pc' = [pc EXCEPT ![t] = "idle"]
                      \/ /\ blk'[t] \in Blocks /\ blk' = [blk EXCEPT ![t] = blk'[t]]
                         /\ pc' = [pc EXCEPT ![t] = "touch"]
<1>2. called /\ res' \in [Threads -> Results]
  <2>1. top \in Blocks /\ top' \in Blocks  BY <1>1 DEF IInv, TypeOK, SharedOK, Appended
  <2>2. blk \in [Threads -> Blocks \union {-1}] /\ res \in [Threads -> Results]
    BY DEF IInv, TypeOK, CallsOK
  <2>. QED  BY <2>1, <2>2 DEF ReadTop, Goto, Return, Results
<1>. HIDE DEF called
<1>3. SharedOK'
  <2>1. ncells \in Nat  BY DEF IInv, TypeOK, SharedOK
  <2>. QED  BY <1>1, <2>1 DEF IInv, TypeOK, SharedOK, ReadTop, Appended
<1>4. DiskOK'  BY <1>1 DEF IInv, TypeOK, DiskOK, ReadTop, lifeVars, Appended
<1>5. CallsOK'
  BY <1>2 DEF IInv, TypeOK, CallsOK, ReadTop, callVars, called, Labels
<1>6. LockInv'
  <2>1. /\ pc \in [Threads -> Labels] /\ blk \in [Threads -> Blocks \union {-1}]
        /\ lim[t] \in Nat /\ ncells \in Nat /\ OnTable(t) /\ HoldsLocks(t)
    BY DEF IInv, TypeOK, CallsOK, SharedOK, LockInv
  <2>2. OnTable(t)' /\ HoldsLocks(t)'
    <3>1. lim[t] <= ncells'  BY <1>1, <2>1 DEF OnTable, Appended
    <3>. QED  BY <1>2, <2>1, <3>1 DEF OnTable, HoldsLocks, ReadTop, called
  <2>3. \A u \in Threads \ {t} : pc'[u] = pc[u] /\ blk'[u] = blk[u]
    BY <1>2, <2>1 DEF called
  <2>. QED  BY <1>1, <2>2, <2>3, LockFrame, ThreadsAssumption DEF ReadTop, Appended
<1>. QED
  BY <1>1, <1>3, <1>4, <1>5, <1>6 DEF IInv, TypeOK, ReadTop, itemVars, Appended

\* The spill to a new block keeps the invariant (stacks.rs:477-486).
LEMMA SpillIInv ==
    ASSUME IInv, NEW t \in Threads, Spill(t)
    PROVE  IInv'
<1>1. Appended  BY AppendedFacts DEF Spill
<1>2. /\ pc' \in [Threads -> Labels] /\ res' \in [Threads -> Results]
      /\ pc'[t] \in {"top", "idle"} /\ \A u \in Threads \ {t} : pc'[u] = pc[u]
  BY DEF IInv, TypeOK, CallsOK, Spill, Goto, Return, Labels, Results
<1>3. SharedOK'
  <2>1. ncells \in Nat  BY DEF IInv, TypeOK, SharedOK
  <2>. QED  BY <1>1, <2>1 DEF IInv, TypeOK, SharedOK, Spill, Appended
<1>4. DiskOK'  BY <1>1 DEF IInv, TypeOK, DiskOK, Spill, lifeVars, Appended
<1>5. CallsOK'
  BY <1>2 DEF IInv, TypeOK, CallsOK, Spill, callVars, localVars
<1>6. LockInv'
  <2>1. lim[t] \in Nat /\ ncells \in Nat /\ OnTable(t)
    BY DEF IInv, TypeOK, CallsOK, SharedOK, LockInv
  <2>2. lim[t] <= ncells'  BY <1>1, <2>1 DEF OnTable, Appended
  <2>3. OnTable(t)' /\ HoldsLocks(t)'
    BY <1>2, <2>1, <2>2 DEF OnTable, HoldsLocks, Spill, localVars
  <2>. QED
    BY <1>1, <1>2, <2>3, LockFrame, ThreadsAssumption DEF Spill, Appended, localVars
<1>. QED
  BY <1>1, <1>3, <1>4, <1>5, <1>6 DEF IInv, TypeOK, Spill, itemVars, Appended

\* The look-up of a cell keeps the invariant (stacks.rs:337-342).
LEMMA CellOfIInv ==
    ASSUME IInv, NEW t \in Threads, CellOf(t)
    PROVE  IInv'
<1>0. /\ pc \in [Threads -> Labels] /\ blk[t] \in Blocks /\ lim[t] \in Nat
      /\ ncells \in 0 .. MaxBlocks /\ OnTable(t) /\ shared = Nil
  BY DEF IInv, TypeOK, CallsOK, SharedOK, LockInv, OnTable, CellOf
<1>1. /\ pc' \in [Threads -> Labels] /\ res' \in [Threads -> Results]
      /\ \A u \in Threads \ {t} : pc'[u] = pc[u]
      /\ (pc'[t] \in {"rlock", "wlock"} /\ blk[t] < ncells) \/ pc'[t] = "idle"
  BY <1>0 DEF IInv, TypeOK, CallsOK, CellOf, Goto, Return, Labels, Results
<1>2. CellsOK'  BY DEF IInv, TypeOK, CellsOK, CellOf, cellVars
<1>3. SharedOK'  BY <1>0, TouchType DEF IInv, TypeOK, SharedOK, CellOf
<1>4. DiskOK'  BY DEF IInv, TypeOK, DiskOK, CellOf, diskVars, lifeVars
<1>5. CallsOK'  BY <1>1 DEF IInv, TypeOK, CallsOK, CellOf, callVars, localVars
<1>6. LockInv'
  <2>1. OnTable(t)' /\ HoldsLocks(t)'
    BY <1>0, <1>1, BoundsAssumption DEF OnTable, HoldsLocks, CellOf, localVars, Blocks
  <2>2. writer' = writer /\ stack' = stack /\ ncells' = ncells /\ shared' = shared
    BY DEF CellOf, cellVars
  <2>. QED
    BY <1>0, <1>1, <2>1, <2>2, LockFrame, ThreadsAssumption, BoundsAssumption
       DEF CellOf, localVars
<1>7. LeasePinned'  BY DEF IInv, LeasePinned, CellOf, cellVars
<1>. QED
  BY <1>2, <1>3, <1>4, <1>5, <1>6, <1>7 DEF IInv, TypeOK, CellOf, itemVars

\* pop's retreat of the target keeps the invariant (stacks.rs:550-560).
LEMMA RetreatIInv ==
    ASSUME IInv, NEW t \in Threads, Retreat(t)
    PROVE  IInv'
<1>0. /\ pc \in [Threads -> Labels] /\ ncells \in 0 .. MaxBlocks /\ lim[t] \in Nat
      /\ OnTable(t) /\ shared = Nil
  BY DEF IInv, TypeOK, CallsOK, SharedOK, LockInv, Retreat
<1>1. /\ pc' \in [Threads -> Labels] /\ res' \in [Threads -> Results]
      /\ pc'[t] \in {"idle", "top"} /\ \A u \in Threads \ {t} : pc'[u] = pc[u]
  BY DEF IInv, TypeOK, CallsOK, Retreat, Goto, Return, Labels, Results
<1>2. CellsOK'  BY DEF IInv, TypeOK, CellsOK, Retreat, cellVars
<1>3. SharedOK'  
  <2>1. top' \in Blocks
    BY BoundsAssumption DEF IInv, TypeOK, SharedOK, Retreat, Blocks
  <2>. QED  BY <2>1 DEF IInv, TypeOK, SharedOK, Retreat
<1>4. DiskOK'  BY DEF IInv, TypeOK, DiskOK, Retreat, diskVars, lifeVars
<1>5. CallsOK'  BY <1>1 DEF IInv, TypeOK, CallsOK, Retreat, localVars, callVars
<1>6. LockInv'
  <2>1. OnTable(t)' /\ HoldsLocks(t)'
    BY <1>0, <1>1 DEF OnTable, HoldsLocks, Retreat, localVars
  <2>. QED
    BY <1>0, <1>1, <2>1, LockFrame, ThreadsAssumption
       DEF Retreat, cellVars, localVars
<1>7. LeasePinned'  BY DEF IInv, LeasePinned, Retreat, cellVars
<1>. QED
  BY <1>2, <1>3, <1>4, <1>5, <1>6, <1>7 DEF IInv, TypeOK, Retreat, itemVars

\* blocks() and top() keep the invariant (stacks.rs:585-598).
LEMMA PeekIInv ==
    ASSUME IInv, NEW t \in Threads, Peek(t)
    PROVE  IInv'
<1>0. /\ pc \in [Threads -> Labels] /\ ncells \in 0 .. MaxBlocks
      /\ lim \in [Threads -> 0 .. MaxBlocks] /\ OnTable(t) /\ shared = Nil
  BY DEF IInv, TypeOK, CallsOK, SharedOK, LockInv, Peek
<1>1. /\ pc' \in [Threads -> Labels] /\ res' = res /\ pc'[t] = "gate"
      /\ lim' \in [Threads -> 0 .. MaxBlocks] /\ lim'[t] <= ncells
      /\ \A u \in Threads \ {t} : pc'[u] = pc[u] /\ lim'[u] = lim[u]
  <2>1. PICK n \in {0, ncells} : lim' = [lim EXCEPT ![t] = n]
    <3>1. CASE op[t] = "len"  BY <3>1 DEF Peek
    <3>2. CASE op[t] # "len"  BY <3>2 DEF Peek
    <3>. QED  BY <3>1, <3>2
  <2>2. n \in 0 .. MaxBlocks /\ n <= ncells  BY <1>0, BoundsAssumption
  <2>3. pc' = [pc EXCEPT ![t] = "gate"] /\ res' = res  BY DEF Peek, Goto
  <2>. QED  BY <1>0, <2>1, <2>2, <2>3 DEF Labels
<1>2. CellsOK'  BY DEF IInv, TypeOK, CellsOK, Peek, cellVars
<1>3. SharedOK'  BY DEF IInv, TypeOK, SharedOK, Peek, sharedVars
<1>4. DiskOK'  BY DEF IInv, TypeOK, DiskOK, Peek, diskVars, lifeVars, sharedVars
<1>5. CallsOK'  BY <1>1 DEF IInv, TypeOK, CallsOK, Peek, callVars
<1>6. LockInv'
  <2>1. OnTable(t)' /\ HoldsLocks(t)'
    BY <1>0, <1>1 DEF OnTable, HoldsLocks, Peek, sharedVars
  <2>. QED
    BY <1>0, <1>1, <2>1, LockFrame, ThreadsAssumption
       DEF Peek, cellVars, sharedVars
<1>7. LeasePinned'  BY DEF IInv, LeasePinned, Peek, cellVars
<1>. QED
  BY <1>2, <1>3, <1>4, <1>5, <1>6, <1>7 DEF IInv, TypeOK, Peek, itemVars

\* flush's copy of the table keeps the invariant (stacks.rs:661-664).
LEMMA ListCellsIInv ==
    ASSUME IInv, NEW t \in Threads, ListCells(t)
    PROVE  IInv'
<1>0. /\ pc \in [Threads -> Labels] /\ ncells \in 0 .. MaxBlocks
      /\ lim \in [Threads -> 0 .. MaxBlocks] /\ OnTable(t) /\ shared = Nil
  BY DEF IInv, TypeOK, CallsOK, SharedOK, LockInv, ListCells
<1>1. /\ pc' \in [Threads -> Labels] /\ res' \in [Threads -> Results]
      /\ pc'[t] = "idle" \/ (pc'[t] = "wlock" /\ ncells # 0)
      /\ lim' \in [Threads -> 0 .. MaxBlocks] /\ lim'[t] = ncells
      /\ \A u \in Threads \ {t} : pc'[u] = pc[u] /\ lim'[u] = lim[u]
  <2>1. lim' = [lim EXCEPT ![t] = ncells]  BY DEF ListCells
  <2>2. /\ lim' \in [Threads -> 0 .. MaxBlocks] /\ lim'[t] = ncells
        /\ \A u \in Threads \ {t} : lim'[u] = lim[u]
    BY <1>0, <2>1
  <2>3. CASE ncells = 0
    <3>1. Return(t, "ok")  BY <2>3 DEF ListCells
    <3>2. pc' \in [Threads -> Labels] /\ res' \in [Threads -> Results]
      BY <3>1, ReturnTypes DEF IInv, TypeOK, Results
    <3>. QED  BY <1>0, <2>2, <3>1, <3>2 DEF Return
  <2>4. CASE ncells # 0
    <3>1. Goto(t, "wlock")  BY <2>4 DEF ListCells
    <3>. QED  BY <1>0, <2>2, <2>4, <3>1 DEF IInv, TypeOK, CallsOK, Goto, Labels
  <2>. QED  BY <2>3, <2>4
<1>2. CellsOK'  BY DEF IInv, TypeOK, CellsOK, ListCells, cellVars
<1>3. SharedOK'  BY DEF IInv, TypeOK, SharedOK, ListCells, sharedVars
<1>4. DiskOK'  BY DEF IInv, TypeOK, DiskOK, ListCells, diskVars, lifeVars, sharedVars
<1>5. CallsOK'  BY <1>1 DEF IInv, TypeOK, CallsOK, ListCells, callVars
<1>6. LockInv'
  <2>1. OnTable(t)' /\ HoldsLocks(t)'
    BY <1>0, <1>1, BoundsAssumption DEF OnTable, HoldsLocks, ListCells, sharedVars
  <2>. QED
    BY <1>0, <1>1, <2>1, LockFrame, ThreadsAssumption
       DEF ListCells, cellVars, sharedVars
<1>7. LeasePinned'  BY DEF IInv, LeasePinned, ListCells, cellVars
<1>. QED
  BY <1>2, <1>3, <1>4, <1>5, <1>6, <1>7 DEF IInv, TypeOK, ListCells, itemVars

-----------------------------------------------------------------------------
(* Sections under a cell's lock.                                           *)

\* Taking a read guard, with no writer in, keeps the invariant
\* (stacks.rs:600-659).
LEMMA ReadLockIInv ==
    ASSUME IInv, NEW t \in Threads, ReadLock(t)
    PROVE  IInv'
<1>0. /\ pc \in [Threads -> Labels] /\ ncells \in 0 .. MaxBlocks /\ lim[t] \in Nat
      /\ OnTable(t) /\ HoldsLocks(t)
  BY DEF IInv, TypeOK, CallsOK, SharedOK, LockInv
<1>1. /\ pc' \in [Threads -> Labels] /\ res' = res /\ pc'[t] = "rbody"
      /\ \A u \in Threads \ {t} : pc'[u] = pc[u]
  BY <1>0 DEF ReadLock, Goto, Labels
<1>2. CellsOK'  BY DEF IInv, TypeOK, CellsOK, ReadLock
<1>3. SharedOK'  BY DEF IInv, TypeOK, SharedOK, ReadLock, sharedVars
<1>4. DiskOK'  BY DEF IInv, TypeOK, DiskOK, ReadLock, diskVars, lifeVars, sharedVars
<1>5. CallsOK'  BY <1>1 DEF IInv, TypeOK, CallsOK, ReadLock, callVars, localVars
<1>6. LockInv'
  <2>1. OnTable(t)' /\ HoldsLocks(t)'
    BY <1>0, <1>1 DEF OnTable, HoldsLocks, ReadLock, localVars, sharedVars
  <2>. QED
    BY <1>0, <1>1, <2>1, LockFrame DEF ReadLock, sharedVars, localVars
<1>7. LeasePinned'  BY DEF IInv, LeasePinned, ReadLock
<1>. QED
  BY <1>2, <1>3, <1>4, <1>5, <1>6, <1>7 DEF IInv, TypeOK, ReadLock, itemVars

\* The body of read and lease keeps the invariant: a lease is counted only on a
\* resident slot, under the guard (stacks.rs:600-659).
LEMMA ReadBodyIInv ==
    ASSUME IInv, NEW t \in Threads, ReadBody(t)
    PROVE  IInv'
<1>0. /\ pc \in [Threads -> Labels] /\ ncells \in 0 .. MaxBlocks /\ lim[t] \in Nat
      /\ OnTable(t) /\ HoldsLocks(t) /\ blk[t] \in Blocks
  BY BlockOf DEF IInv, TypeOK, CallsOK, SharedOK, LockInv, ReadBody
<1>1. /\ pc' \in [Threads -> Labels] /\ res' \in [Threads -> Results]
      /\ pc'[t] \in {"touch", "idle"} /\ \A u \in Threads \ {t} : pc'[u] = pc[u]
  BY <1>0 DEF IInv, TypeOK, CallsOK, ReadBody, Goto, Return, Labels, Results
<1>2. CellsOK'
  <2>1. readers' \in [Blocks -> Int]
    BY <1>0 DEF IInv, TypeOK, CellsOK, ReadBody
  <2>. QED  BY <1>0, <2>1 DEF IInv, TypeOK, CellsOK, ReadBody
<1>3. SharedOK'  BY DEF IInv, TypeOK, SharedOK, ReadBody, sharedVars
<1>4. DiskOK'  BY DEF IInv, TypeOK, DiskOK, ReadBody, diskVars, lifeVars, sharedVars
<1>5. CallsOK'  
  <2>1. leased' \in [Threads -> Blocks \union {Nil}]
    BY <1>0 DEF IInv, TypeOK, CallsOK, ReadBody
  <2>. QED  BY <1>1, <2>1 DEF IInv, TypeOK, CallsOK, ReadBody, localVars
<1>6. LockInv'
  <2>1. OnTable(t)' /\ HoldsLocks(t)'
    BY <1>0, <1>1 DEF OnTable, HoldsLocks, ReadBody, localVars, sharedVars
  <2>. QED
    BY <1>0, <1>1, <2>1, LockFrame DEF ReadBody, sharedVars, localVars
<1>7. LeasePinned'  BY <1>0 DEF IInv, TypeOK, CellsOK, LeasePinned, ReadBody
<1>. QED
  BY <1>2, <1>3, <1>4, <1>5, <1>6, <1>7 DEF IInv, TypeOK, ReadBody, itemVars

\* Taking the write guard, alone, keeps the invariant (stacks.rs:344-355).
LEMMA WriteLockIInv ==
    ASSUME IInv, NEW t \in Threads, WriteLock(t)
    PROVE  IInv'
<1>0. /\ pc \in [Threads -> Labels] /\ ncells \in 0 .. MaxBlocks /\ lim[t] \in Nat
      /\ OnTable(t) /\ HoldsLocks(t) /\ blk[t] \in Blocks
  BY BlockOf DEF IInv, TypeOK, CallsOK, SharedOK, LockInv, WriteLock
<1>1. /\ pc' \in [Threads -> Labels] /\ res' = res /\ pc'[t] \in {"fbody", "ensure"}
      /\ \A u \in Threads \ {t} : pc'[u] = pc[u]
  BY <1>0 DEF WriteLock, Goto, Labels
<1>2. CellsOK'  BY DEF IInv, TypeOK, CellsOK, WriteLock
<1>3. SharedOK'  BY DEF IInv, TypeOK, SharedOK, WriteLock, sharedVars
<1>4. DiskOK'  BY DEF IInv, TypeOK, DiskOK, WriteLock, diskVars, lifeVars, sharedVars
<1>5. CallsOK'  BY <1>1 DEF IInv, TypeOK, CallsOK, WriteLock, callVars, localVars
<1>6. LockInv'
  <2>1. OnTable(t)' /\ HoldsLocks(t)'
    BY <1>0, <1>1 DEF IInv, TypeOK, CellsOK, OnTable, HoldsLocks, WriteLock, localVars, sharedVars
  <2>. QED
    BY <1>0, <1>1, <2>1, LockFrame, ThreadsAssumption
       DEF IInv, TypeOK, CellsOK, WriteLock, Unlocked, sharedVars, localVars
<1>7. LeasePinned'  BY DEF IInv, LeasePinned, WriteLock
<1>. QED
  BY <1>2, <1>3, <1>4, <1>5, <1>6, <1>7 DEF IInv, TypeOK, WriteLock, itemVars

\* The load of an evicted slot under its write guard keeps the invariant
\* (stacks.rs:357-372).
LEMMA EnsureIInv ==
    ASSUME IInv, NEW t \in Threads, Ensure(t)
    PROVE  IInv'
<1>. DEFINE b == blk[t]
<1>0. /\ pc \in [Threads -> Labels] /\ OnTable(t) /\ HoldsLocks(t) /\ pc[t] = "ensure"
      /\ b \in Blocks /\ b \in 0 .. ncells - 1 /\ b + 1 \in 1 .. Len(file)
      /\ ncells \in 0 .. MaxBlocks
  BY BlockOf DEF IInv, TypeOK, CallsOK, SharedOK, LockInv, Ensure
<1>1. /\ pc' \in [Threads -> Labels] /\ res' \in [Threads -> Results]
      /\ \A u \in Threads \ {t} : pc'[u] = pc[u]
      /\ pc'[t] \in {"body", "register", "idle"}
  BY <1>0 DEF IInv, TypeOK, CallsOK, Ensure, Goto, Return, Labels, Results
<1>2. /\ pc'[t] \in {"body", "register"} => stack'[b] # Nil /\ writer' = writer
      /\ \A c \in Blocks : c # b => stack'[c] = stack[c] /\ writer'[c] = writer[c]
      /\ \A c \in Blocks : stack[c] # Nil => stack'[c] # Nil
  BY <1>0 DEF IInv, TypeOK, CallsOK, CellsOK, Ensure, Goto, Return
<1>3. CellsOK'
  <2>1. file[b + 1] \in Stackable
    BY <1>0, ElementOfSeq DEF IInv, TypeOK, DiskOK
  <2>. QED  BY <1>0, <2>1 DEF IInv, TypeOK, CellsOK, Ensure
<1>4. SharedOK'  BY DEF IInv, TypeOK, SharedOK, Ensure, sharedVars
<1>5. DiskOK'
  BY DEF IInv, TypeOK, DiskOK, Ensure, diskVars, Fault, lifeVars, sharedVars
<1>6. CallsOK'  BY <1>1 DEF IInv, TypeOK, CallsOK, Ensure, callVars, localVars
<1>7. LockInv'
  <2>1. OnTable(t)'
    BY <1>0, <1>1 DEF OnTable, Ensure, localVars, sharedVars
  <2>2. HoldsLocks(t)'
    BY <1>0, <1>1, <1>2 DEF HoldsLocks, Ensure, localVars, sharedVars
  <2>3. \A c \in Blocks : writer[c] \in Threads \ {t} =>
           writer'[c] = writer[c] /\ (stack[c] # Nil => stack'[c] # Nil)
    BY <1>0, <1>2 DEF HoldsLocks
  <2>. QED
    BY <1>0, <1>1, <2>1, <2>2, <2>3, LockFrame DEF Ensure, localVars, sharedVars
<1>8. LeasePinned'  BY <1>2 DEF IInv, LeasePinned, Ensure
<1>. QED
  BY <1>3, <1>4, <1>5, <1>6, <1>7, <1>8 DEF IInv, TypeOK, Ensure, itemVars

\* Registering the loaded block under the mutex keeps the invariant
\* (stacks.rs:384-389).
LEMMA RegisterLoadedIInv ==
    ASSUME IInv, NEW t \in Threads, RegisterLoaded(t)
    PROVE  IInv'
<1>0. /\ pc \in [Threads -> Labels] /\ OnTable(t) /\ HoldsLocks(t) /\ pc[t] = "register"
      /\ blk[t] \in Blocks /\ ncells \in 0 .. MaxBlocks /\ shared = Nil
  BY BlockOf DEF IInv, TypeOK, CallsOK, SharedOK, LockInv, RegisterLoaded
<1>1. /\ pc' \in [Threads -> Labels] /\ res' = res
      /\ pc'[t] = "body" /\ \A u \in Threads \ {t} : pc'[u] = pc[u]
  BY <1>0 DEF RegisterLoaded, Goto, Labels
<1>2. CellsOK'  BY DEF IInv, TypeOK, CellsOK, RegisterLoaded, cellVars
<1>3. SharedOK'
  BY <1>0, AppendProperties DEF IInv, TypeOK, SharedOK, RegisterLoaded, Register
<1>4. DiskOK'  BY DEF IInv, TypeOK, DiskOK, RegisterLoaded, diskVars, lifeVars
<1>5. CallsOK'  BY <1>1 DEF IInv, TypeOK, CallsOK, RegisterLoaded, callVars, localVars
<1>6. LockInv'
  <2>1. OnTable(t)' /\ HoldsLocks(t)'
    BY <1>0, <1>1 DEF OnTable, HoldsLocks, RegisterLoaded, localVars, cellVars
  <2>. QED
    BY <1>0, <1>1, <2>1, LockFrame, ThreadsAssumption
       DEF RegisterLoaded, cellVars, localVars
<1>7. LeasePinned'  BY DEF IInv, LeasePinned, RegisterLoaded, cellVars
<1>. QED
  BY <1>2, <1>3, <1>4, <1>5, <1>6, <1>7 DEF IInv, TypeOK, RegisterLoaded, itemVars

\* what the closure of with_slot does to the cell, whichever it is
Ran(t) ==
    /\ stack' = [stack EXCEPT ![blk[t]] = stack'[blk[t]]]
    /\ stack'[blk[t]] \in Seq(Items) /\ dirty' \in [Blocks -> BOOLEAN]
    /\ \/ UNCHANGED <<readers, leased>>
       \/ /\ readers' = [readers EXCEPT ![blk[t]] = @ + 1]
          /\ leased' = [leased EXCEPT ![t] = blk[t]]
    /\ acc' \in [Threads -> Int] /\ landed' \subseteq Items /\ gone' \subseteq Items
    /\ pc' \in [Threads -> Labels] /\ res' \in [Threads -> Results]
    /\ pc'[t] \in {"gate", "idle", "spill", "retreat"}
    /\ \A u \in Threads \ {t} : pc'[u] = pc[u]

\* What the closure of with_slot may change when it runs.
LEMMA BodyRan ==
    ASSUME IInv, NEW t \in Threads, Body(t)
    PROVE  Ran(t)
<1>. DEFINE s == stack[blk[t]]
<1>0. /\ blk[t] \in Blocks /\ s \in Seq(Items) /\ Len(s) \in Nat
      /\ stack \in [Blocks -> Stackable] /\ dirty \in [Blocks -> BOOLEAN]
      /\ acc \in [Threads -> Int] /\ landed \subseteq Items /\ gone \subseteq Items
      /\ CallsOK
  <2>1. blk[t] \in Blocks  BY BlockOf DEF Body
  <2>2. s # Nil /\ s \in Stackable
    BY <2>1 DEF IInv, TypeOK, CellsOK, LockInv, HoldsLocks, Body
  <2>3. s \in Seq(Items)  BY <2>2 DEF Stackable
  <2>. QED  BY <2>1, <2>3, LenProperties DEF IInv, TypeOK, CellsOK, CallsOK
<1>1. CASE op[t] = "push" /\ PushBody(t)
  <2>0. arg[t] \in Items  BY <1>1 DEF IInv, LockInv, OnTable
  <2>1. CASE Fits(s, arg[t])
    <3>1. Append(s, arg[t]) \in Seq(Items)  BY <1>0, <2>0, AppendProperties
    <3>2. Goto(t, "gate")  BY <1>1, <2>1 DEF PushBody
    <3>3. /\ stack' = [stack EXCEPT ![blk[t]] = Append(s, arg[t])]
          /\ dirty' = [dirty EXCEPT ![blk[t]] = TRUE]
          /\ landed' = landed \union {arg[t]}
          /\ UNCHANGED <<readers, leased, acc, gone>>
      BY <1>1, <2>1 DEF PushBody
    <3>. QED  BY <1>0, <2>0, <3>1, <3>2, <3>3 DEF Ran, Goto, CallsOK, Labels
  <2>2. CASE ~Fits(s, arg[t])
    <3>1. Return(t, "cap") \/ Goto(t, "spill")  BY <1>1, <2>2 DEF PushBody
    <3>2. UNCHANGED <<stack, dirty, landed, readers, leased, acc, gone>>
      BY <1>1, <2>2 DEF PushBody
    <3>. QED  BY <1>0, <3>1, <3>2 DEF Ran, Goto, Return, CallsOK, Labels, Results
  <2>. QED  BY <2>1, <2>2
<1>2. CASE op[t] = "pop" /\ PopBody(t)
  <2>1. CASE Len(s) = 0
    <3>1. Goto(t, "retreat") /\ UNCHANGED <<stack, dirty, gone, readers, leased, acc, landed>>
      BY <1>2, <2>1 DEF PopBody
    <3>. QED  BY <1>0, <3>1 DEF Ran, Goto, CallsOK, Labels
  <2>2. CASE Len(s) # 0
    <3>1. SubSeq(s, 1, Len(s) - 1) \in Seq(Items) /\ s[Len(s)] \in Items
      <4>1. \A i \in 1 .. Len(s) : s[i] \in Items  BY <1>0, ElementOfSeq
      <4>2. \A i \in 1 .. Len(s) - 1 : s[i] \in Items  BY <1>0, <4>1
      <4>. QED  BY <1>0, <2>2, <4>1, <4>2, SubSeqProperties
    <3>2. /\ Goto(t, "gate")
          /\ stack' = [stack EXCEPT ![blk[t]] = SubSeq(s, 1, Len(s) - 1)]
          /\ dirty' = [dirty EXCEPT ![blk[t]] = TRUE]
          /\ gone' = gone \union {s[Len(s)]}
          /\ UNCHANGED <<readers, leased, acc, landed>>
      BY <1>2, <2>2 DEF PopBody
    <3>. QED  BY <1>0, <3>1, <3>2 DEF Ran, Goto, CallsOK, Labels
  <2>. QED  BY <2>1, <2>2
<1>3. CASE op[t] \in {"read", "lease", "len"} /\ LookBody(t)
  <2>1. acc' \in [Threads -> Int]  BY <1>0, <1>3 DEF LookBody
  <2>2. /\ Goto(t, "gate") /\ UNCHANGED <<stack, dirty, landed, gone>>
        /\ \/ UNCHANGED <<readers, leased>>
           \/ /\ readers' = [readers EXCEPT ![blk[t]] = @ + 1]
              /\ leased' = [leased EXCEPT ![t] = blk[t]]
    BY <1>3 DEF LookBody
  <2>. QED  BY <1>0, <2>1, <2>2 DEF Ran, Goto, CallsOK, Labels
<1>. QED  BY <1>1, <1>2, <1>3 DEF Body

\* The closures of push, pop, len, read and lease keep the invariant.
LEMMA BodyIInv ==
    ASSUME IInv, NEW t \in Threads, Body(t)
    PROVE  IInv'
<1>0. /\ OnTable(t) /\ HoldsLocks(t) /\ pc[t] = "body" /\ Ran(t)
      /\ blk[t] \in Blocks /\ ncells \in 0 .. MaxBlocks
  BY BlockOf, BodyRan DEF IInv, TypeOK, SharedOK, LockInv, Body
<1>1. \A b \in Blocks : (stack[b] # Nil => stack'[b] # Nil)
                        /\ (b # blk[t] => stack'[b] = stack[b])
  BY <1>0, ItemsAssumption DEF IInv, TypeOK, CellsOK, Ran
<1>2. CellsOK'
  <2>1. stack' \in [Blocks -> Stackable]
    BY <1>0 DEF IInv, TypeOK, CellsOK, Ran, Stackable
  <2>2. writer' \in [Blocks -> Threads \union {Nil}]
    BY <1>0 DEF IInv, TypeOK, CellsOK, Body
  <2>3. readers' \in [Blocks -> Int]
    BY <1>0 DEF IInv, TypeOK, CellsOK, Ran
  <2>. QED  BY <1>0, <2>1, <2>2, <2>3 DEF IInv, TypeOK, CellsOK, Body, Ran
<1>3. SharedOK'  BY DEF IInv, TypeOK, SharedOK, Body, sharedVars
<1>4. DiskOK'  BY DEF IInv, TypeOK, DiskOK, Body, diskVars, lifeVars, sharedVars
<1>5. CallsOK'
  <2>1. leased' \in [Threads -> Blocks \union {Nil}]
    BY <1>0 DEF IInv, TypeOK, CallsOK, Ran
  <2>. QED  BY <1>0, <2>1 DEF IInv, TypeOK, CallsOK, Body, Ran
<1>6. LockInv'
  <2>1. OnTable(t)' /\ HoldsLocks(t)'
    BY <1>0 DEF OnTable, HoldsLocks, Body, Ran, sharedVars
  <2>2. \A b \in Blocks : writer[b] \in Threads \ {t} => writer'[b] = writer[b]
    BY <1>0 DEF IInv, TypeOK, CellsOK, HoldsLocks, Body
  <2>. QED
    BY <1>0, <1>1, <2>1, <2>2, LockFrame DEF Body, Ran, sharedVars
<1>7. LeasePinned'
  <2>1. stack'[blk[t]] # Nil  BY <1>0, ItemsAssumption DEF Ran
  <2>. QED  BY <1>0, <1>1, <2>1 DEF IInv, TypeOK, CellsOK, LeasePinned, Ran
<1>. QED
  BY <1>0, <1>2, <1>3, <1>4, <1>5, <1>6, <1>7 DEF IInv, TypeOK, Body, Ran

\* flush's write-back of one cell keeps the invariant (stacks.rs:664-672).
LEMMA FlushBodyIInv ==
    ASSUME IInv, NEW t \in Threads, FlushBody(t)
    PROVE  IInv'
<1>. DEFINE b == blk[t]
<1>0. /\ OnTable(t) /\ HoldsLocks(t) /\ pc[t] = "fbody" /\ CallsOK
      /\ b \in Blocks /\ b \in 0 .. ncells - 1 /\ b + 1 \in 1 .. Len(file)
      /\ ncells \in 0 .. MaxBlocks /\ lim[t] \in 0 .. MaxBlocks /\ lim[t] <= ncells
  BY BlockOf DEF IInv, TypeOK, SharedOK, CallsOK, LockInv, OnTable, FlushBody
<1>1. \/ /\ b + 1 < lim[t] /\ blk' = [blk EXCEPT ![t] = b + 1]
         /\ Goto(t, "wlock")
      \/ blk' = blk /\ \E r \in Results : Return(t, r)
  <2>1. CASE b + 1 < lim[t]  BY <2>1 DEF FlushBody
  <2>2. CASE ~(b + 1 < lim[t])  BY <2>2 DEF FlushBody, Results
  <2>. QED  BY <2>1, <2>2
<1>2. /\ pc' \in [Threads -> Labels] /\ res' \in [Threads -> Results]
      /\ blk' \in [Threads -> Blocks \union {-1}]
      /\ pc'[t] = "idle" \/ (pc'[t] = "wlock" /\ blk'[t] = b + 1 /\ b + 1 < lim[t])
      /\ \A u \in Threads \ {t} : pc'[u] = pc[u] /\ blk'[u] = blk[u]
  <2>1. CASE b + 1 < lim[t] /\ blk' = [blk EXCEPT ![t] = b + 1] /\ Goto(t, "wlock")
    <3>1. b + 1 \in Blocks  BY <1>0, <2>1, BoundsAssumption DEF Blocks
    <3>. QED  BY <1>0, <2>1, <3>1 DEF CallsOK, Goto, Labels
  <2>2. CASE blk' = blk /\ \E r \in Results : Return(t, r)
    BY <1>0, <2>2 DEF CallsOK, Return, Labels
  <2>. QED  BY <1>1, <2>1, <2>2
<1>3. CellsOK'
  BY <1>0 DEF IInv, TypeOK, CellsOK, FlushBody, FlushSlot
<1>4. SharedOK'  BY DEF IInv, TypeOK, SharedOK, FlushBody, sharedVars
<1>5. DiskOK'
  <2>1. stack[b] \in Stackable  BY <1>0 DEF IInv, TypeOK, CellsOK
  <2>2. file' = file \/ file' = [file EXCEPT ![b + 1] = stack[b]]
    BY DEF FlushBody, FlushSlot
  <2>3. file' \in Seq(Stackable) /\ Len(file') = Len(file)
    <3>1. file \in Seq(Stackable)  BY DEF IInv, TypeOK, DiskOK
    <3>. QED  BY <1>0, <2>1, <2>2, <3>1, ExceptSeq
  <2>4. faults' \in Nat  BY DEF IInv, TypeOK, DiskOK, FlushBody, FlushSlot, Fault
  <2>. QED  BY <2>3, <2>4 DEF IInv, TypeOK, DiskOK, FlushBody, lifeVars, sharedVars
<1>6. CallsOK'
  <2>1. acc' \in [Threads -> Int]  BY <1>0 DEF CallsOK, FlushBody
  <2>. QED  BY <1>0, <1>2, <2>1 DEF CallsOK, FlushBody, callVars
<1>7. LockInv'
  <2>1. OnTable(t)'
    <3>1. b + 1 < lim[t] => b + 1 \in 0 .. ncells - 1  BY <1>0, BoundsAssumption
    <3>. QED  BY <1>0, <1>2, <3>1 DEF OnTable, FlushBody, sharedVars
  <2>2. HoldsLocks(t)'  BY <1>2 DEF HoldsLocks
  <2>3. \A c \in Blocks : writer[c] \in Threads \ {t} => writer'[c] = writer[c]
    BY <1>0 DEF IInv, TypeOK, CellsOK, HoldsLocks, FlushBody
  <2>. QED
    BY <1>0, <1>2, <2>1, <2>2, <2>3, LockFrame DEF FlushBody, sharedVars
<1>8. LeasePinned'  BY DEF IInv, LeasePinned, FlushBody
<1>. QED
  BY <1>3, <1>4, <1>5, <1>6, <1>7, <1>8 DEF IInv, TypeOK, FlushBody, itemVars

-----------------------------------------------------------------------------
(* Budget enforcement and the evictor.                                     *)

\* A finished call leaves typed answers.
LEMMA FinishTypes ==
    ASSUME IInv, NEW t \in Threads, Finish(t)
    PROVE  /\ pc' \in [Threads -> Labels] /\ res' \in [Threads -> Results]
           /\ blk' \in [Threads -> Blocks \union {-1}]
           /\ pc'[t] = "idle" \/ (pc'[t] = "touch" /\ blk'[t] \in Blocks)
           /\ \A u \in Threads \ {t} : pc'[u] = pc[u] /\ blk'[u] = blk[u]
<1>0. CallsOK /\ lim[t] \in 0 .. MaxBlocks /\ blk[t] \in Blocks \union {-1}
  BY DEF IInv, TypeOK, CallsOK
<1>1. CASE op[t] = "len" /\ blk[t] + 1 < lim[t]
  <2>1. blk[t] + 1 \in Blocks  BY <1>0, <1>1, BoundsAssumption DEF Blocks
  <2>2. blk' = [blk EXCEPT ![t] = blk[t] + 1] /\ Goto(t, "touch")
    BY <1>1 DEF Finish
  <2>. QED  BY <1>0, <2>1, <2>2 DEF CallsOK, Goto, Labels
<1>2. CASE ~(op[t] = "len" /\ blk[t] + 1 < lim[t])
  <2>1. blk' = blk /\ Return(t, "ok")  BY <1>2 DEF Finish
  <2>2. pc' \in [Threads -> Labels] /\ res' \in [Threads -> Results]
    BY <1>0, <2>1, ReturnTypes DEF Results
  <2>. QED  BY <1>0, <2>1, <2>2 DEF CallsOK, Return
<1>. QED  BY <1>1, <1>2

\* The budget's look at the mirror count keeps the invariant
\* (stacks.rs:391-398).
LEMMA GateIInv ==
    ASSUME IInv, NEW t \in Threads, Gate(t)
    PROVE  IInv'
<1>0. CallsOK /\ OnTable(t) /\ ncells \in 0 .. MaxBlocks
  BY DEF IInv, TypeOK, SharedOK, LockInv
<1>1. /\ pc' \in [Threads -> Labels] /\ res' \in [Threads -> Results]
      /\ blk' \in [Threads -> Blocks \union {-1}]
      /\ pc'[t] \in {"idle", "evict"} \/ (pc'[t] = "touch" /\ blk'[t] \in Blocks)
      /\ \A u \in Threads \ {t} : pc'[u] = pc[u] /\ blk'[u] = blk[u]
  <2>1. CASE Goto(t, "evict") /\ UNCHANGED blk
    BY <1>0, <2>1 DEF CallsOK, Goto, Labels
  <2>2. CASE Finish(t)  BY <2>2, FinishTypes
  <2>. QED  BY <2>1, <2>2 DEF Gate
<1>2. CellsOK'  BY DEF IInv, TypeOK, CellsOK, Gate, cellVars
<1>3. SharedOK'  BY DEF IInv, TypeOK, SharedOK, Gate, sharedVars
<1>4. DiskOK'  BY DEF IInv, TypeOK, DiskOK, Gate, diskVars, lifeVars, sharedVars
<1>5. CallsOK'  BY <1>0, <1>1 DEF CallsOK, Gate, callVars
<1>6. LockInv'
  <2>1. OnTable(t)' /\ HoldsLocks(t)'
    BY <1>0, <1>1 DEF OnTable, HoldsLocks, Gate, sharedVars
  <2>. QED  BY <1>0, <1>1, <2>1, LockFrame DEF Gate, cellVars, sharedVars
<1>7. LeasePinned'  BY DEF IInv, LeasePinned, Gate, cellVars
<1>. QED
  BY <1>2, <1>3, <1>4, <1>5, <1>6, <1>7 DEF IInv, TypeOK, Gate, itemVars

\* The evictor's taking of the mutex keeps the invariant (stacks.rs:402-404).
LEMMA EvictStartIInv ==
    ASSUME IInv, NEW t \in Threads, EvictStart(t)
    PROVE  IInv'
<1>0. CallsOK /\ OnTable(t) /\ ncells \in 0 .. MaxBlocks /\ shared = Nil
  BY DEF IInv, TypeOK, SharedOK, LockInv, EvictStart
<1>1. /\ pc' \in [Threads -> Labels] /\ res' = res /\ pc'[t] = "scan"
      /\ cur' \in [Threads -> Nat \ {0}]
      /\ \A u \in Threads \ {t} : pc'[u] = pc[u] /\ cur'[u] = cur[u]
  BY <1>0 DEF CallsOK, EvictStart, Goto, Labels
<1>2. CellsOK'  BY DEF IInv, TypeOK, CellsOK, EvictStart, cellVars
<1>3. SharedOK'  BY DEF IInv, TypeOK, SharedOK, EvictStart
<1>4. DiskOK'  BY DEF IInv, TypeOK, DiskOK, EvictStart, diskVars, lifeVars
<1>5. CallsOK'  BY <1>0, <1>1 DEF CallsOK, EvictStart, callVars
<1>6. LockInv'
  <2>1. OnTable(t)' /\ HoldsLocks(t)'
    BY <1>0, <1>1 DEF OnTable, HoldsLocks, EvictStart
  <2>. QED
    BY <1>0, <1>1, <2>1, LockFrame, ThreadsAssumption DEF EvictStart, cellVars
<1>7. LeasePinned'  BY DEF IInv, LeasePinned, EvictStart, cellVars
<1>. QED
  BY <1>2, <1>3, <1>4, <1>5, <1>6, <1>7 DEF IInv, TypeOK, EvictStart, itemVars

\* The evictor's choice of a candidate keeps the invariant (stacks.rs:403-411).
LEMMA EvictScanIInv ==
    ASSUME IInv, NEW t \in Threads, EvictScan(t)
    PROVE  IInv'
<1>0. /\ CallsOK /\ OnTable(t) /\ HoldsLocks(t) /\ ncells \in 0 .. MaxBlocks
      /\ pc[t] = "scan" /\ shared = t /\ cur[t] \in Nat \ {0} /\ cur[t] < Len(resident)
      /\ Len(resident) \in Nat
  BY LenProperties DEF IInv, TypeOK, SharedOK, CallsOK, LockInv, HoldsLocks, EvictScan,
                       HasCandidate
<1>1. /\ pc' \in [Threads -> Labels] /\ cur' \in [Threads -> Nat \ {0}]
      /\ pc'[t] = "scan" \/ (pc'[t] = "take" /\ cur'[t] = cur[t])
      /\ \A u \in Threads \ {t} : pc'[u] = pc[u] /\ cur'[u] = cur[u]
  <2>1. CASE cur' = [cur EXCEPT ![t] = @ + 1] /\ pc' = pc
    BY <1>0, <2>1 DEF CallsOK
  <2>2. CASE pc' = [pc EXCEPT ![t] = "take"] /\ cur' = cur
    BY <1>0, <2>2 DEF CallsOK, Labels
  <2>. QED  BY <2>1, <2>2 DEF EvictScan
<1>2. CellsOK'  BY DEF IInv, TypeOK, CellsOK, EvictScan, cellVars
<1>3. SharedOK'  BY DEF IInv, TypeOK, SharedOK, EvictScan, sharedVars
<1>4. DiskOK'  BY DEF IInv, TypeOK, DiskOK, EvictScan, diskVars, lifeVars, sharedVars
<1>5. CallsOK'  BY <1>0, <1>1 DEF CallsOK, EvictScan, callVars
<1>6. LockInv'
  <2>1. OnTable(t)' /\ HoldsLocks(t)'
    BY <1>0, <1>1 DEF OnTable, HoldsLocks, EvictScan, sharedVars
  <2>. QED
    BY <1>0, <1>1, <2>1, LockFrame DEF EvictScan, cellVars, sharedVars
<1>7. LeasePinned'  BY DEF IInv, LeasePinned, EvictScan, cellVars
<1>. QED
  BY <1>2, <1>3, <1>4, <1>5, <1>6, <1>7 DEF IInv, TypeOK, EvictScan, itemVars

\* A candidate passed over keeps the invariant (stacks.rs:412-420).
LEMMA EvictSkipIInv ==
    ASSUME IInv, NEW t \in Threads, EvictSkip(t)
    PROVE  IInv'
<1>0. /\ CallsOK /\ OnTable(t) /\ HoldsLocks(t) /\ ncells \in 0 .. MaxBlocks
      /\ pc[t] = "take" /\ shared = t
  BY DEF IInv, TypeOK, SharedOK, LockInv, HoldsLocks, EvictSkip
<1>1. /\ pc' \in [Threads -> Labels] /\ res' = res /\ cur' \in [Threads -> Nat \ {0}]
      /\ pc'[t] = "scan" /\ \A u \in Threads \ {t} : pc'[u] = pc[u] /\ cur'[u] = cur[u]
  BY <1>0 DEF CallsOK, EvictSkip, Goto, Labels
<1>2. CellsOK'  BY DEF IInv, TypeOK, CellsOK, EvictSkip, cellVars
<1>3. SharedOK'  BY DEF IInv, TypeOK, SharedOK, EvictSkip, sharedVars
<1>4. DiskOK'  BY DEF IInv, TypeOK, DiskOK, EvictSkip, diskVars, lifeVars, sharedVars
<1>5. CallsOK'  BY <1>0, <1>1 DEF CallsOK, EvictSkip, callVars
<1>6. LockInv'
  <2>1. OnTable(t)' /\ HoldsLocks(t)'
    BY <1>0, <1>1 DEF OnTable, HoldsLocks, EvictSkip, sharedVars
  <2>. QED
    BY <1>0, <1>1, <2>1, LockFrame DEF EvictSkip, cellVars, sharedVars
<1>7. LeasePinned'  BY DEF IInv, LeasePinned, EvictSkip, cellVars
<1>. QED
  BY <1>2, <1>3, <1>4, <1>5, <1>6, <1>7 DEF IInv, TypeOK, EvictSkip, itemVars

\* The evictor's release of the mutex keeps the invariant (stacks.rs:432).
LEMMA EvictEndIInv ==
    ASSUME IInv, NEW t \in Threads, EvictEnd(t)
    PROVE  IInv'
<1>0. /\ CallsOK /\ OnTable(t) /\ HoldsLocks(t) /\ ncells \in 0 .. MaxBlocks
      /\ pc[t] = "scan" /\ shared = t
  BY DEF IInv, TypeOK, SharedOK, LockInv, HoldsLocks, EvictEnd
<1>1. /\ pc' \in [Threads -> Labels] /\ res' \in [Threads -> Results]
      /\ blk' \in [Threads -> Blocks \union {-1}]
      /\ pc'[t] = "idle" \/ (pc'[t] = "touch" /\ blk'[t] \in Blocks)
      /\ \A u \in Threads \ {t} : pc'[u] = pc[u] /\ blk'[u] = blk[u]
  BY FinishTypes DEF EvictEnd
<1>2. CellsOK'  BY DEF IInv, TypeOK, CellsOK, EvictEnd, cellVars
<1>3. SharedOK'  BY DEF IInv, TypeOK, SharedOK, EvictEnd
<1>4. DiskOK'  BY DEF IInv, TypeOK, DiskOK, EvictEnd, diskVars, lifeVars
<1>5. CallsOK'
  <2>1. cur' \in [Threads -> Nat \ {0}]  BY <1>0 DEF CallsOK, EvictEnd
  <2>. QED  BY <1>0, <1>1, <2>1 DEF CallsOK, EvictEnd, callVars
<1>6. LockInv'
  <2>1. OnTable(t)' /\ HoldsLocks(t)'
    BY <1>0, <1>1 DEF OnTable, HoldsLocks, EvictEnd
  <2>2. \A u \in Threads \ {t} : cur'[u] = cur[u]  BY <1>0 DEF CallsOK, EvictEnd
  <2>. QED
    BY <1>0, <1>1, <2>1, <2>2, LockFrame DEF EvictEnd, cellVars
<1>7. LeasePinned'  BY DEF IInv, LeasePinned, EvictEnd, cellVars
<1>. QED
  BY <1>2, <1>3, <1>4, <1>5, <1>6, <1>7 DEF IInv, TypeOK, EvictEnd, itemVars

\* The evictor empties a slot only with its write guard and no lease counted,
\* which keeps the invariant (stacks.rs:412-430).
LEMMA EvictTakeIInv ==
    ASSUME IInv, NEW t \in Threads, EvictTake(t)
    PROVE  IInv'
<1>. DEFINE b == Candidate(t)
<1>0. /\ CallsOK /\ OnTable(t) /\ HoldsLocks(t) /\ ncells \in 0 .. MaxBlocks
      /\ pc[t] = "take" /\ shared = t /\ cur[t] \in 1 .. Len(resident)
  BY DEF IInv, TypeOK, SharedOK, LockInv, HoldsLocks, EvictTake
<1>1. b \in Blocks /\ readers[b] = 0 /\ writer[b] = Nil
  BY <1>0, ElementOfSeq
     DEF IInv, TypeOK, SharedOK, EvictTake, Evictable, Unlocked, Candidate
<1>2. /\ pc' \in [Threads -> Labels] /\ res' = res /\ pc'[t] = "unlist"
      /\ \A u \in Threads \ {t} : pc'[u] = pc[u]
  BY <1>0 DEF CallsOK, EvictTake, Goto, Labels
<1>3. \A c \in Blocks : c # b => stack'[c] = stack[c]
  BY DEF IInv, TypeOK, CellsOK, EvictTake
<1>4. CellsOK'  BY <1>1 DEF IInv, TypeOK, CellsOK, EvictTake, Stackable
<1>5. SharedOK'  BY DEF IInv, TypeOK, SharedOK, EvictTake, sharedVars
<1>6. DiskOK'
  <2>1. stack[b] \in Stackable  BY <1>1 DEF IInv, TypeOK, CellsOK
  <2>2. file' = file \/ file' = [file EXCEPT ![b + 1] = stack[b]]
    BY DEF EvictTake, diskVars
  <2>3. file' \in Seq(Stackable) /\ Len(file') = Len(file)
    <3>1. file \in Seq(Stackable)  BY DEF IInv, TypeOK, DiskOK
    <3>2. CASE b + 1 \in 1 .. Len(file)  BY <2>1, <2>2, <3>1, <3>2, ExceptSeq
    <3>3. CASE b + 1 \notin 1 .. Len(file)
      <4>1. DOMAIN file = 1 .. Len(file)  BY <3>1, LenProperties
      <4>2. [file EXCEPT ![b + 1] = stack[b]] = file  BY <3>1, <3>3, <4>1
      <4>. QED  BY <2>2, <3>1, <4>2
    <3>. QED  BY <3>2, <3>3
  <2>4. faults' \in Nat  BY DEF IInv, TypeOK, DiskOK, EvictTake, Fault, diskVars
  <2>. QED  BY <2>3, <2>4 DEF IInv, TypeOK, DiskOK, EvictTake, lifeVars, sharedVars
<1>7. CallsOK'  BY <1>0, <1>2 DEF CallsOK, EvictTake, callVars, localVars
<1>8. LockInv'
  <2>1. OnTable(t)' /\ HoldsLocks(t)'
    BY <1>0, <1>2 DEF OnTable, HoldsLocks, EvictTake, localVars, sharedVars
  <2>. QED
    BY <1>0, <1>1, <1>2, <1>3, <2>1, LockFrame, ThreadsAssumption
       DEF EvictTake, localVars, sharedVars
<1>9. LeasePinned'  BY <1>1, <1>3 DEF IInv, LeasePinned, EvictTake
<1>. QED
  BY <1>4, <1>5, <1>6, <1>7, <1>8, <1>9 DEF IInv, TypeOK, EvictTake, itemVars

\* Taking the evicted block off the LRU list keeps the invariant
\* (stacks.rs:432-434).
LEMMA EvictUnlistIInv ==
    ASSUME IInv, NEW t \in Threads, EvictUnlist(t)
    PROVE  IInv'
<1>0. /\ CallsOK /\ OnTable(t) /\ HoldsLocks(t) /\ ncells \in 0 .. MaxBlocks
      /\ pc[t] = "unlist" /\ shared = t /\ cur[t] \in 1 .. Len(resident)
  BY DEF IInv, TypeOK, SharedOK, LockInv, HoldsLocks, EvictUnlist
<1>1. /\ pc' \in [Threads -> Labels] /\ res' = res /\ pc'[t] = "scan"
      /\ cur' \in [Threads -> Nat \ {0}]
      /\ \A u \in Threads \ {t} : pc'[u] = pc[u] /\ cur'[u] = cur[u]
  BY <1>0 DEF CallsOK, EvictUnlist, Goto, Labels
<1>2. CellsOK'  BY DEF IInv, TypeOK, CellsOK, EvictUnlist, cellVars
<1>3. SharedOK'
  BY <1>0, RemoveIndexType DEF IInv, TypeOK, SharedOK, EvictUnlist
<1>4. DiskOK'  BY DEF IInv, TypeOK, DiskOK, EvictUnlist, diskVars, lifeVars
<1>5. CallsOK'  BY <1>0, <1>1 DEF CallsOK, EvictUnlist, callVars
<1>6. LockInv'
  <2>1. OnTable(t)' /\ HoldsLocks(t)'
    BY <1>0, <1>1 DEF OnTable, HoldsLocks, EvictUnlist
  <2>. QED
    BY <1>0, <1>1, <2>1, LockFrame DEF EvictUnlist, cellVars
<1>7. LeasePinned'  BY DEF IInv, LeasePinned, EvictUnlist, cellVars
<1>. QED
  BY <1>2, <1>3, <1>4, <1>5, <1>6, <1>7 DEF IInv, TypeOK, EvictUnlist, itemVars

-----------------------------------------------------------------------------
(* The invariant is inductive, and the theorems.                           *)

\* Every step keeps the invariant.
LEMMA NextIInv == IInv /\ [Next]_vars => IInv'
<1>. SUFFICES ASSUME IInv, [Next]_vars PROVE IInv'  OBVIOUS
<1>1. ASSUME NEW t \in Threads, Step(t) PROVE IInv'
  BY <1>1, ReadTopIInv, CellOfIInv, SpillIInv, RetreatIInv, PeekIInv, ListCellsIInv,
     ReadLockIInv, ReadBodyIInv, WriteLockIInv, EnsureIInv, RegisterLoadedIInv,
     BodyIInv, FlushBodyIInv, GateIInv, EvictStartIInv, EvictScanIInv,
     EvictEndIInv, EvictSkipIInv, EvictTakeIInv, EvictUnlistIInv
     DEF Step
<1>2. CASE \E t \in Threads : Call(t) \/ DropLease(t) \/ Step(t)
  BY <1>1, <1>2, CallIInv, DropLeaseIInv
<1>3. CASE Close  BY <1>3, CloseIInv
<1>4. CASE Reopen  BY <1>4, ReopenIInv
<1>5. CASE UNCHANGED vars
  <2>1. UNCHANGED <<cellVars, sharedVars, diskVars, lifeVars, localVars, callVars,
                    itemVars, pc, res>>
    BY <1>5 DEF vars
  <2>2. TypeOK'
    BY <2>1 DEF IInv, TypeOK, CellsOK, SharedOK, DiskOK, CallsOK, cellVars, sharedVars,
                diskVars, lifeVars, localVars, callVars, itemVars
  <2>3. LockInv'
    BY <2>1 DEF IInv, LockInv, OnTable, HoldsLocks, cellVars, sharedVars, localVars
  <2>4. LeasePinned'  BY <2>1 DEF IInv, LeasePinned, cellVars
  <2>. QED  BY <2>2, <2>3, <2>4 DEF IInv
<1>. QED  BY <1>2, <1>3, <1>4, <1>5 DEF Next, Done

\* Invariance: types, the agreement of every held lock with the label of its
\* holder, and the residency of leased blocks hold throughout, for any number of
\* threads, blocks and items.
THEOREM Invariance == Spec => []IInv
BY InitIInv, NextIInv, PTL DEF Spec

\* TypeCorrect: with any number of threads, blocks and items every variable
\* keeps its type; in particular no closure of with_slot runs on an evicted
\* slot, whose stack it unwraps (stacks.rs:506, 539, 578).
THEOREM TypeCorrect == Spec => []TypeOK
<1>1. IInv => TypeOK  BY DEF IInv
<1>. QED  BY <1>1, Invariance, PTL

\* LeasesPin: a block with a lease out is resident, however the grant races
\* the evictor (the recheck of evict, stacks.rs:413-420).
THEOREM LeasesPin == Spec => []LeasePinned
<1>1. IInv => LeasePinned  BY DEF IInv
<1>. QED  BY <1>1, Invariance, PTL

-----------------------------------------------------------------------------
(* Cap is answered to oversized items only.                                *)

\* An empty record uses no space.
LEMMA SpaceUsedEmpty == SpaceUsed(<<>>) = 0
<1>. DEFINE D(f) == [n \in 0 .. Len(<<>>) |->
                        IF n = 0 THEN 0 ELSE f[n - 1] + Units[<<>>[n]]]
            used == CHOOSE f : f = D(f)
<1>1. SpaceUsed(<<>>) = used[Len(<<>>)]  BY DEF SpaceUsed
<1>2. Len(<<>>) = 0  BY EmptySeq
<1>3. [n \in {0} |-> 0] = D([n \in {0} |-> 0])  BY <1>2
<1>4. used = D(used)  BY <1>3
<1>5. used[0] = 0  BY <1>2, <1>4
<1>. QED  BY <1>1, <1>2, <1>5

\* No step makes push answer Cap for an item that fits an empty record
\* (the oversize check of push, stacks.rs:507-522).
LEMMA CapStep ==
    ASSUME IInv, NoFalseCap, NEW t \in Threads, Step(t)
    PROVE  NoFalseCap'
<1>0. CallsOK  BY DEF IInv, TypeOK
<1>1. CASE Body(t)
  <2>1. arg' = arg /\ pc[t] = "body"  BY <1>1 DEF Body
  <2>2. CASE res' = res  BY <2>1, <2>2 DEF NoFalseCap
  <2>3. CASE op[t] = "push" /\ PushBody(t) /\ stack[blk[t]] = <<>> /\ Return(t, "cap")
             /\ ~Fits(stack[blk[t]], arg[t])
    <3>1. arg[t] \in Items  BY <2>3 DEF IInv, LockInv, OnTable
    <3>2. Units[arg[t]] > PerBlock
      BY <2>3, <3>1, SpaceUsedEmpty, UnitsAssumption, BoundsAssumption DEF Fits
    <3>. QED  BY <1>0, <2>1, <2>3, <3>2 DEF NoFalseCap, Return, CallsOK
  <2>4. res' = res \/ (op[t] = "push" /\ PushBody(t) /\ stack[blk[t]] = <<>>
                        /\ Return(t, "cap") /\ ~Fits(stack[blk[t]], arg[t]))
    <3>1. CASE op[t] = "push" /\ PushBody(t)
      <4>1. CASE Fits(stack[blk[t]], arg[t])  BY <3>1, <4>1 DEF PushBody, Goto
      <4>2. CASE ~Fits(stack[blk[t]], arg[t])
        <5>1. CASE stack[blk[t]] = <<>>  BY <3>1, <4>2, <5>1 DEF PushBody
        <5>2. CASE stack[blk[t]] # <<>>  BY <3>1, <4>2, <5>2 DEF PushBody, Goto
        <5>. QED  BY <5>1, <5>2
      <4>. QED  BY <4>1, <4>2
    <3>2. CASE PopBody(t)  BY <3>2 DEF PopBody, Goto
    <3>3. CASE LookBody(t)  BY <3>3 DEF LookBody, Goto
    <3>. QED  BY <1>1, <3>1, <3>2, <3>3 DEF Body
  <2>. QED  BY <2>2, <2>3, <2>4
<1>2. CASE ~Body(t)
  <2>1. arg' = arg /\ (res' = res \/ \E r \in Results \ {"cap"} : Return(t, r))
    <3>1. "none" \in Results \ {"cap"} /\ "ok" \in Results \ {"cap"}
          /\ "err" \in Results \ {"cap"} /\ "unknown" \in Results \ {"cap"}
      BY DEF Results
    <3>2. CASE ReadTop(t)  BY <3>1, <3>2 DEF ReadTop, Goto
    <3>3. CASE CellOf(t)  BY <3>1, <3>3 DEF CellOf, Goto, localVars
    <3>4. CASE Spill(t)  BY <3>1, <3>4 DEF Spill, Goto, localVars
    <3>5. CASE Retreat(t)  BY <3>1, <3>5 DEF Retreat, Goto, localVars
    <3>6. CASE Peek(t)  BY <3>6 DEF Peek, Goto
    <3>7. CASE ListCells(t)  BY <3>1, <3>7 DEF ListCells, Goto
    <3>8. CASE ReadLock(t)  BY <3>8 DEF ReadLock, Goto, localVars
    <3>9. CASE ReadBody(t)  BY <3>1, <3>9 DEF ReadBody, Goto, localVars
    <3>10. CASE WriteLock(t)  BY <3>10 DEF WriteLock, Goto, localVars
    <3>11. CASE Ensure(t)  BY <3>1, <3>11 DEF Ensure, Goto, localVars
    <3>12. CASE RegisterLoaded(t)  BY <3>12 DEF RegisterLoaded, Goto, localVars
    <3>13. CASE FlushBody(t)
      <4>1. CASE blk[t] + 1 < lim[t]  BY <3>13, <4>1 DEF FlushBody, Goto
      <4>2. CASE ~(blk[t] + 1 < lim[t])  BY <3>1, <3>13, <4>2 DEF FlushBody
      <4>. QED  BY <4>1, <4>2
    <3>14. CASE Gate(t)  BY <3>1, <3>14 DEF Gate, Finish, Goto
    <3>15. CASE EvictStart(t)  BY <3>15 DEF EvictStart, Goto
    <3>16. CASE EvictScan(t)  BY <3>16 DEF EvictScan
    <3>17. CASE EvictEnd(t)  BY <3>1, <3>17 DEF EvictEnd, Finish, Goto
    <3>18. CASE EvictSkip(t)  BY <3>18 DEF EvictSkip, Goto
    <3>19. CASE EvictTake(t)  BY <3>19 DEF EvictTake, Goto, localVars
    <3>20. CASE EvictUnlist(t)  BY <3>20 DEF EvictUnlist, Goto
    <3>. QED
      BY <1>2, <3>2, <3>3, <3>4, <3>5, <3>6, <3>7, <3>8, <3>9, <3>10, <3>11, <3>12,
         <3>13, <3>14, <3>15, <3>16, <3>17, <3>18, <3>19, <3>20 DEF Step
  <2>2. \A u \in Threads : res'[u] = "cap" => res[u] = "cap"
    <3>1. CASE res' = res  BY <3>1
    <3>2. ASSUME NEW r \in Results \ {"cap"}, Return(t, r)
          PROVE  \A u \in Threads : res'[u] = "cap" => res[u] = "cap"
      BY <1>0, <3>2 DEF CallsOK, Return
    <3>. QED  BY <2>1, <3>1, <3>2
  <2>. QED  BY <2>1, <2>2 DEF NoFalseCap
<1>. QED  BY <1>1, <1>2

\* NoFalseCap with the invariant is inductive.
LEMMA CapInductive ==
    ASSUME IInv, NoFalseCap, [Next]_vars
    PROVE  NoFalseCap'
<1>1. ASSUME NEW t \in Threads, Step(t) PROVE NoFalseCap'  BY <1>1, CapStep
<1>2. ASSUME NEW t \in Threads, Call(t) PROVE NoFalseCap'
  <2>1. PICK k, b, x, l : Begin(t, k, b, x, l)
    BY <1>2 DEF Call, CallPush, CallPop, CallRead, CallLease, CallFlush, CallLen, CallPeek
  <2>2. CallsOK  BY DEF IInv, TypeOK
  <2>3. \A u \in Threads : res'[u] = "cap" => res[u] = "cap" /\ arg'[u] = arg[u]
    BY <2>1, <2>2 DEF Begin, CallsOK
  <2>. QED  BY <2>3 DEF NoFalseCap
<1>3. ASSUME NEW t \in Threads, DropLease(t) PROVE NoFalseCap'
  BY <1>3 DEF DropLease, localVars, NoFalseCap
<1>4. CASE Close  BY <1>4 DEF Close, localVars, NoFalseCap
<1>5. CASE Reopen  BY <1>5 DEF Reopen, localVars, NoFalseCap
<1>6. CASE UNCHANGED vars  BY <1>6 DEF vars, localVars, NoFalseCap
<1>. QED  BY <1>1, <1>2, <1>3, <1>4, <1>5, <1>6 DEF Next, Done

\* CapIsHonest: whatever the threads race, a push that answers Cap was given an
\* item no record can hold (stacks.rs:500-519).
THEOREM CapIsHonest == Spec => []NoFalseCap
<1>1. Init => NoFalseCap  BY DEF Init, NoFalseCap
<1>2. IInv /\ NoFalseCap /\ [Next]_vars => NoFalseCap'  BY CapInductive
<1>. QED  BY <1>1, <1>2, Invariance, PTL DEF Spec

-----------------------------------------------------------------------------
(* A clean stack is its record.                                            *)

\* blocks past the table have no stack, so the record that append_block grows
\* the file by belongs to none
NoStackPastTable == \A b \in Blocks : ncells <= b => stack[b] = Nil

FileInv == CleanIsOnFile /\ NoStackPastTable

\* A step that leaves slots and file alone keeps clean slots equal to the file.
LEMMA FileFrame ==
    ASSUME FileInv, stack' = stack, dirty' = dirty, file' = file, ncells' = ncells
    PROVE  FileInv'
BY DEF FileInv, CleanIsOnFile, NoStackPastTable

\* Growing the file keeps the records it had (set_len, stacks.rs:459-461).
LEMMA GrownKeeps ==
    ASSUME IInv, ncells < MaxBlocks, NEW b \in Blocks, b < ncells
    PROVE  Grown[b + 1] = file[b + 1]
<1>1. ncells \in Nat /\ b \in Nat /\ file \in Seq(Stackable) /\ Len(file) \in ncells .. MaxBlocks
      /\ Nil \in Stackable
  BY DEF IInv, TypeOK, SharedOK, DiskOK, Stackable, Blocks
<1>2. b + 1 \in 1 .. Len(file)  BY <1>1, BoundsAssumption
<1>. QED  BY <1>1, <1>2, AppendProperties DEF Grown

\* append_block writes the record of the slot it adds, and no other.
LEMMA AppendKeepsFile ==
    ASSUME IInv, FileInv, AppendBlock \/ AppendFails
    PROVE  FileInv'
<1>0. ncells \in 0 .. MaxBlocks /\ ncells \in Nat /\ \A b \in Blocks : b \in Nat
  BY DEF IInv, TypeOK, SharedOK, Blocks
<1>1. CASE AppendBlock
  <2>1. /\ ncells \in Blocks /\ ncells < MaxBlocks /\ ncells' = ncells + 1
        /\ Grown \in Seq(Stackable) /\ Len(Grown) \in ncells + 1 .. MaxBlocks
    <3>1. ncells \in Blocks /\ ncells < MaxBlocks /\ ncells' = ncells + 1
      BY <1>0, <1>1, BoundsAssumption DEF AppendBlock, Blocks
    <3>2. file \in Seq(Stackable) /\ Len(file) \in ncells .. MaxBlocks /\ Nil \in Stackable
      BY DEF IInv, TypeOK, DiskOK, Stackable
    <3>. QED  BY <1>0, <3>1, <3>2, AppendProperties, BoundsAssumption DEF Grown
  <2>2. /\ stack' = [stack EXCEPT ![ncells] = <<>>]
        /\ dirty' = [dirty EXCEPT ![ncells] = TRUE]
        /\ file' = [Grown EXCEPT ![ncells + 1] = <<>>]
    BY <1>1 DEF AppendBlock
  <2>3. stack'[ncells] = <<>> /\ dirty'[ncells]
    BY <2>1, <2>2 DEF IInv, TypeOK, CellsOK
  <2>4. ASSUME NEW b \in Blocks, b # ncells
        PROVE  stack'[b] = stack[b] /\ dirty'[b] = dirty[b]
    BY <2>2, <2>4 DEF IInv, TypeOK, CellsOK
  <2>5. ASSUME NEW b \in Blocks, b < ncells PROVE file'[b + 1] = file[b + 1]
    <3>1. b + 1 \in 1 .. Len(Grown) /\ b + 1 # ncells + 1
      BY <1>0, <2>1, <2>5, BoundsAssumption
    <3>2. file'[b + 1] = Grown[b + 1]  BY <2>1, <2>2, <3>1
    <3>. QED  BY <2>1, <2>5, <3>2, GrownKeeps
  <2>6. CleanIsOnFile'
    <3>1. <<>> # Nil  BY ItemsAssumption, EmptySeq
    <3>. SUFFICES ASSUME NEW b \in Blocks
                  PROVE  IF stack'[b] = Nil THEN ~dirty'[b]
                         ELSE dirty'[b] \/ file'[b + 1] = stack'[b]
      BY DEF CleanIsOnFile
    <3>2. CASE b = ncells  BY <2>3, <3>1, <3>2
    <3>3. CASE b < ncells
      BY <1>0, <2>4, <2>5, <3>3 DEF FileInv, CleanIsOnFile
    <3>4. CASE ncells < b
      BY <1>0, <2>4, <3>4 DEF FileInv, CleanIsOnFile, NoStackPastTable
    <3>. QED  BY <1>0, <3>2, <3>3, <3>4
  <2>7. NoStackPastTable'
    <3>. SUFFICES ASSUME NEW b \in Blocks, ncells' <= b PROVE stack'[b] = Nil
      BY DEF NoStackPastTable
    <3>1. ncells <= b /\ b # ncells  BY <1>0, <2>1
    <3>. QED  BY <2>4, <3>1 DEF FileInv, NoStackPastTable
  <2>. QED  BY <2>6, <2>7 DEF FileInv
<1>2. CASE AppendFails
  <2>1. stack' = stack /\ dirty' = dirty /\ ncells' = ncells
    BY <1>2 DEF AppendFails, cellVars
  <2>2. CASE file' = file  BY <2>1, <2>2, FileFrame
  <2>3. CASE ncells < MaxBlocks /\ file' = Grown
    <3>1. \A b \in Blocks : b < ncells => file'[b + 1] = file[b + 1]
      BY <2>3, GrownKeeps
    <3>. QED
      BY <1>0, <2>1, <3>1 DEF FileInv, CleanIsOnFile, NoStackPastTable
  <2>. QED  BY <1>2, <2>2, <2>3 DEF AppendFails, diskVars
<1>. QED  BY <1>1, <1>2

\* No step leaves a clean slot that differs from its record.
LEMMA FileStep ==
    ASSUME IInv, FileInv, NEW t \in Threads, Step(t)
    PROVE  FileInv'
<1>. DEFINE b == blk[t]
<1>0. /\ stack \in [Blocks -> Stackable] /\ dirty \in [Blocks -> BOOLEAN]
      /\ file \in Seq(Stackable) /\ ncells \in Nat
      /\ \A c, d \in Blocks : c # d => c + 1 # d + 1
  BY DEF IInv, TypeOK, CellsOK, SharedOK, DiskOK, Blocks
<1>1. CASE ReadTop(t)
  BY <1>1, FileFrame, AppendKeepsFile DEF ReadTop, cellVars, diskVars
<1>2. CASE Spill(t)
  BY <1>2, FileFrame, AppendKeepsFile DEF Spill, cellVars, diskVars
<1>3. CASE Ensure(t)
  <2>1. b \in Blocks /\ b < ncells
    BY <1>0, <1>3, BlockOf DEF Ensure
  <2>2. dirty' = dirty /\ file' = file /\ ncells' = ncells
    BY <1>3 DEF Ensure, diskVars, sharedVars
  <2>3. CASE stack' = stack  BY <2>2, <2>3, FileFrame
  <2>4. CASE stack[b] = Nil /\ stack' = [stack EXCEPT ![b] = file[b + 1]] /\ file[b + 1] # Nil
    <3>1. stack'[b] = file[b + 1] /\ \A c \in Blocks : c # b => stack'[c] = stack[c]
      BY <1>0, <2>1, <2>4
    <3>2. ~(ncells <= b)  BY <1>0, <2>1 DEF Blocks
    <3>3. CleanIsOnFile'  BY <2>1, <2>2, <2>4, <3>1 DEF FileInv, CleanIsOnFile
    <3>4. NoStackPastTable'  BY <2>1, <2>2, <3>1, <3>2 DEF FileInv, NoStackPastTable
    <3>. QED  BY <3>3, <3>4 DEF FileInv
  <2>. QED  BY <1>3, <2>3, <2>4 DEF Ensure
<1>4. CASE Body(t)
  <2>1. b \in Blocks /\ b < ncells /\ file' = file /\ ncells' = ncells /\ Ran(t)
    <3>1. pc[t] = "body" /\ file' = file /\ ncells' = ncells
      BY <1>4 DEF Body, diskVars, sharedVars
    <3>2. b \in Blocks /\ b \in 0 .. ncells - 1  BY <3>1, BlockOf
    <3>. QED  BY <1>0, <1>4, <3>1, <3>2, BodyRan
  <2>2. (stack' = stack /\ dirty' = dirty)
        \/ (stack'[b] # Nil /\ stack' = [stack EXCEPT ![b] = stack'[b]]
              /\ dirty' = [dirty EXCEPT ![b] = TRUE])
    <3>1. stack'[b] # Nil /\ stack' = [stack EXCEPT ![b] = stack'[b]]
      BY <2>1, ItemsAssumption DEF Ran
    <3>2. CASE PushBody(t)
      <4>1. CASE Fits(stack[b], arg[t])  BY <3>1, <3>2, <4>1 DEF PushBody
      <4>2. CASE ~Fits(stack[b], arg[t])  BY <3>2, <4>2 DEF PushBody
      <4>. QED  BY <4>1, <4>2
    <3>3. CASE PopBody(t)
      <4>1. CASE Len(stack[b]) = 0  BY <3>3, <4>1 DEF PopBody
      <4>2. CASE Len(stack[b]) # 0  BY <3>1, <3>3, <4>2 DEF PopBody
      <4>. QED  BY <4>1, <4>2
    <3>4. CASE LookBody(t)  BY <3>4 DEF LookBody
    <3>. QED  BY <1>4, <3>2, <3>3, <3>4 DEF Body
  <2>3. CASE stack' = stack /\ dirty' = dirty  BY <2>1, <2>3, FileFrame
  <2>4. CASE stack'[b] # Nil /\ stack' = [stack EXCEPT ![b] = stack'[b]]
             /\ dirty' = [dirty EXCEPT ![b] = TRUE]
    <3>1. /\ dirty'[b]
          /\ \A c \in Blocks : c # b => stack'[c] = stack[c] /\ dirty'[c] = dirty[c]
      BY <1>0, <2>1, <2>4
    <3>2. ~(ncells <= b)  BY <1>0, <2>1 DEF Blocks
    <3>3. CleanIsOnFile'  BY <2>1, <2>4, <3>1 DEF FileInv, CleanIsOnFile
    <3>4. NoStackPastTable'  BY <2>1, <3>1, <3>2 DEF FileInv, NoStackPastTable
    <3>. QED  BY <3>3, <3>4 DEF FileInv
  <2>. QED  BY <2>2, <2>3, <2>4
<1>5. CASE FlushBody(t)
  <2>1. b \in Blocks /\ b + 1 \in 1 .. Len(file) /\ stack' = stack /\ ncells' = ncells
    BY <1>5, BlockOf DEF FlushBody, sharedVars
  <2>2. CASE dirty' = dirty /\ file' = file  BY <2>1, <2>2, FileFrame
  <2>3. CASE dirty[b] /\ dirty' = [dirty EXCEPT ![b] = FALSE]
             /\ file' = [file EXCEPT ![b + 1] = stack[b]]
    <3>1. dirty'[b] = FALSE /\ file'[b + 1] = stack[b]
      BY <1>0, <2>1, <2>3
    <3>2. ASSUME NEW c \in Blocks, c # b
          PROVE  dirty'[c] = dirty[c] /\ file'[c + 1] = file[c + 1]
      BY <1>0, <2>1, <2>3, <3>2
    <3>. QED  BY <2>1, <3>1, <3>2 DEF FileInv, CleanIsOnFile, NoStackPastTable
  <2>. QED  BY <1>5, <2>2, <2>3 DEF FlushBody, FlushSlot
<1>6. CASE EvictTake(t)
  <2>. DEFINE v == Candidate(t)
  <2>1. v \in Blocks
    BY <1>6, ElementOfSeq
       DEF EvictTake, Candidate, IInv, TypeOK, SharedOK, LockInv, HoldsLocks
  <2>2. /\ stack' = [stack EXCEPT ![v] = Nil] /\ dirty' = [dirty EXCEPT ![v] = FALSE]
        /\ file' = file \/ file' = [file EXCEPT ![v + 1] = stack[v]]
        /\ ncells' = ncells
    BY <1>6 DEF EvictTake, diskVars, sharedVars
  <2>3. stack'[v] = Nil /\ ~dirty'[v]  BY <1>0, <2>1, <2>2
  <2>4. ASSUME NEW c \in Blocks, c # v
        PROVE  /\ stack'[c] = stack[c] /\ dirty'[c] = dirty[c]
               /\ c < ncells => file'[c + 1] = file[c + 1]
    <3>1. stack'[c] = stack[c] /\ dirty'[c] = dirty[c]  BY <1>0, <2>1, <2>2, <2>4
    <3>2. ASSUME c < ncells PROVE c + 1 \in 1 .. Len(file)
      BY <1>0, <2>4, <3>2 DEF IInv, TypeOK, DiskOK, Blocks
    <3>3. c + 1 # v + 1  BY <1>0, <2>1, <2>4
    <3>4. ASSUME c < ncells PROVE file'[c + 1] = file[c + 1]
      <4>1. c + 1 \in DOMAIN file  BY <1>0, <3>2, <3>4, LenProperties
      <4>2. CASE file' = [file EXCEPT ![v + 1] = stack[v]]  BY <3>3, <4>1, <4>2
      <4>. QED  BY <2>2, <4>2
    <3>. QED  BY <3>1, <3>4
  <2>5. \A c \in Blocks : ~(ncells <= c) => c < ncells
    BY <1>0 DEF Blocks
  <2>. QED  BY <2>1, <2>2, <2>3, <2>4, <2>5 DEF FileInv, CleanIsOnFile, NoStackPastTable
<1>7. CASE ~(ReadTop(t) \/ Spill(t) \/ Ensure(t) \/ Body(t) \/ FlushBody(t) \/ EvictTake(t))
  <2>1. stack' = stack /\ dirty' = dirty /\ file' = file /\ ncells' = ncells
    BY <1>7 DEF Step, CellOf, Retreat, Peek, ListCells, ReadLock, ReadBody, WriteLock,
                RegisterLoaded, Gate, EvictStart, EvictScan, EvictEnd, EvictSkip,
                EvictUnlist, cellVars, diskVars, sharedVars
  <2>. QED  BY <2>1, FileFrame
<1>. QED  BY <1>1, <1>2, <1>3, <1>4, <1>5, <1>6, <1>7

\* CleanIsOnFile with the invariant is inductive.
LEMMA FileInductive ==
    ASSUME IInv, FileInv, [Next]_vars
    PROVE  FileInv'
<1>1. ASSUME NEW t \in Threads, Step(t) PROVE FileInv'  BY <1>1, FileStep
<1>2. ASSUME NEW t \in Threads, Call(t) PROVE FileInv'
  <2>1. PICK k, b, x, l : Begin(t, k, b, x, l)
    BY <1>2 DEF Call, CallPush, CallPop, CallRead, CallLease, CallFlush, CallLen, CallPeek
  <2>. QED  BY <2>1, FileFrame DEF Begin, cellVars, sharedVars, diskVars
<1>3. ASSUME NEW t \in Threads, DropLease(t) PROVE FileInv'
  BY <1>3, FileFrame DEF DropLease, sharedVars, diskVars
<1>4. CASE Close
  BY <1>4 DEF Close, FileInv, CleanIsOnFile, NoStackPastTable
<1>5. CASE Reopen
  <2>1. /\ stack' = stack /\ dirty' = dirty /\ file' = file /\ ncells' = Len(file)
        /\ Len(file) \in ncells .. MaxBlocks /\ ncells \in Nat
        /\ \A b \in Blocks : b \in Nat
    BY <1>5 DEF Reopen, cellVars, diskVars, IInv, TypeOK, DiskOK, SharedOK, Blocks
  <2>. QED  BY <2>1, BoundsAssumption DEF FileInv, CleanIsOnFile, NoStackPastTable
<1>6. CASE UNCHANGED vars
  BY <1>6, FileFrame DEF vars, cellVars, sharedVars, diskVars
<1>. QED  BY <1>1, <1>2, <1>3, <1>4, <1>5, <1>6 DEF Next, Done

\* CleanMatchesFile: at every moment a slot that is not dirty is its record, so
\* eviction without a write loses nothing, whichever writes failed before
\* (stacks.rs:424-428, 438-449).
THEOREM CleanMatchesFile == Spec => []CleanIsOnFile
<1>1. Init => FileInv  BY DEF Init, FileInv, CleanIsOnFile, NoStackPastTable
<1>2. IInv /\ FileInv /\ [Next]_vars => FileInv'  BY FileInductive
<1>3. FileInv => CleanIsOnFile  BY DEF FileInv
<1>. QED  BY <1>1, <1>2, <1>3, Invariance, PTL DEF Spec

-----------------------------------------------------------------------------
(* Which operation may be where.                                           *)

Enforcing == {"gate", "evict", "scan", "take", "unlist"}

InCall(t) ==
    /\ pc[t] = "top" => op[t] \in {"push", "pop"}
    /\ pc[t] = "spill" => op[t] = "push"
    /\ pc[t] = "retreat" => op[t] = "pop"
    /\ pc[t] \in {"rtouch", "rlock", "rbody"} => op[t] \in {"read", "lease"}
    /\ pc[t] = "peek" => op[t] \in {"len", "peek"}
    /\ pc[t] \in {"cells", "fbody"} => op[t] = "flush"
    /\ pc[t] \in {"touch", "ensure", "register", "body"} \union Enforcing => op[t] # "flush"

Shape == \A t \in Threads : InCall(t)

\* A step moves its own call, within its operation.
LEMMA StepShape ==
    ASSUME IInv, Shape, NEW t \in Threads, Step(t)
    PROVE  Shape' /\ op' = op /\ \A u \in Threads \ {t} : pc'[u] = pc[u]
<1>0. pc \in [Threads -> Labels]  BY DEF IInv, TypeOK, CallsOK
<1>1. op' = op
  BY DEF Step, ReadTop, CellOf, Spill, Retreat, Peek, ListCells, ReadLock, ReadBody,
         WriteLock, Ensure, RegisterLoaded, Body, FlushBody, Gate, EvictStart, EvictScan,
         EvictEnd, EvictSkip, EvictTake, EvictUnlist, localVars
<1>2. \A u \in Threads \ {t} : pc'[u] = pc[u]
  BY <1>0 DEF Step, ReadTop, CellOf, Spill, Retreat, Peek, ListCells, ReadLock, ReadBody,
         WriteLock, Ensure, RegisterLoaded, Body, FlushBody, Gate, EvictStart, EvictScan,
         EvictEnd, EvictSkip, EvictTake, EvictUnlist, Goto, Return, Finish, PushBody,
         PopBody, LookBody
<1>3. InCall(t)'
  <2>0. InCall(t)  BY DEF Shape
  <2>1. CASE ReadTop(t) \/ CellOf(t) \/ Spill(t) \/ Retreat(t) \/ Peek(t) \/ ListCells(t)
    BY <1>0, <1>1, <2>0, <2>1
       DEF InCall, Enforcing, ReadTop, CellOf, Spill, Retreat, Peek, ListCells, Goto, Return
  <2>2. CASE ReadLock(t) \/ ReadBody(t) \/ WriteLock(t) \/ Ensure(t) \/ RegisterLoaded(t)
    BY <1>0, <1>1, <2>0, <2>2
       DEF InCall, Enforcing, ReadLock, ReadBody, WriteLock, Ensure, RegisterLoaded, Goto,
           Return
  <2>3. CASE Body(t)
    <3>1. \/ pc'[t] \in {"gate", "idle"}
          \/ pc'[t] = "spill" /\ op[t] = "push"
          \/ pc'[t] = "retreat" /\ op[t] = "pop"
      BY <1>0, <2>3 DEF Body, PushBody, PopBody, LookBody, Goto, Return
    <3>. QED  BY <1>1, <2>0, <2>3, <3>1 DEF InCall, Enforcing, Body
  <2>4. CASE FlushBody(t)
    BY <1>0, <1>1, <2>0, <2>4 DEF InCall, Enforcing, FlushBody, Goto, Return
  <2>5. CASE Gate(t) \/ EvictStart(t) \/ EvictScan(t) \/ EvictEnd(t) \/ EvictSkip(t)
             \/ EvictTake(t) \/ EvictUnlist(t)
    <3>1. /\ pc[t] \in Enforcing
          /\ pc'[t] \in Enforcing \union {"idle"} \/ (pc'[t] = "touch" /\ op[t] = "len")
      BY <1>0, <2>5 DEF Gate, EvictStart, EvictScan, EvictEnd, EvictSkip, EvictTake,
                        EvictUnlist, Goto, Return, Finish, Enforcing
    <3>. QED  BY <1>1, <2>0, <3>1 DEF InCall, Enforcing
  <2>. QED  BY <2>1, <2>2, <2>3, <2>4, <2>5 DEF Step
<1>4. Shape'  BY <1>1, <1>2, <1>3 DEF Shape, InCall
<1>. QED  BY <1>1, <1>2, <1>4

\* Every step keeps the calls within their operations.
LEMMA ShapeInductive ==
    ASSUME IInv, Shape, [Next]_vars
    PROVE  Shape'
<1>0. pc \in [Threads -> Labels] /\ op \in [Threads -> AllOpKinds \union {"-"}]
  BY DEF IInv, TypeOK, CallsOK
<1>1. ASSUME NEW t \in Threads, Step(t) PROVE Shape'  BY <1>1, StepShape
<1>2. ASSUME NEW t \in Threads, Call(t) PROVE Shape'
  <2>1. PICK k, b, x, l : /\ Begin(t, k, b, x, l)
                          /\ \/ l = "top" /\ k \in {"push", "pop"}
                             \/ l = "rtouch" /\ k \in {"read", "lease"}
                             \/ l = "cells" /\ k = "flush"
                             \/ l = "peek" /\ k \in {"len", "peek"}
    BY <1>2 DEF Call, CallPush, CallPop, CallRead, CallLease, CallFlush, CallLen, CallPeek
  <2>2. /\ pc'[t] = l /\ op'[t] = k
        /\ \A u \in Threads \ {t} : pc'[u] = pc[u] /\ op'[u] = op[u]
    BY <1>0, <2>1 DEF Begin
  <2>3. InCall(t)'  BY <2>1, <2>2 DEF InCall, Enforcing
  <2>. QED  BY <2>2, <2>3 DEF Shape, InCall
<1>3. CASE (\E t \in Threads : DropLease(t)) \/ Close \/ Reopen \/ UNCHANGED vars
  <2>1. UNCHANGED <<pc, op>>
    BY <1>3 DEF DropLease, Close, Reopen, vars, localVars
  <2>. QED  BY <2>1 DEF Shape, InCall
<1>. QED  BY <1>1, <1>2, <1>3 DEF Next, Done

\* When a file is opened no call is running.
LEMMA InitShape == Init => Shape
BY DEF Init, Shape, InCall, Enforcing

-----------------------------------------------------------------------------
(***************************************************************************)
(* The LRU order names exactly the resident blocks.                        *)
(***************************************************************************)

(* Lists without repetition.                                               *)

Distinct(s) == \A i, j \in 1 .. Len(s) : s[i] = s[j] => i = j

Lists(s, x) == \E i \in 1 .. Len(s) : s[i] = x

\* Taking out the element at i moves those behind it one to the front.
LEMMA RemoveIndexElements ==
    ASSUME NEW S, NEW s \in Seq(S), NEW i \in 1 .. Len(s)
    PROVE  /\ RemoveIndex(s, i) \in Seq(S) /\ Len(RemoveIndex(s, i)) = Len(s) - 1
           /\ \A k \in 1 .. Len(s) - 1 :
                 RemoveIndex(s, i)[k] = IF k < i THEN s[k] ELSE s[k + 1]
<1>. DEFINE n == Len(s)
            before == SubSeq(s, 1, i - 1)
            after  == SubSeq(s, i + 1, n)
<1>0. n \in Nat /\ i \in 1 .. n /\ \A k \in 1 .. n : s[k] \in S
  BY LenProperties, ElementOfSeq
<1>. HIDE DEF n
<1>1. /\ before \in Seq(S) /\ Len(before) = i - 1
      /\ \A k \in 1 .. i - 1 : before[k] = s[k]
  <2>1. i - 1 \in Nat /\ \A k \in 1 .. i - 1 : s[k] \in S  BY <1>0
  <2>2. /\ before \in Seq(S) /\ Len(before) = IF 1 <= i - 1 THEN i - 1 - 1 + 1 ELSE 0
        /\ \A k \in 1 .. i - 1 - 1 + 1 : before[k] = s[1 + k - 1]
    BY <1>0, <2>1, SubSeqProperties
  <2>3. \A k \in 1 .. i - 1 : k \in 1 .. i - 1 - 1 + 1 /\ 1 + k - 1 = k  BY <2>1
  <2>4. (IF 1 <= i - 1 THEN i - 1 - 1 + 1 ELSE 0) = i - 1  BY <2>1
  <2>. HIDE DEF before
  <2>. QED  BY <2>2, <2>3, <2>4
<1>2. /\ after \in Seq(S) /\ Len(after) = n - i
      /\ \A k \in 1 .. n - i : after[k] = s[i + k]
  <2>1. i + 1 \in Int /\ \A k \in i + 1 .. n : s[k] \in S  BY <1>0
  <2>2. /\ after \in Seq(S) /\ Len(after) = IF i + 1 <= n THEN n - (i + 1) + 1 ELSE 0
        /\ \A k \in 1 .. n - (i + 1) + 1 : after[k] = s[i + 1 + k - 1]
    BY <1>0, <2>1, SubSeqProperties
  <2>3. \A k \in 1 .. n - i : k \in 1 .. n - (i + 1) + 1 /\ i + 1 + k - 1 = i + k  BY <1>0
  <2>4. (IF i + 1 <= n THEN n - (i + 1) + 1 ELSE 0) = n - i  BY <1>0
  <2>. HIDE DEF after
  <2>. QED  BY <2>2, <2>3, <2>4
<1>3. RemoveIndex(s, i) = before \o after  BY DEF RemoveIndex, n
<1>. HIDE DEF before, after
<1>4. /\ before \o after \in Seq(S) /\ Len(before \o after) = Len(before) + Len(after)
      /\ \A k \in 1 .. Len(before) + Len(after) :
            (before \o after)[k] = IF k <= Len(before) THEN before[k]
                                                       ELSE after[k - Len(before)]
  BY <1>1, <1>2, ConcatProperties
<1>. DEFINE r == RemoveIndex(s, i)
<1>5. /\ r \in Seq(S) /\ Len(r) = i - 1 + (n - i)
      /\ \A k \in 1 .. i - 1 + (n - i) :
            r[k] = IF k <= i - 1 THEN before[k] ELSE after[k - (i - 1)]
  BY <1>1, <1>2, <1>3, <1>4
<1>6. i - 1 + (n - i) = n - 1  BY <1>0
<1>. HIDE DEF r
<1>7. ASSUME NEW k \in 1 .. n - 1 PROVE r[k] = IF k < i THEN s[k] ELSE s[k + 1]
  <2>1. CASE k < i
    <3>1. k \in 1 .. i - 1 /\ k <= i - 1  BY <1>0, <2>1
    <3>. QED  BY <1>1, <1>5, <1>6, <1>7, <2>1, <3>1
  <2>2. CASE ~(k < i)
    <3>1. ~(k <= i - 1) /\ k - (i - 1) \in 1 .. n - i /\ i + (k - (i - 1)) = k + 1
      BY <1>0, <2>2
    <3>2. r[k] = after[k - (i - 1)]  BY <1>5, <1>6, <1>7, <3>1
    <3>3. after[k - (i - 1)] = s[i + (k - (i - 1))]  BY <1>2, <3>1
    <3>. QED  BY <2>2, <3>1, <3>2, <3>3
  <2>. QED  BY <2>1, <2>2
<1>. QED  BY <1>5, <1>6, <1>7 DEF r, n

\* Taking an element out of a list without repetition leaves such a list, of
\* the other elements.
LEMMA RemoveDistinct ==
    ASSUME NEW S, NEW s \in Seq(S), NEW i \in 1 .. Len(s), Distinct(s)
    PROVE  /\ RemoveIndex(s, i) \in Seq(S) /\ Len(RemoveIndex(s, i)) = Len(s) - 1
           /\ Distinct(RemoveIndex(s, i))
           /\ \A x : Lists(RemoveIndex(s, i), x) <=> Lists(s, x) /\ x # s[i]
<1>. DEFINE r == RemoveIndex(s, i)
            n == Len(s)
            at(k) == IF k < i THEN k ELSE k + 1
<1>0. n \in Nat /\ i \in 1 .. n  BY LenProperties
<1>1. r \in Seq(S) /\ Len(r) = n - 1
      /\ \A k \in 1 .. n - 1 : r[k] = IF k < i THEN s[k] ELSE s[k + 1]
  BY RemoveIndexElements
<1>2. \A j, k \in 1 .. n : s[j] = s[k] => j = k  BY DEF Distinct
<1>. HIDE DEF r, n
<1>3. \A k \in 1 .. n - 1 :
         /\ at(k) \in 1 .. n /\ at(k) # i /\ r[k] = s[at(k)]
         /\ \A j \in 1 .. n - 1 : at(j) = at(k) => j = k
  BY <1>0, <1>1
<1>4. \A k \in 1 .. n : k # i => \E j \in 1 .. n - 1 : at(j) = k
  <2>. SUFFICES ASSUME NEW k \in 1 .. n, k # i PROVE \E j \in 1 .. n - 1 : at(j) = k
    OBVIOUS
  <2>1. CASE k < i
    <3>1. k \in 1 .. n - 1 /\ at(k) = k  BY <1>0, <2>1
    <3>. QED  BY <3>1
  <2>2. CASE k > i
    <3>1. k - 1 \in 1 .. n - 1 /\ at(k - 1) = k  BY <1>0, <2>2
    <3>. QED  BY <3>1
  <2>. QED  BY <1>0, <2>1, <2>2
<1>. HIDE DEF at
<1>5. Distinct(r)
  <2>. SUFFICES ASSUME NEW j \in 1 .. n - 1, NEW k \in 1 .. n - 1, r[j] = r[k]
                PROVE  j = k
    BY <1>1 DEF Distinct
  <2>1. at(j) = at(k)  BY <1>2, <1>3
  <2>. QED  BY <1>3, <2>1
<1>6. ASSUME NEW x PROVE Lists(r, x) <=> Lists(s, x) /\ x # s[i]
  <2>1. ASSUME Lists(r, x) PROVE Lists(s, x) /\ x # s[i]
    <3>1. PICK k \in 1 .. n - 1 : r[k] = x  BY <1>1, <2>1 DEF Lists
    <3>2. at(k) \in 1 .. n /\ at(k) # i /\ s[at(k)] = x  BY <1>3, <3>1
    <3>. QED  BY <1>0, <1>2, <3>2 DEF Lists, n
  <2>2. ASSUME Lists(s, x), x # s[i] PROVE Lists(r, x)
    <3>1. PICK k \in 1 .. n : s[k] = x  BY <2>2 DEF Lists, n
    <3>2. PICK j \in 1 .. n - 1 : at(j) = k  BY <1>4, <2>2, <3>1
    <3>3. r[j] = x  BY <1>3, <3>1, <3>2
    <3>. QED  BY <1>1, <3>3 DEF Lists
  <2>. QED  BY <2>1, <2>2
<1>. QED  BY <1>1, <1>5, <1>6 DEF r, n

\* Appending a new element to a list without repetition leaves such a list, of
\* one element more.
LEMMA AppendDistinct ==
    ASSUME NEW S, NEW s \in Seq(S), NEW x \in S, Distinct(s), ~Lists(s, x)
    PROVE  /\ Append(s, x) \in Seq(S) /\ Len(Append(s, x)) = Len(s) + 1
           /\ Distinct(Append(s, x))
           /\ \A y : Lists(Append(s, x), y) <=> Lists(s, y) \/ y = x
<1>. DEFINE r == Append(s, x)
            n == Len(s)
<1>0. n \in Nat  BY LenProperties
<1>1. r \in Seq(S) /\ Len(r) = n + 1 /\ r[n + 1] = x /\ \A k \in 1 .. n : r[k] = s[k]
  BY AppendProperties
<1>2. \A j, k \in 1 .. n : s[j] = s[k] => j = k  BY DEF Distinct
<1>3. \A k \in 1 .. n : s[k] # x  BY DEF Lists
<1>4. \A y : Lists(s, y) <=> \E k \in 1 .. n : s[k] = y  BY DEF Lists
<1>. HIDE DEF r, n
<1>5. \A k \in 1 .. n + 1 : k \in 1 .. n \/ k = n + 1  BY <1>0
<1>6. \A k \in 1 .. n : k \in 1 .. n + 1  BY <1>0
<1>7. Distinct(r)
  <2>. SUFFICES ASSUME NEW j \in 1 .. n + 1, NEW k \in 1 .. n + 1, r[j] = r[k]
                PROVE  j = k
    BY <1>1 DEF Distinct
  <2>. QED  BY <1>1, <1>2, <1>3, <1>5
<1>8. n + 1 \in 1 .. n + 1  BY <1>0
<1>9. \A y : Lists(r, y) <=> \E k \in 1 .. n + 1 : r[k] = y  BY <1>1 DEF Lists
<1>10. \A y : Lists(r, y) <=> Lists(s, y) \/ y = x
  BY <1>1, <1>4, <1>5, <1>6, <1>8, <1>9
<1>. QED  BY <1>1, <1>7, <1>10 DEF r, n

-----------------------------------------------------------------------------
(* The invariant, by its parts.                                            *)

\* the LRU order names b; a thread that loaded b has yet to enter it there; one
\* that evicted b has yet to take it out
Listed(b) == Lists(resident, b)

Loading(b) == \E t \in Threads : pc[t] = "register" /\ blk[t] = b

Unlisting(b) == \E t \in Threads : pc[t] = "unlist" /\ Candidate(t) = b

InStep(b) ==
    /\ stack[b] # Nil /\ ~Loading(b) => Listed(b) /\ ~Unlisting(b)
    /\ stack[b] = Nil \/ Loading(b) => (Listed(b) <=> Unlisting(b))

LruInv ==
    /\ resident_count = Len(resident) /\ Distinct(resident)
    /\ \A b \in Blocks : InStep(b)

\* The invariant by its parts is the property that the runs check.
LEMMA LruInvIs == LruInv <=> ResidencyExact
BY DEF LruInv, ResidencyExact, InStep, Listed, Loading, Unlisting, Lists, Distinct, Positions

\* While no thread holds the mutex no eviction is half done.
LEMMA NoneUnlisting ==
    ASSUME IInv, shared = Nil
    PROVE  \A t \in Threads : pc[t] # "unlist"
BY ThreadsAssumption DEF IInv, LockInv, HoldsLocks

\* A block of the table has one loader at most, which holds its lock.
LEMMA LoaderHolds ==
    ASSUME IInv, NEW t \in Threads, pc[t] = "register"
    PROVE  writer[blk[t]] = t
BY DEF IInv, LockInv, HoldsLocks

\* A step that leaves the order alone, makes no block resident or absent and
\* starts or ends no load or eviction keeps the order in step.
LEMMA LruFrame ==
    ASSUME LruInv, UNCHANGED <<resident, resident_count>>,
           \A b \in Blocks : stack'[b] = Nil <=> stack[b] = Nil,
           \A t \in Threads : pc[t] = "register" \/ pc'[t] = "register" =>
              pc'[t] = pc[t] /\ blk'[t] = blk[t],
           \A t \in Threads : pc[t] = "unlist" \/ pc'[t] = "unlist" =>
              pc'[t] = pc[t] /\ cur'[t] = cur[t]
    PROVE  LruInv'
<1>. SUFFICES ASSUME NEW b \in Blocks PROVE InStep(b)'
  BY DEF LruInv, Distinct
<1>1. Loading(b)' <=> Loading(b)  BY DEF Loading
<1>2. Unlisting(b)' <=> Unlisting(b)  BY DEF Unlisting, Candidate
<1>3. Listed(b)' <=> Listed(b)  BY DEF Listed, Lists
<1>. QED  BY <1>1, <1>2, <1>3 DEF LruInv, InStep

\* A block that enters the order where it was not, and is resident and not being
\* loaded from then on, is in step with it; the others stay so (register,
\* stacks.rs:384-391).
LEMMA RegisterKeeps ==
    ASSUME IInv, LruInv, shared = Nil, NEW n \in Blocks, ~Listed(n), Register(n),
           \A b \in Blocks \ {n} : stack'[b] = Nil <=> stack[b] = Nil,
           stack'[n] # Nil,
           \A t \in Threads : pc'[t] = "register" => blk'[t] # n,
           \A t \in Threads : pc[t] = "register" /\ blk[t] # n =>
              pc'[t] = "register" /\ blk'[t] = blk[t],
           \A t \in Threads : pc'[t] = "register" => pc[t] = "register" /\ blk'[t] = blk[t],
           \A t \in Threads : pc'[t] # "unlist"
    PROVE  LruInv'
<1>1. /\ resident \in Seq(Blocks) /\ Distinct(resident) /\ resident_count = Len(resident)
      /\ resident' = Append(resident, n) /\ resident_count' = resident_count + 1
      /\ \A t \in Threads : pc[t] # "unlist"
  BY NoneUnlisting DEF IInv, TypeOK, SharedOK, LruInv, Register
<1>2. /\ Distinct(resident') /\ Len(resident') = Len(resident) + 1
      /\ \A y : Lists(resident', y) <=> Lists(resident, y) \/ y = n
  BY <1>1, AppendDistinct DEF Listed
<1>3. resident_count' = Len(resident')  BY <1>1, <1>2
<1>4. ASSUME NEW b \in Blocks PROVE InStep(b)'
  <2>1. ~Unlisting(b) /\ ~Unlisting(b)'  BY <1>1 DEF Unlisting
  <2>2. Listed(b)' <=> Listed(b) \/ b = n  BY <1>2 DEF Listed
  <2>3. CASE b = n
    <3>1. ~Loading(b)'  BY <2>3 DEF Loading
    <3>2. stack'[b] # Nil  BY <2>3
    <3>. QED  BY <2>1, <2>2, <2>3, <3>1, <3>2 DEF InStep
  <2>4. CASE b # n
    <3>1. Loading(b)' <=> Loading(b)  BY <2>4 DEF Loading
    <3>2. stack'[b] = Nil <=> stack[b] = Nil  BY <2>4
    <3>. QED  BY <2>1, <2>2, <2>4, <3>1, <3>2 DEF InStep, LruInv
  <2>. QED  BY <2>3, <2>4
<1>5. Distinct(resident)'  BY <1>2 DEF Distinct
<1>. QED  BY <1>3, <1>4, <1>5 DEF LruInv

\* append_block enters a block that no thread can be loading (stacks.rs:451-475).
LEMMA AppendKeepsLru ==
    ASSUME IInv, FileInv, LruInv, shared = Nil, AppendBlock,
           \A t \in Threads : pc[t] = "register" \/ pc'[t] = "register" =>
              pc'[t] = pc[t] /\ blk'[t] = blk[t],
           \A t \in Threads : pc'[t] = "unlist" => pc[t] = "unlist"
    PROVE  LruInv'
<1>1. /\ ncells \in Blocks /\ stack \in [Blocks -> Stackable] /\ Register(ncells)
      /\ stack' = [stack EXCEPT ![ncells] = <<>>] /\ <<>> # Nil
  <2>1. ncells \in 0 .. MaxBlocks /\ ncells < MaxBlocks
    BY DEF IInv, TypeOK, SharedOK, AppendBlock
  <2>2. ncells \in Blocks  BY <2>1, BoundsAssumption DEF Blocks
  <2>3. <<>> # Nil  BY ItemsAssumption, EmptySeq
  <2>. QED  BY <2>2, <2>3 DEF IInv, TypeOK, CellsOK, AppendBlock
<1>2. stack[ncells] = Nil
  <2>1. ncells \in Nat  BY <1>1 DEF Blocks
  <2>. QED  BY <1>1, <2>1 DEF FileInv, NoStackPastTable
<1>3. \A t \in Threads : pc[t] # "unlist"  BY NoneUnlisting
<1>4. \A t \in Threads : pc[t] = "register" => blk[t] # ncells
  <2>. SUFFICES ASSUME NEW t \in Threads, pc[t] = "register" PROVE blk[t] # ncells
    OBVIOUS
  <2>1. blk[t] \in 0 .. ncells - 1  BY BlockOf
  <2>2. ncells \in Nat  BY <1>1 DEF Blocks
  <2>. QED  BY <2>1, <2>2
<1>5. ASSUME NEW n \in Blocks, n = ncells PROVE LruInv'
  <2>1. ~Unlisting(n)  BY <1>3 DEF Unlisting
  <2>2. ~Listed(n)  BY <1>2, <1>5, <2>1 DEF LruInv, InStep
  <2>3. \A b \in Blocks \ {n} : stack'[b] = Nil <=> stack[b] = Nil  BY <1>1, <1>5
  <2>4. stack'[n] # Nil  BY <1>1, <1>5
  <2>5. \A t \in Threads : pc'[t] # "unlist"  BY <1>3
  <2>6. /\ \A t \in Threads : pc'[t] = "register" => blk'[t] # n
        /\ \A t \in Threads : pc[t] = "register" /\ blk[t] # n =>
              pc'[t] = "register" /\ blk'[t] = blk[t]
        /\ \A t \in Threads : pc'[t] = "register" => pc[t] = "register" /\ blk'[t] = blk[t]
    BY <1>4, <1>5
  <2>7. Register(n)  BY <1>1, <1>5
  <2>. QED  BY <2>2, <2>3, <2>4, <2>5, <2>6, <2>7, RegisterKeeps
<1>. QED  BY <1>1, <1>5

\* The touch moves one block and drops none (stacks.rs:374-382).
LEMMA TouchKeepsList ==
    ASSUME IInv, Distinct(resident), NEW b \in Blocks, Touch(b)
    PROVE  /\ Distinct(resident') /\ Len(resident') = Len(resident)
           /\ \A y : Lists(resident', y) <=> Lists(resident, y)
<1>1. CASE UNCHANGED resident  BY <1>1 DEF Distinct, Lists
<1>2. ASSUME NEW i \in 1 .. Len(resident), resident[i] = b,
             resident' = Append(RemoveIndex(resident, i), b)
      PROVE  /\ Distinct(resident') /\ Len(resident') = Len(resident)
             /\ \A y : Lists(resident', y) <=> Lists(resident, y)
  <2>. DEFINE r == RemoveIndex(resident, i)
  <2>1. resident \in Seq(Blocks) /\ Len(resident) \in Nat
    BY LenProperties DEF IInv, TypeOK, SharedOK
  <2>2. /\ r \in Seq(Blocks) /\ Len(r) = Len(resident) - 1 /\ Distinct(r)
        /\ \A x : Lists(r, x) <=> Lists(resident, x) /\ x # b
    BY <1>2, <2>1, RemoveDistinct
  <2>. HIDE DEF r
  <2>3. ~Lists(r, b)  BY <2>2
  <2>. DEFINE a == Append(r, b)
  <2>4. /\ Len(a) = Len(r) + 1 /\ Distinct(a)
        /\ \A y : Lists(a, y) <=> Lists(r, y) \/ y = b
    BY <2>2, <2>3, AppendDistinct
  <2>. HIDE DEF a
  <2>5. resident' = a  BY <1>2 DEF r, a
  <2>6. Lists(resident, b)  BY <1>2 DEF Lists
  <2>7. Distinct(a) /\ Len(a) = Len(resident)  BY <2>1, <2>2, <2>4
  <2>8. ASSUME NEW y PROVE Lists(a, y) <=> Lists(resident, y)  BY <2>2, <2>4, <2>6
  <2>. QED  BY <2>5, <2>7, <2>8
<1>. QED  BY <1>1, <1>2 DEF Touch, Positions

\* The touch of cell_of reorders the list and lists the same blocks
\* (stacks.rs:338-383).
LEMMA CellOfKeepsLru ==
    ASSUME IInv, LruInv, NEW t \in Threads, CellOf(t)
    PROVE  LruInv'
<1>1. blk[t] \in Blocks  BY DEF IInv, LockInv, OnTable, CellOf
<1>2. /\ Distinct(resident') /\ Len(resident') = Len(resident)
      /\ \A y : Lists(resident', y) <=> Lists(resident, y)
  BY <1>1, TouchKeepsList DEF CellOf, LruInv
<1>3. /\ UNCHANGED <<stack, blk, resident_count>>
      /\ \A u \in Threads : pc'[u] = pc[u] \/ pc'[u] \in {"rlock", "wlock", "idle"}
      /\ \A u \in Threads : pc[u] = "register" => pc'[u] = "register"
      /\ \A u \in Threads : pc[u] # "unlist"
  <2>1. shared = Nil  BY DEF CellOf
  <2>. QED
    BY <2>1, NoneUnlisting
       DEF IInv, TypeOK, CallsOK, CellOf, Goto, Return, cellVars, localVars
<1>4. ASSUME NEW b \in Blocks PROVE InStep(b)'
  <2>1. ~Unlisting(b) /\ ~Unlisting(b)'  BY <1>3 DEF Unlisting
  <2>2. Listed(b)' <=> Listed(b)  BY <1>2 DEF Listed
  <2>3. Loading(b)' <=> Loading(b)  BY <1>3 DEF Loading
  <2>. QED  BY <1>3, <2>1, <2>2, <2>3 DEF InStep, LruInv
<1>5. Distinct(resident)'  BY <1>2 DEF Distinct
<1>. QED  BY <1>2, <1>3, <1>4, <1>5 DEF LruInv

\* The loader enters its block, which was not in the order: the load was made
\* under the cell's lock, so there is one loader (stacks.rs:357-372, 384-391).
LEMMA RegisterLoadedKeepsLru ==
    ASSUME IInv, LruInv, NEW t \in Threads, RegisterLoaded(t)
    PROVE  LruInv'
<1>. DEFINE b == blk[t]
<1>1. /\ b \in Blocks /\ shared = Nil /\ pc[t] = "register" /\ Register(b)
      /\ stack[b] # Nil /\ UNCHANGED <<stack, blk>>
      /\ pc' = [pc EXCEPT ![t] = "body"] /\ pc \in [Threads -> Labels]
  BY BlockOf DEF RegisterLoaded, IInv, TypeOK, CallsOK, LockInv, HoldsLocks, cellVars,
                 localVars, Goto
<1>2. \A u \in Threads : pc[u] # "unlist"  BY <1>1, NoneUnlisting
<1>3. Loading(b)  BY <1>1 DEF Loading
<1>4. ~Unlisting(b)  BY <1>2 DEF Unlisting
<1>5. ~Listed(b)  BY <1>1, <1>3, <1>4 DEF LruInv, InStep
<1>6. \A u \in Threads \ {t} : pc[u] = "register" => blk[u] # b
  BY <1>1, LoaderHolds
<1>7. /\ \A u \in Threads : pc'[u] = "register" => blk'[u] # b
      /\ \A u \in Threads : pc[u] = "register" /\ blk[u] # b =>
            pc'[u] = "register" /\ blk'[u] = blk[u]
      /\ \A u \in Threads : pc'[u] = "register" => pc[u] = "register" /\ blk'[u] = blk[u]
      /\ \A u \in Threads : pc'[u] # "unlist"
  BY <1>1, <1>2, <1>6
<1>8. /\ \A c \in Blocks \ {b} : stack'[c] = Nil <=> stack[c] = Nil
      /\ stack'[b] # Nil
  BY <1>1
<1>. HIDE DEF b
<1>. QED  BY <1>1, <1>5, <1>7, <1>8, RegisterKeeps

\* The evictor takes a stack that is listed, from a cell nobody is loading, and
\* leaves its entry for the next step (stacks.rs:421-430).
LEMMA EvictTakeKeepsLru ==
    ASSUME IInv, LruInv, NEW t \in Threads, EvictTake(t)
    PROVE  LruInv'
<1>. DEFINE v == Candidate(t)
<1>1. /\ shared = t /\ cur[t] \in 1 .. Len(resident) /\ writer[v] = Nil /\ pc[t] = "take"
      /\ stack' = [stack EXCEPT ![v] = Nil] /\ pc' = [pc EXCEPT ![t] = "unlist"]
      /\ UNCHANGED <<resident, resident_count, blk, cur>> /\ pc \in [Threads -> Labels]
      /\ stack \in [Blocks -> Stackable] /\ resident \in Seq(Blocks)
  BY DEF EvictTake, Evictable, Unlocked, IInv, TypeOK, CellsOK, SharedOK, CallsOK, LockInv,
         HoldsLocks, Goto, sharedVars, localVars
<1>2. v \in Blocks /\ Lists(resident, v)
  BY <1>1, ElementOfSeq DEF Candidate, Lists
<1>3. \A u \in Threads \ {t} : pc[u] # "unlist"
  BY <1>1 DEF IInv, LockInv, HoldsLocks
<1>4. \A u \in Threads : pc[u] = "register" => blk[u] # v
  BY <1>1, LoaderHolds, ThreadsAssumption
<1>5. ASSUME NEW b \in Blocks PROVE InStep(b)'
  <2>1. Listed(b)' <=> Listed(b)  BY <1>1 DEF Listed, Lists
  <2>2. Loading(b)' <=> Loading(b)  BY <1>1 DEF Loading
  <2>3. Unlisting(b)' <=> b = v
    <3>1. ASSUME NEW u \in Threads PROVE Candidate(u)' = Candidate(u)
      BY <1>1 DEF Candidate
    <3>. QED  BY <1>1, <1>3, <3>1 DEF Unlisting
  <2>4. CASE b = v
    <3>1. ~Loading(b)  BY <1>4, <2>4 DEF Loading
    <3>2. Listed(b)  BY <1>2, <2>4 DEF Listed
    <3>3. stack'[b] = Nil  BY <1>1, <1>2, <2>4
    <3>. QED  BY <2>1, <2>2, <2>3, <2>4, <3>1, <3>2, <3>3 DEF InStep
  <2>5. CASE b # v
    <3>1. ~Unlisting(b)  BY <1>1, <1>3 DEF Unlisting
    <3>2. stack'[b] = stack[b]  BY <1>1, <2>5
    <3>3. InStep(b)  BY DEF LruInv
    <3>. QED  BY <2>1, <2>2, <2>3, <2>5, <3>1, <3>2, <3>3 DEF InStep
  <2>. QED  BY <2>4, <2>5
<1>. QED  BY <1>1, <1>5 DEF LruInv, Distinct

\* The evictor then takes the entry out, the mutex still held (stacks.rs:430-436).
LEMMA EvictUnlistKeepsLru ==
    ASSUME IInv, LruInv, NEW t \in Threads, EvictUnlist(t)
    PROVE  LruInv'
<1>. DEFINE v == Candidate(t)
            i == cur[t]
<1>1. /\ shared = t /\ i \in 1 .. Len(resident) /\ pc[t] = "unlist"
      /\ resident' = RemoveIndex(resident, i) /\ resident_count' = resident_count - 1
      /\ UNCHANGED <<stack, blk>> /\ pc' = [pc EXCEPT ![t] = "scan"]
      /\ pc \in [Threads -> Labels] /\ resident \in Seq(Blocks) /\ v = resident[i]
      /\ resident_count = Len(resident) /\ Distinct(resident) /\ Len(resident) \in Nat
  BY LenProperties
     DEF EvictUnlist, IInv, TypeOK, SharedOK, CallsOK, LockInv, HoldsLocks, Goto, LruInv,
         cellVars, Candidate
<1>2. \A u \in Threads \ {t} : pc[u] # "unlist"
  BY <1>1 DEF IInv, LockInv, HoldsLocks
<1>3. /\ Len(resident') = Len(resident) - 1 /\ Distinct(resident')
      /\ \A x : Lists(resident', x) <=> Lists(resident, x) /\ x # v
  BY <1>1, RemoveDistinct
<1>4. ASSUME NEW b \in Blocks PROVE InStep(b)'
  <2>1. Listed(b)' <=> Listed(b) /\ b # v  BY <1>3 DEF Listed
  <2>2. Loading(b)' <=> Loading(b)  BY <1>1 DEF Loading
  <2>3. ~Unlisting(b)'  BY <1>1, <1>2 DEF Unlisting
  <2>4. Unlisting(b) <=> b = v  BY <1>1, <1>2 DEF Unlisting
  <2>5. InStep(b)  BY DEF LruInv
  <2>. QED  BY <1>1, <2>1, <2>2, <2>3, <2>4, <2>5 DEF InStep
<1>5. Distinct(resident)'  BY <1>3 DEF Distinct
<1>. QED  BY <1>1, <1>3, <1>4, <1>5 DEF LruInv

\* Every step of a call keeps the order in step with the slots.
LEMMA LruStep ==
    ASSUME IInv, FileInv, LruInv, NEW t \in Threads, Step(t)
    PROVE  LruInv'
<1>0. pc \in [Threads -> Labels] /\ stack \in [Blocks -> Stackable]
  BY DEF IInv, TypeOK, CellsOK, CallsOK
<1>1. CASE ReadTop(t) \/ Spill(t)
  <2>1. /\ shared = Nil /\ \A u \in Threads \ {t} : pc'[u] = pc[u] /\ blk'[u] = blk[u]
        /\ cur' = cur /\ pc[t] \in {"top", "spill"} /\ pc'[t] \in {"top", "touch", "idle"}
    BY <1>0, <1>1 DEF IInv, TypeOK, CallsOK, ReadTop, Spill, Goto, Return, localVars
  <2>2. AppendBlock \/ UNCHANGED <<stack, resident, resident_count>>
    BY <1>1 DEF ReadTop, Spill, AppendFails, cellVars
  <2>3. CASE AppendBlock  BY <2>1, <2>3, AppendKeepsLru
  <2>4. CASE UNCHANGED <<stack, resident, resident_count>>  BY <2>1, <2>4, LruFrame
  <2>. QED  BY <2>2, <2>3, <2>4
<1>2. CASE CellOf(t)  BY <1>2, CellOfKeepsLru
<1>3. CASE Ensure(t)
  <2>. DEFINE b == blk[t]
  <2>1. /\ b \in Blocks /\ pc[t] = "ensure" /\ UNCHANGED <<resident, resident_count, blk, cur>>
        /\ \A u \in Threads \ {t} : pc'[u] = pc[u]
    BY <1>0, <1>3, BlockOf DEF Ensure, Goto, Return, sharedVars, localVars
  <2>2. CASE stack' = stack /\ pc'[t] \in {"body", "idle"}  BY <2>1, <2>2, LruFrame
  <2>3. CASE /\ stack[b] = Nil /\ stack' = [stack EXCEPT ![b] = file[b + 1]]
             /\ file[b + 1] # Nil /\ pc'[t] = "register"
    <3>1. ASSUME NEW c \in Blocks PROVE InStep(c)'
      <4>1. Listed(c)' <=> Listed(c)  BY <2>1 DEF Listed, Lists
      <4>2. Unlisting(c)' <=> Unlisting(c)
        <5>1. ASSUME NEW u \in Threads PROVE Candidate(u)' = Candidate(u)
          BY <2>1 DEF Candidate
        <5>. QED  BY <2>1, <2>3, <5>1 DEF Unlisting
      <4>3. InStep(c)  BY DEF LruInv
      <4>4. CASE c = b
        <5>1. Loading(c)'  BY <2>1, <2>3, <4>4 DEF Loading
        <5>. QED  BY <2>3, <4>1, <4>2, <4>3, <4>4, <5>1 DEF InStep
      <4>5. CASE c # b
        <5>1. Loading(c)' <=> Loading(c)  BY <2>1, <4>5 DEF Loading
        <5>2. stack'[c] = stack[c]  BY <1>0, <2>3, <4>5
        <5>. QED  BY <4>1, <4>2, <4>3, <5>1, <5>2 DEF InStep
      <4>. QED  BY <4>4, <4>5
    <3>. QED  BY <2>1, <3>1 DEF LruInv, Distinct
  <2>. QED  BY <1>0, <1>3, <2>2, <2>3 DEF Ensure, Goto, Return
<1>4. CASE RegisterLoaded(t)  BY <1>4, RegisterLoadedKeepsLru
<1>5. CASE Body(t)
  <2>. DEFINE b == blk[t]
  <2>1. /\ b \in Blocks /\ stack[b] # Nil /\ pc[t] = "body"
        /\ UNCHANGED <<resident, resident_count, blk, cur>>
    BY <1>5, BlockOf DEF Body, sharedVars, IInv, LockInv, HoldsLocks
  <2>2. /\ \A u \in Threads \ {t} : pc'[u] = pc[u]
        /\ pc'[t] \in {"gate", "idle", "spill", "retreat"}
    BY <1>0, <1>5 DEF Body, PushBody, PopBody, LookBody, Goto, Return
  <2>3. \A c \in Blocks : stack'[c] = Nil <=> stack[c] = Nil
    <3>1. Ran(t)  BY <1>5, BodyRan
    <3>. QED  BY <1>0, <2>1, <3>1, ItemsAssumption DEF Ran
  <2>. QED  BY <2>1, <2>2, <2>3, LruFrame
<1>6. CASE EvictTake(t)  BY <1>6, EvictTakeKeepsLru
<1>7. CASE EvictUnlist(t)  BY <1>7, EvictUnlistKeepsLru
<1>8. CASE \/ Retreat(t) \/ Peek(t) \/ ListCells(t) \/ ReadLock(t) \/ ReadBody(t)
           \/ WriteLock(t) \/ FlushBody(t) \/ Gate(t) \/ EvictStart(t) \/ EvictScan(t)
           \/ EvictEnd(t) \/ EvictSkip(t)
  <2>1. UNCHANGED <<stack, resident, resident_count>>
    BY <1>8 DEF Retreat, Peek, ListCells, ReadLock, ReadBody, WriteLock, FlushBody, Gate,
                EvictStart, EvictScan, EvictEnd, EvictSkip, cellVars, sharedVars
  <2>2. pc[t] \notin {"register", "unlist"} /\ pc'[t] \notin {"register", "unlist"}
    BY <1>0, <1>8
       DEF Retreat, Peek, ListCells, ReadLock, ReadBody, WriteLock, FlushBody, Gate,
           EvictStart, EvictScan, EvictEnd, EvictSkip, Goto, Return, Finish
  <2>3. \A u \in Threads \ {t} : pc'[u] = pc[u] /\ blk'[u] = blk[u] /\ cur'[u] = cur[u]
    BY <1>8
       DEF Retreat, Peek, ListCells, ReadLock, ReadBody, WriteLock, FlushBody, Gate,
           EvictStart, EvictScan, EvictEnd, EvictSkip, Goto, Return, Finish, localVars,
           IInv, TypeOK, CallsOK
  <2>. QED  BY <2>1, <2>2, <2>3, LruFrame
<1>. QED  BY <1>1, <1>2, <1>3, <1>4, <1>5, <1>6, <1>7, <1>8 DEF Step

\* Every step keeps the LRU order in step with the slots.
LEMMA LruInductive ==
    ASSUME IInv, FileInv, LruInv, [Next]_vars
    PROVE  LruInv'
<1>0. pc \in [Threads -> Labels] /\ blk \in [Threads -> Blocks \union {-1}]
  BY DEF IInv, TypeOK, CallsOK
<1>1. ASSUME NEW t \in Threads, Step(t) PROVE LruInv'  BY <1>1, LruStep
<1>2. ASSUME NEW t \in Threads, Call(t) PROVE LruInv'
  <2>1. /\ pc[t] = "idle" /\ cur' = cur /\ UNCHANGED <<stack, resident, resident_count>>
        /\ pc'[t] \in {"top", "rtouch", "cells", "peek"}
        /\ \A u \in Threads \ {t} : pc'[u] = pc[u] /\ blk'[u] = blk[u]
    <3>1. PICK k, b, x, l : /\ Begin(t, k, b, x, l) /\ pc[t] = "idle"
                            /\ l \in {"top", "rtouch", "cells", "peek"}
      BY <1>2 DEF Call, CallPush, CallPop, CallRead, CallLease, CallFlush, CallLen, CallPeek,
                  CanCall
    <3>. QED  BY <1>0, <3>1 DEF Begin, cellVars, sharedVars
  <2>. QED  BY <2>1, LruFrame
<1>3. ASSUME NEW t \in Threads, DropLease(t) PROVE LruInv'
  BY <1>3, LruFrame DEF DropLease, sharedVars, localVars
<1>4. CASE Close
  <2>1. /\ resident' = <<>> /\ resident_count' = 0 /\ stack' = [b \in Blocks |-> Nil]
        /\ \A u \in Threads : pc'[u] = "idle"
    BY <1>4 DEF Close
  <2>2. \A b \in Blocks : ~Listed(b)' /\ ~Loading(b)' /\ ~Unlisting(b)'
    BY <2>1 DEF Listed, Lists, Loading, Unlisting
  <2>3. Distinct(resident)'  BY <2>1 DEF Distinct
  <2>. QED  BY <2>1, <2>2, <2>3 DEF LruInv, InStep
<1>5. CASE Reopen
  BY <1>5, LruFrame DEF Reopen, cellVars, localVars
<1>6. CASE UNCHANGED vars
  BY <1>6, LruFrame DEF vars, cellVars, sharedVars, localVars
<1>. QED  BY <1>1, <1>2, <1>3, <1>4, <1>5, <1>6 DEF Next, Done

\* A file just opened has nothing resident (stacks.rs:218-294).
LEMMA InitLru == Init => LruInv
<1>. SUFFICES ASSUME Init PROVE LruInv  OBVIOUS
<1>1. \A b \in Blocks : ~Listed(b) /\ ~Loading(b) /\ ~Unlisting(b)
  BY DEF Init, Listed, Lists, Loading, Unlisting
<1>. QED  BY <1>1 DEF Init, LruInv, InStep, Distinct

\* OrderFollowsSlots: for any number of threads and blocks the LRU order and
\* its count name the resident blocks and no other, but for a block whose load
\* or eviction is half done, and no loader registers a block twice (the
\* debug_assert of register, stacks.rs:386; evict, stacks.rs:397-436).
THEOREM OrderFollowsSlots == Spec => []ResidencyExact
<1>1. Init => FileInv /\ LruInv
  BY InitLru DEF Init, FileInv, CleanIsOnFile, NoStackPastTable
<1>2. IInv /\ FileInv /\ LruInv /\ [Next]_vars => FileInv' /\ LruInv'
  BY FileInductive, LruInductive
<1>3. LruInv => ResidencyExact  BY LruInvIs
<1>. QED  BY <1>1, <1>2, <1>3, Invariance, PTL DEF Spec

-----------------------------------------------------------------------------
(* What a step does to the blocks.                                         *)

\* while no I/O call fails the file has one record for each cell, all written
FileFull ==
    faults = 0 => /\ Len(file) = ncells
                  /\ \A b \in 0 .. ncells - 1 : file[b + 1] # Nil

DiskInv == IInv /\ FileInv /\ FileFull

SameBlocks == ncells' = ncells /\ \A b \in 0 .. ncells - 1 : Contents(b)' = Contents(b)

OthersSame(b) ==
    ncells' = ncells /\ \A c \in 0 .. ncells - 1 : c # b => Contents(c)' = Contents(c)

\* the blocks and the target stay as they are
Steady == SameBlocks /\ UNCHANGED <<top, landed, gone>>

\* an empty block is appended and becomes the target
NewBlock ==
    /\ ncells' = ncells + 1 /\ top' = ncells
    /\ \A b \in Blocks : b = ncells => Contents(b)' = <<>>
    /\ \A b \in 0 .. ncells - 1 : Contents(b)' = Contents(b)
    /\ UNCHANGED <<landed, gone>>

\* push stores its item at the end of the block it holds
Landing(t, b) ==
    /\ pc[t] = "body" /\ op[t] = "push" /\ pc'[t] = "gate" /\ b = blk[t]
    /\ Fits(Contents(b), arg[t])
    /\ Contents(b)' = Append(Contents(b), arg[t]) /\ OthersSame(b)
    /\ landed' = landed \union {arg[t]} /\ UNCHANGED <<top, gone>>

\* pop takes the last item of the block it holds
Taking(t, b) ==
    LET n == Len(Contents(b)) IN
    /\ pc[t] = "body" /\ op[t] = "pop" /\ pc'[t] = "gate" /\ b = blk[t]
    /\ n > 0 /\ Contents(b)' = SubSeq(Contents(b), 1, n - 1) /\ OthersSame(b)
    /\ gone' = gone \union {Contents(b)[n]} /\ UNCHANGED <<top, landed>>

\* pop moves the target back from the block it saw empty
Retreating(t) ==
    /\ pc[t] = "retreat" /\ top = blk[t] /\ top > 0 /\ top' = top - 1
    /\ SameBlocks /\ UNCHANGED <<landed, gone>>

\* the file is opened again at its last record
Reloading == top' = LastBlock(file) /\ SameBlocks /\ UNCHANGED <<landed, gone, file>>

\* While no I/O call fails every block holds a stack of items.
LEMMA ContentsType ==
    ASSUME DiskInv, faults = 0
    PROVE  /\ ncells \in 0 .. MaxBlocks /\ ncells \in Nat
           /\ \A b \in 0 .. ncells - 1 :
                 /\ b \in Blocks /\ b + 1 \in 1 .. Len(file)
                 /\ Contents(b) \in Seq(Items) /\ file[b + 1] \in Seq(Items)
<1>1. ncells \in 0 .. MaxBlocks /\ ncells \in Nat /\ Len(file) = ncells
  BY BoundsAssumption DEF DiskInv, FileFull, IInv, TypeOK, SharedOK
<1>. SUFFICES ASSUME NEW b \in 0 .. ncells - 1
              PROVE  /\ b \in Blocks /\ b + 1 \in 1 .. Len(file)
                     /\ Contents(b) \in Seq(Items) /\ file[b + 1] \in Seq(Items)
  BY <1>1
<1>2. b \in Blocks /\ b + 1 \in 1 .. Len(file)  BY <1>1, BoundsAssumption DEF Blocks
<1>3. file[b + 1] \in Stackable  BY <1>2, ElementOfSeq DEF DiskInv, IInv, TypeOK, DiskOK
<1>4. file[b + 1] \in Seq(Items)  BY <1>3 DEF DiskInv, FileFull, Stackable
<1>5. stack[b] # Nil => stack[b] \in Seq(Items)
  BY <1>2 DEF DiskInv, IInv, TypeOK, CellsOK, Stackable
<1>. QED  BY <1>2, <1>4, <1>5 DEF Contents

\* A step that leaves slots and file alone leaves every block alone.
LEMMA SteadyFrame ==
    ASSUME stack' = stack, file' = file, UNCHANGED <<ncells, top, landed, gone>>
    PROVE  Steady
BY DEF Steady, SameBlocks, Contents

\* append_block adds one empty block and changes no other (stacks.rs:451-475).
LEMMA AppendBlockEffect ==
    ASSUME DiskInv, faults = 0, AppendBlock, UNCHANGED <<landed, gone>>
    PROVE  /\ NewBlock /\ FileFull'
           /\ \A b \in 0 .. ncells - 1 : file'[b + 1] = file[b + 1]
<1>0. /\ ncells \in Nat /\ ncells \in Blocks /\ Len(file) = ncells /\ ncells < MaxBlocks
      /\ file \in Seq(Stackable) /\ stack \in [Blocks -> Stackable] /\ Nil \in Stackable
      /\ <<>> # Nil
  <2>1. ncells \in 0 .. MaxBlocks /\ ncells < MaxBlocks /\ Len(file) = ncells
    BY DEF DiskInv, FileFull, IInv, TypeOK, SharedOK, AppendBlock
  <2>2. ncells \in Nat /\ ncells \in Blocks  BY <2>1, BoundsAssumption DEF Blocks
  <2>3. <<>> # Nil  BY ItemsAssumption, EmptySeq
  <2>. QED
    BY <2>1, <2>2, <2>3 DEF DiskInv, IInv, TypeOK, CellsOK, DiskOK, Stackable
<1>1. file' = [Append(file, Nil) EXCEPT ![ncells + 1] = <<>>]
  BY <1>0 DEF AppendBlock, Grown
<1>2. /\ Len(file') = ncells + 1 /\ file'[ncells + 1] = <<>>
      /\ \A b \in 0 .. ncells - 1 : file'[b + 1] = file[b + 1]
  <2>. DEFINE g == Append(file, Nil)
  <2>1. /\ g \in Seq(Stackable) /\ Len(g) = ncells + 1
        /\ \A i \in 1 .. ncells : g[i] = file[i]
    BY <1>0, AppendProperties
  <2>. HIDE DEF g
  <2>2. file' = [g EXCEPT ![ncells + 1] = <<>>]  BY <1>1 DEF g
  <2>3. DOMAIN g = 1 .. ncells + 1  BY <2>1, LenProperties
  <2>4. Len(file') = ncells + 1 /\ file'[ncells + 1] = <<>>
    <3>1. <<>> \in Stackable  BY EmptySeq DEF Stackable
    <3>2. ncells + 1 \in 1 .. Len(g)  BY <1>0, <2>1
    <3>. QED  BY <2>1, <2>2, <3>1, <3>2, ExceptSeq
  <2>. QED  BY <1>0, <2>1, <2>2, <2>3, <2>4
<1>3. stack' = [stack EXCEPT ![ncells] = <<>>] /\ ncells' = ncells + 1 /\ top' = ncells
  BY DEF AppendBlock
<1>4. \A b \in 0 .. ncells - 1 : b \in Blocks /\ b # ncells
  BY <1>0, BoundsAssumption DEF Blocks
<1>5. NewBlock  BY <1>0, <1>2, <1>3, <1>4 DEF NewBlock, Contents
<1>6. FileFull'
  <2>. SUFFICES ASSUME NEW b \in 0 .. ncells PROVE file'[b + 1] # Nil
    BY <1>0, <1>2, <1>3 DEF FileFull
  <2>1. CASE b = ncells  BY <1>0, <1>2, <2>1
  <2>2. CASE b # ncells
    <3>1. b \in 0 .. ncells - 1  BY <1>0, <2>2
    <3>. QED  BY <3>1, <1>2 DEF DiskInv, FileFull
  <2>. QED  BY <2>1, <2>2
<1>. QED  BY <1>2, <1>5, <1>6

\* An append that fails without an I/O error finds the disk full and changes
\* nothing (stacks.rs:459-461).
LEMMA AppendFailsEffect ==
    ASSUME DiskInv, faults' = 0, AppendFails
    PROVE  UNCHANGED <<stack, file, faults, ncells, top>>
BY DEF DiskInv, IInv, TypeOK, DiskOK, AppendFails, Fault, diskVars, cellVars

\* A step that keeps every block and the length of the file keeps the file full.
LEMMA FullFrame ==
    ASSUME FileFull, faults = 0, file' = file, ncells' = ncells
    PROVE  FileFull'
BY DEF FileFull

\* what a step may do to the blocks
Effect(t) ==
    \/ Steady
    \/ NewBlock /\ pc[t] \in {"top", "spill"}
    \/ \E b \in 0 .. ncells - 1 : Landing(t, b) \/ Taking(t, b)
    \/ Retreating(t)

\* A load takes the record it finds: the block is what it was
\* (ensure, stacks.rs:357-372).
LEMMA EnsureEffect ==
    ASSUME DiskInv, NEW t \in Threads, Ensure(t), faults' = 0
    PROVE  faults = 0 /\ FileFull' /\ Steady
<1>. DEFINE b == blk[t]
<1>1. /\ file' = file /\ ncells' = ncells /\ UNCHANGED <<top, landed, gone>>
      /\ faults' = faults \/ faults' = faults + 1
  BY DEF Ensure, diskVars, sharedVars, itemVars, Fault
<1>2. faults = 0  BY <1>1 DEF DiskInv, IInv, TypeOK, DiskOK
<1>3. FileFull'  BY <1>1, <1>2 DEF DiskInv, FileFull
<1>4. \/ stack' = stack
      \/ stack[b] = Nil /\ stack' = [stack EXCEPT ![b] = file[b + 1]] /\ file[b + 1] # Nil
  BY DEF Ensure
<1>5. \A c \in 0 .. ncells - 1 : c \in Blocks /\ stack \in [Blocks -> Stackable]
  BY <1>2, ContentsType DEF DiskInv, IInv, TypeOK, CellsOK
<1>6. CASE stack' = stack  BY <1>1, <1>2, <1>3, <1>6, SteadyFrame
<1>7. CASE stack[b] = Nil /\ stack' = [stack EXCEPT ![b] = file[b + 1]] /\ file[b + 1] # Nil
  <2>1. \A c \in 0 .. ncells - 1 : Contents(c)' = Contents(c)
    BY <1>1, <1>5, <1>7 DEF Contents
  <2>. QED  BY <1>1, <1>2, <1>3, <2>1 DEF Steady, SameBlocks
<1>. QED  BY <1>4, <1>6, <1>7

\* A write-back by flush changes a record, not the block
\* (flush_slot, stacks.rs:438-449).
LEMMA FlushBodyEffect ==
    ASSUME DiskInv, NEW t \in Threads, FlushBody(t), faults' = 0
    PROVE  faults = 0 /\ FileFull' /\ Steady
<1>. DEFINE b == blk[t]
<1>1. /\ stack' = stack /\ ncells' = ncells /\ UNCHANGED <<top, landed, gone>>
      /\ faults' = faults \/ faults' = faults + 1
      /\ file' = file \/ (dirty[b] /\ file' = [file EXCEPT ![b + 1] = stack[b]])
  BY DEF FlushBody, FlushSlot, diskVars, sharedVars, itemVars, callVars, Fault
<1>2. faults = 0 /\ b \in Blocks /\ b + 1 \in 1 .. Len(file) /\ b \in 0 .. ncells - 1
  BY <1>1, BlockOf DEF DiskInv, IInv, TypeOK, DiskOK, FlushBody
<1>3. CASE file' = file  BY <1>1, <1>2, <1>3, SteadyFrame, FullFrame DEF DiskInv
<1>4. CASE dirty[b] /\ file' = [file EXCEPT ![b + 1] = stack[b]]
  <2>1. stack[b] # Nil  BY <1>2, <1>4 DEF DiskInv, FileInv, CleanIsOnFile
  <2>2. stack[b] \in Stackable /\ file \in Seq(Stackable)
    BY <1>2 DEF DiskInv, IInv, TypeOK, CellsOK, DiskOK
  <2>3. Len(file') = Len(file) /\ file'[b + 1] = stack[b]
        /\ \A i \in 1 .. Len(file) : i # b + 1 => file'[i] = file[i]
    BY <1>2, <1>4, <2>2, ExceptSeq
  <2>4. Len(file) = ncells /\ ncells \in Nat
        /\ \A c \in 0 .. ncells - 1 : c + 1 \in 1 .. Len(file) /\ (c # b => c + 1 # b + 1)
    BY <1>2, ContentsType DEF DiskInv, FileFull
  <2>5. \A c \in 0 .. ncells - 1 : Contents(c)' = Contents(c)
    BY <1>1, <2>1, <2>3, <2>4 DEF Contents
  <2>6. FileFull'
    BY <1>1, <1>2, <2>1, <2>3, <2>4 DEF DiskInv, FileFull
  <2>. QED  BY <1>1, <1>2, <2>5, <2>6 DEF Steady, SameBlocks
<1>. QED  BY <1>1, <1>3, <1>4

\* An eviction moves a block to its record, and changes no block
\* (evict, stacks.rs:421-430).
LEMMA EvictTakeEffect ==
    ASSUME DiskInv, NEW t \in Threads, EvictTake(t), faults' = 0
    PROVE  faults = 0 /\ FileFull' /\ Steady
<1>. DEFINE v == Candidate(t)
<1>1. /\ stack' = [stack EXCEPT ![v] = Nil]
      /\ ncells' = ncells /\ UNCHANGED <<top, landed, gone>>
      /\ \/ dirty[v] /\ file' = [file EXCEPT ![v + 1] = stack[v]] /\ faults' = faults
         \/ dirty[v] /\ faults' = faults + 1
         \/ ~dirty[v] /\ file' = file /\ faults' = faults
  BY DEF EvictTake, diskVars, sharedVars, itemVars, Fault
<1>2. v \in Blocks
  BY ElementOfSeq
     DEF EvictTake, Candidate, DiskInv, IInv, TypeOK, SharedOK, LockInv, HoldsLocks
<1>3. faults = 0 /\ faults \in Nat  BY <1>1 DEF DiskInv, IInv, TypeOK, DiskOK
<1>4. /\ Len(file) = ncells /\ ncells \in Nat /\ file \in Seq(Stackable)
      /\ stack \in [Blocks -> Stackable] /\ v \in Nat
      /\ \A c \in 0 .. ncells - 1 :
            c \in Blocks /\ c + 1 \in 1 .. Len(file) /\ (c # v => c + 1 # v + 1)
  BY <1>2, <1>3, ContentsType DEF DiskInv, FileFull, IInv, TypeOK, CellsOK, DiskOK, Blocks
<1>5. \A c \in 0 .. ncells - 1 : c # v => stack'[c] = stack[c]
  BY <1>1, <1>4
<1>6. stack'[v] = Nil  BY <1>1, <1>2, <1>4
<1>7. CASE dirty[v] /\ file' = [file EXCEPT ![v + 1] = stack[v]]
  <2>1. stack[v] # Nil /\ v < ncells
    BY <1>2, <1>4, <1>7 DEF DiskInv, FileInv, CleanIsOnFile, NoStackPastTable
  <2>2. v + 1 \in 1 .. Len(file) /\ stack[v] \in Stackable  BY <1>2, <1>4, <2>1
  <2>3. Len(file') = Len(file) /\ file'[v + 1] = stack[v]
        /\ \A i \in 1 .. Len(file) : i # v + 1 => file'[i] = file[i]
    BY <1>4, <1>7, <2>2, ExceptSeq
  <2>4. \A c \in 0 .. ncells - 1 : Contents(c)' = Contents(c)
    BY <1>4, <1>5, <1>6, <2>1, <2>3 DEF Contents
  <2>5. FileFull'
    BY <1>1, <1>3, <1>4, <2>1, <2>3 DEF DiskInv, FileFull
  <2>. QED  BY <1>1, <1>3, <2>4, <2>5 DEF Steady, SameBlocks
<1>8. CASE ~dirty[v] /\ file' = file
  <2>1. stack[v] = Nil \/ file[v + 1] = stack[v]
    BY <1>2, <1>8 DEF DiskInv, FileInv, CleanIsOnFile
  <2>2. \A c \in 0 .. ncells - 1 : Contents(c)' = Contents(c)
    BY <1>5, <1>6, <1>8, <2>1 DEF Contents
  <2>. QED  BY <1>1, <1>3, <1>8, <2>2, FullFrame DEF Steady, SameBlocks, DiskInv
<1>. QED  BY <1>1, <1>3, <1>7, <1>8

\* The closures of push and pop change one end of one block, the others none
\* (stacks.rs:500-519, 535-548, 571-583).
LEMMA BodyEffect ==
    ASSUME DiskInv, NEW t \in Threads, Body(t), faults' = 0
    PROVE  faults = 0 /\ FileFull' /\ Effect(t)
<1>. DEFINE b == blk[t]
<1>1. /\ file' = file /\ ncells' = ncells /\ top' = top /\ faults' = faults /\ pc[t] = "body"
  BY DEF Body, diskVars, sharedVars
<1>2. /\ b \in Blocks /\ b \in 0 .. ncells - 1 /\ stack[b] # Nil
      /\ stack \in [Blocks -> Stackable] /\ stack[b] \in Seq(Items)
  <2>1. b \in Blocks /\ b \in 0 .. ncells - 1  BY <1>1, BlockOf DEF DiskInv
  <2>2. stack[b] # Nil  BY <1>1 DEF DiskInv, IInv, LockInv, HoldsLocks
  <2>. QED  BY <2>1, <2>2 DEF DiskInv, IInv, TypeOK, CellsOK, Stackable
<1>3. FileFull'  BY <1>1, FullFrame DEF DiskInv
<1>4. Contents(b) = stack[b]  BY <1>2 DEF Contents
<1>5. \A c \in 0 .. ncells - 1 : c \in Blocks  BY <1>1, ContentsType
<1>6. pc \in [Threads -> Labels]  BY DEF DiskInv, IInv, TypeOK, CallsOK
<1>7. ASSUME NEW s \in Seq(Items), stack' = [stack EXCEPT ![b] = s]
      PROVE  OthersSame(b) /\ \A c \in Blocks : c = b => Contents(c)' = s
  <2>1. s # Nil  BY ItemsAssumption
  <2>. QED  BY <1>1, <1>2, <1>5, <1>7, <2>1 DEF OthersSame, Contents
<1>8. CASE op[t] = "push" /\ PushBody(t)
  <2>0. arg[t] \in Items  BY <1>8 DEF DiskInv, IInv, LockInv, OnTable
  <2>1. CASE Fits(stack[b], arg[t])
    <3>1. /\ stack' = [stack EXCEPT ![b] = Append(stack[b], arg[t])]
          /\ landed' = landed \union {arg[t]} /\ gone' = gone /\ pc'[t] = "gate"
      BY <1>6, <1>8, <2>1 DEF PushBody, Goto
    <3>2. Append(stack[b], arg[t]) \in Seq(Items)  BY <1>2, <2>0, AppendProperties
    <3>. DEFINE x == Append(stack[b], arg[t])
    <3>3. OthersSame(b) /\ \A c \in Blocks : c = b => Contents(c)' = x
      BY <1>7, <3>1, <3>2
    <3>4. \A c \in 0 .. ncells - 1 : c = b => Landing(t, c)
      BY <1>1, <1>2, <1>4, <1>5, <1>8, <2>1, <3>1, <3>3 DEF Landing
    <3>. QED  BY <1>1, <1>2, <1>3, <3>4 DEF Effect
  <2>2. CASE ~Fits(stack[b], arg[t])
    <3>1. UNCHANGED <<stack, landed, gone>>  BY <1>8, <2>2 DEF PushBody
    <3>. QED  BY <1>1, <1>3, <3>1, SteadyFrame DEF Effect
  <2>. QED  BY <2>1, <2>2
<1>9. CASE op[t] = "pop" /\ PopBody(t)
  <2>. DEFINE n == Len(stack[b])
  <2>0. n \in Nat  BY <1>2, LenProperties
  <2>1. CASE n = 0
    <3>1. UNCHANGED <<stack, landed, gone>>  BY <1>9, <2>1 DEF PopBody
    <3>. QED  BY <1>1, <1>3, <3>1, SteadyFrame DEF Effect
  <2>2. CASE n # 0
    <3>1. /\ stack' = [stack EXCEPT ![b] = SubSeq(stack[b], 1, n - 1)]
          /\ gone' = gone \union {stack[b][n]} /\ landed' = landed /\ pc'[t] = "gate"
      BY <1>6, <1>9, <2>2 DEF PopBody, Goto
    <3>. DEFINE x == SubSeq(stack[b], 1, n - 1)
    <3>2. x \in Seq(Items)
      <4>1. \A i \in 1 .. n - 1 : stack[b][i] \in Items  BY <1>2, <2>0, ElementOfSeq
      <4>. QED  BY <2>0, <2>2, <4>1, SubSeqProperties
    <3>3. OthersSame(b) /\ \A c \in Blocks : c = b => Contents(c)' = x
      <4>. HIDE DEF x
      <4>. QED  BY <1>7, <3>1, <3>2 DEF x
    <3>4. \A c \in 0 .. ncells - 1 : c = b => Taking(t, c)
      BY <1>1, <1>2, <1>4, <1>5, <1>9, <2>0, <2>2, <3>1, <3>3 DEF Taking
    <3>. QED  BY <1>1, <1>2, <1>3, <3>4 DEF Effect
  <2>. QED  BY <2>1, <2>2
<1>10. CASE LookBody(t)
  <2>1. UNCHANGED <<stack, landed, gone>>  BY <1>10 DEF LookBody
  <2>. QED  BY <1>1, <1>3, <2>1, SteadyFrame DEF Effect
<1>. QED  BY <1>8, <1>9, <1>10 DEF Body

\* Every step of a call does one of the five things to the blocks.
LEMMA StepEffect ==
    ASSUME DiskInv, NEW t \in Threads, Step(t), faults' = 0
    PROVE  faults = 0 /\ FileFull' /\ Effect(t) /\ UNCHANGED <<open, born>>
<1>0. UNCHANGED <<open, born>>
  BY DEF Step, ReadTop, CellOf, Spill, Retreat, Peek, ListCells, ReadLock, ReadBody,
         WriteLock, Ensure, RegisterLoaded, Body, FlushBody, Gate, EvictStart, EvictScan,
         EvictEnd, EvictSkip, EvictTake, EvictUnlist, lifeVars, itemVars
<1>1. CASE ReadTop(t) \/ Spill(t)
  <2>0. UNCHANGED <<landed, gone>> /\ pc[t] \in {"top", "spill"}
    BY <1>1 DEF ReadTop, Spill, itemVars
  <2>1. \/ AppendBlock
        \/ AppendFails
        \/ UNCHANGED <<cellVars, top, ncells, resident, resident_count, diskVars>>
    BY <1>1 DEF ReadTop, Spill
  <2>2. CASE AppendBlock
    <3>1. faults = 0  BY <2>2 DEF AppendBlock
    <3>. QED  BY <1>0, <2>0, <2>2, <3>1, AppendBlockEffect DEF Effect
  <2>3. CASE AppendFails
    BY <1>0, <2>0, <2>3, AppendFailsEffect, SteadyFrame, FullFrame DEF Effect, DiskInv
  <2>4. CASE UNCHANGED <<cellVars, top, ncells, resident, resident_count, diskVars>>
    BY <1>0, <2>0, <2>4, SteadyFrame, FullFrame DEF Effect, DiskInv, cellVars, diskVars
  <2>. QED  BY <2>1, <2>2, <2>3, <2>4
<1>2. CASE Retreat(t)
  <2>1. UNCHANGED <<stack, file, faults, ncells, landed, gone>> /\ pc[t] = "retreat"
    BY <1>2 DEF Retreat, cellVars, diskVars, itemVars
  <2>2. SameBlocks  BY <2>1 DEF SameBlocks, Contents
  <2>3. top' = top \/ (top = blk[t] /\ top > 0 /\ top' = top - 1)
    <3>1. top \in Nat  BY DEF DiskInv, IInv, TypeOK, SharedOK, Blocks
    <3>. QED  BY <1>2, <3>1 DEF Retreat
  <2>. QED
    BY <1>0, <2>1, <2>2, <2>3, FullFrame DEF Effect, Steady, Retreating, DiskInv
<1>3. CASE Ensure(t)  BY <1>0, <1>3, EnsureEffect DEF Effect
<1>4. CASE Body(t)  BY <1>0, <1>4, BodyEffect
<1>5. CASE FlushBody(t)  BY <1>0, <1>5, FlushBodyEffect DEF Effect
<1>6. CASE EvictTake(t)  BY <1>0, <1>6, EvictTakeEffect DEF Effect
<1>7. CASE ~(ReadTop(t) \/ Spill(t) \/ Retreat(t) \/ Ensure(t) \/ Body(t) \/ FlushBody(t)
             \/ EvictTake(t))
  <2>1. UNCHANGED <<stack, file, faults, ncells, top, landed, gone>>
    BY <1>7 DEF Step, CellOf, Peek, ListCells, ReadLock, ReadBody, WriteLock,
                RegisterLoaded, Gate, EvictStart, EvictScan, EvictEnd, EvictSkip,
                EvictUnlist, cellVars, diskVars, sharedVars, itemVars
  <2>. QED  BY <1>0, <2>1, SteadyFrame, FullFrame DEF Effect, DiskInv
<1>. QED  BY <1>1, <1>2, <1>3, <1>4, <1>5, <1>6, <1>7

\* The last handle's drop writes every dirty block to its record and changes
\* none (stacks.rs:199-210).
LEMMA CloseEffect ==
    ASSUME DiskInv, Close, faults' = 0
    PROVE  faults = 0 /\ FileFull' /\ Steady
<1>0. faults \in Nat /\ IsFiniteSet(Blocks)
  BY BoundsAssumption, FS_Interval DEF DiskInv, IInv, TypeOK, DiskOK, Blocks
<1>1. PICK failed \in SUBSET {b \in Blocks : dirty[b]} :
        /\ faults' = faults + Cardinality(failed)
        /\ file' = [i \in 1 .. Len(file) |->
                      IF dirty[i - 1] /\ i - 1 \notin failed THEN stack[i - 1] ELSE file[i]]
  BY DEF Close
<1>2. faults = 0 /\ failed = {}
  <2>1. IsFiniteSet(failed)  BY <1>0, FS_Subset
  <2>2. Cardinality(failed) \in Nat  BY <2>1, FS_CardinalityType
  <2>3. faults = 0 /\ Cardinality(failed) = 0  BY <1>0, <1>1, <2>2
  <2>. QED  BY <2>1, <2>3, FS_EmptySet
<1>3. /\ Len(file) = ncells /\ ncells \in Nat /\ ncells' = ncells
      /\ UNCHANGED <<top, landed, gone>> /\ stack' = [b \in Blocks |-> Nil]
  BY <1>2, ContentsType DEF DiskInv, FileFull, Close, itemVars
<1>4. ASSUME NEW b \in 0 .. ncells - 1
      PROVE  b \in Blocks /\ stack'[b] = Nil /\ file'[b + 1] = Contents(b)
             /\ Contents(b) # Nil
  <2>1. b \in Blocks /\ b + 1 \in 1 .. Len(file) /\ b + 1 - 1 = b
    BY <1>2, ContentsType
  <2>2. file'[b + 1] = IF dirty[b] THEN stack[b] ELSE file[b + 1]
    BY <1>1, <1>2, <2>1
  <2>3. IF stack[b] = Nil THEN ~dirty[b] ELSE dirty[b] \/ file[b + 1] = stack[b]
    BY <2>1 DEF DiskInv, FileInv, CleanIsOnFile
  <2>4. Contents(b) # Nil
    BY <1>2 DEF Contents, DiskInv, FileFull
  <2>. QED  BY <1>3, <2>1, <2>2, <2>3, <2>4 DEF Contents
<1>5. Steady  BY <1>3, <1>4 DEF Steady, SameBlocks, Contents
<1>6. FileFull'
  <2>1. Len(file') = Len(file)  BY <1>1, <1>3
  <2>. QED  BY <1>2, <1>3, <1>4, <2>1 DEF FileFull
<1>. QED  BY <1>2, <1>5, <1>6

\* Opening the file again finds every block in its record (stacks.rs:247-294).
LEMMA ReopenEffect ==
    ASSUME DiskInv, Reopen, faults' = 0
    PROVE  faults = 0 /\ FileFull' /\ Reloading
<1>1. /\ UNCHANGED <<stack, file, faults, landed, gone>> /\ ncells' = Len(file)
      /\ top' = LastBlock(file)
  BY DEF Reopen, cellVars, diskVars, itemVars
<1>2. ncells' = ncells  BY <1>1 DEF DiskInv, FileFull
<1>. QED  BY <1>1, <1>2, FullFrame DEF DiskInv, Reloading, SameBlocks, Contents

\* A call that starts and a lease that is dropped do nothing to the blocks.
LEMMA CallEffect ==
    ASSUME DiskInv, NEW t \in Threads, Call(t) \/ DropLease(t), faults' = 0
    PROVE  faults = 0 /\ FileFull' /\ Steady /\ open' = open
<1>1. UNCHANGED <<stack, file, faults, ncells, top, landed, gone, open>>
  <2>1. CASE Call(t)
    <3>1. PICK k, b, x, l : Begin(t, k, b, x, l)
      BY <2>1 DEF Call, CallPush, CallPop, CallRead, CallLease, CallFlush, CallLen, CallPeek
    <3>. QED  BY <3>1 DEF Begin, cellVars, sharedVars, diskVars, lifeVars
  <2>2. CASE DropLease(t)
    BY <2>2 DEF DropLease, sharedVars, diskVars, lifeVars, itemVars
  <2>. QED  BY <2>1, <2>2
<1>. QED  BY <1>1, SteadyFrame, FullFrame DEF DiskInv

\* Every step of the system does one of the six things to the blocks.
LEMMA NextEffect ==
    ASSUME DiskInv, [Next]_vars, faults' = 0
    PROVE  /\ faults = 0 /\ FileFull'
           /\ \/ Steady
              \/ Reloading
              \/ \E t \in Threads : Step(t) /\ Effect(t)
<1>1. ASSUME NEW t \in Threads, Step(t)
      PROVE  faults = 0 /\ FileFull' /\ Effect(t)
  BY <1>1, StepEffect
<1>2. ASSUME NEW t \in Threads, Call(t) \/ DropLease(t)
      PROVE  faults = 0 /\ FileFull' /\ Steady
  BY <1>2, CallEffect
<1>3. CASE Close  BY <1>3, CloseEffect
<1>4. CASE Reopen  BY <1>4, ReopenEffect
<1>5. CASE UNCHANGED vars
  <2>1. UNCHANGED <<stack, file, faults, ncells, top, landed, gone>>
    BY <1>5 DEF vars, cellVars, sharedVars, diskVars, itemVars
  <2>. QED  BY <2>1, SteadyFrame, FullFrame DEF DiskInv
<1>. QED  BY <1>1, <1>2, <1>3, <1>4, <1>5 DEF Next, Done

\* I/O errors are never forgotten.
LEMMA FaultsGrow ==
    ASSUME IInv, [Next]_vars
    PROVE  faults' = 0 => faults = 0
<1>0. faults \in Nat  BY DEF IInv, TypeOK, DiskOK
<1>1. ASSUME NEW t \in Threads, Step(t) PROVE faults' = faults \/ faults' = faults + 1
  BY <1>1 DEF Step, ReadTop, CellOf, Spill, Retreat, Peek, ListCells, ReadLock, ReadBody,
         WriteLock, Ensure, RegisterLoaded, Body, FlushBody, FlushSlot, Gate, EvictStart,
         EvictScan, EvictEnd, EvictSkip, EvictTake, EvictUnlist, diskVars, sharedVars,
         AppendBlock, AppendFails, Fault
<1>2. ASSUME NEW t \in Threads, Call(t) PROVE faults' = faults
  <2>1. PICK k, b, x, l : Begin(t, k, b, x, l)
    BY <1>2 DEF Call, CallPush, CallPop, CallRead, CallLease, CallFlush, CallLen, CallPeek
  <2>. QED  BY <2>1 DEF Begin, diskVars
<1>3. CASE Close
  <2>1. PICK failed \in SUBSET {b \in Blocks : dirty[b]} :
          faults' = faults + Cardinality(failed)
    BY <1>3 DEF Close
  <2>2. IsFiniteSet(Blocks)  BY BoundsAssumption, FS_Interval DEF Blocks
  <2>3. IsFiniteSet(failed)  BY <2>2, FS_Subset
  <2>4. Cardinality(failed) \in Nat  BY <2>3, FS_CardinalityType
  <2>. QED  BY <1>0, <2>1, <2>4
<1>4. (\E t \in Threads : DropLease(t)) \/ Reopen \/ UNCHANGED vars => faults' = faults
  BY DEF DropLease, Reopen, diskVars, vars
<1>. QED  BY <1>0, <1>1, <1>2, <1>3, <1>4 DEF Next, Done

\* A newly opened file has a written record for each cell.
LEMMA InitDisk == Init => DiskInv
<1>. SUFFICES ASSUME Init PROVE DiskInv  OBVIOUS
<1>1. IInv  BY InitIInv
<1>2. FileInv  BY DEF Init, FileInv, CleanIsOnFile, NoStackPastTable
<1>3. FileFull
  <2>1. file \in Seq(Seq(Items)) /\ ncells = Len(file) /\ ncells \in Nat
    BY FilesAssumption, LenProperties DEF Init
  <2>2. \A b \in 0 .. ncells - 1 : file[b + 1] \in Seq(Items)
    <3>. SUFFICES ASSUME NEW b \in 0 .. ncells - 1 PROVE file[b + 1] \in Seq(Items)
      OBVIOUS
    <3>1. b + 1 \in 1 .. Len(file)  BY <2>1
    <3>. QED  BY <2>1, <3>1, ElementOfSeq
  <2>. QED  BY <2>1, <2>2, ItemsAssumption DEF FileFull
<1>. QED  BY <1>1, <1>2, <1>3 DEF DiskInv

\* Every step keeps the invariant of the file.
LEMMA NextDisk == DiskInv /\ [Next]_vars => DiskInv'
<1>. SUFFICES ASSUME DiskInv, [Next]_vars PROVE DiskInv'  OBVIOUS
<1>1. IInv' /\ FileInv'  BY NextIInv, FileInductive DEF DiskInv
<1>2. FileFull'
  <2>1. CASE faults' = 0  BY <2>1, NextEffect
  <2>2. CASE faults' # 0  BY <2>2 DEF FileFull
  <2>. QED  BY <2>1, <2>2
<1>. QED  BY <1>1, <1>2 DEF DiskInv

-----------------------------------------------------------------------------
(* The same, as the list of blocks that the refinement maps to.            *)

\* While no I/O call fails the list has one stack of items for each cell.
LEMMA ContentIs ==
    ASSUME DiskInv, faults = 0
    PROVE  /\ AbsContent = [i \in 1 .. ncells |-> Contents(i - 1)]
           /\ AbsContent \in Seq(Seq(Items)) /\ Len(AbsContent) = ncells /\ ncells \in Nat
<1>1. AbsContent = [i \in 1 .. ncells |-> Contents(i - 1)] /\ ncells \in Nat
  BY ContentsType DEF AbsContent, DiskInv, FileFull
<1>2. \A i \in 1 .. ncells : Contents(i - 1) \in Seq(Items)
  <2>. SUFFICES ASSUME NEW i \in 1 .. ncells PROVE Contents(i - 1) \in Seq(Items)
    OBVIOUS
  <2>1. i - 1 \in 0 .. ncells - 1  BY <1>1
  <2>. QED  BY <2>1, ContentsType
<1>. QED  BY <1>1, <1>2

\* Blocks that stay the same make the same list.
LEMMA SameContent ==
    ASSUME DiskInv, DiskInv', faults = 0, faults' = 0, SameBlocks
    PROVE  AbsContent' = AbsContent
<1>1. AbsContent = [i \in 1 .. ncells |-> Contents(i - 1)] /\ ncells \in Nat  BY ContentIs
<1>2. AbsContent' = [i \in 1 .. ncells' |-> Contents(i - 1)']
  BY ContentsType DEF AbsContent, DiskInv, FileFull
<1>3. ncells' = ncells /\ \A b \in 0 .. ncells - 1 : Contents(b)' = Contents(b)
  BY DEF SameBlocks
<1>4. \A i \in 1 .. ncells : Contents(i - 1)' = Contents(i - 1)
  <2>. SUFFICES ASSUME NEW i \in 1 .. ncells PROVE Contents(i - 1)' = Contents(i - 1)
    OBVIOUS
  <2>1. i - 1 \in 0 .. ncells - 1  BY <1>1
  <2>. QED  BY <1>3, <2>1
<1>. QED  BY <1>1, <1>2, <1>3, <1>4

\* A new block is appended to the list.
LEMMA NewContent ==
    ASSUME DiskInv, DiskInv', faults = 0, faults' = 0, NewBlock
    PROVE  AbsContent' = Append(AbsContent, <<>>) /\ top' = Len(AbsContent)
<1>1. /\ AbsContent = [i \in 1 .. ncells |-> Contents(i - 1)] /\ ncells \in Nat
      /\ AbsContent \in Seq(Seq(Items)) /\ Len(AbsContent) = ncells
  BY ContentIs
<1>2. AbsContent' = [i \in 1 .. ncells' |-> Contents(i - 1)']
  BY ContentsType DEF AbsContent, DiskInv, FileFull
<1>3. /\ ncells' = ncells + 1 /\ ncells \in Blocks
      /\ \A b \in Blocks : b = ncells => Contents(b)' = <<>>
      /\ \A b \in 0 .. ncells - 1 : Contents(b)' = Contents(b)
  <2>1. ncells \in 0 .. MaxBlocks - 1
    BY <1>1, BoundsAssumption DEF NewBlock, DiskInv, IInv, TypeOK, SharedOK
  <2>. QED  BY <2>1 DEF NewBlock, Blocks
<1>4. \A i \in 1 .. ncells : Contents(i - 1)' = AbsContent[i]
  <2>. SUFFICES ASSUME NEW i \in 1 .. ncells PROVE Contents(i - 1)' = AbsContent[i]
    OBVIOUS
  <2>1. i - 1 \in 0 .. ncells - 1  BY <1>1
  <2>. QED  BY <1>1, <1>3, <2>1
<1>5. \A i \in 1 .. ncells + 1 : i = ncells + 1 => Contents(i - 1)' = <<>>
  <2>. SUFFICES ASSUME NEW i \in 1 .. ncells + 1, i = ncells + 1
                PROVE Contents(i - 1)' = <<>>
    OBVIOUS
  <2>1. i - 1 = ncells /\ i - 1 \in Blocks  BY <1>1, <1>3
  <2>. QED  BY <1>3, <2>1
<1>6. \A i \in 1 .. ncells + 1 : i # ncells + 1 => i \in 1 .. ncells  BY <1>1
<1>. DEFINE C == Append(AbsContent, <<>>)
<1>7. /\ Len(C) = ncells + 1 /\ DOMAIN C = 1 .. ncells + 1
      /\ C = [i \in 1 .. ncells + 1 |-> C[i]]
      /\ C[ncells + 1] = <<>> /\ \A i \in 1 .. ncells : C[i] = AbsContent[i]
  <2>1. <<>> \in Seq(Items) /\ <<>> \in Seq(Seq(Items))  BY EmptySeq
  <2>. QED  BY <1>1, <2>1, AppendProperties, LenProperties
<1>. HIDE DEF C
<1>8. AbsContent' = C  BY <1>1, <1>2, <1>3, <1>4, <1>5, <1>6, <1>7
<1>. QED  BY <1>1, <1>8 DEF C, NewBlock

\* A step that changes one block only changes one element of the list.
LEMMA OneContent ==
    ASSUME DiskInv, DiskInv', faults = 0, faults' = 0, NEW b \in 0 .. ncells - 1,
           NEW s, Contents(b)' = s, OthersSame(b)
    PROVE  /\ AbsContent' = [AbsContent EXCEPT ![b + 1] = s]
           /\ AbsContent[b + 1] = Contents(b) /\ b + 1 \in 1 .. Len(AbsContent)
<1>1. /\ AbsContent = [i \in 1 .. ncells |-> Contents(i - 1)] /\ ncells \in Nat
      /\ Len(AbsContent) = ncells
  BY ContentIs
<1>2. AbsContent' = [i \in 1 .. ncells' |-> Contents(i - 1)']
  BY ContentsType DEF AbsContent, DiskInv, FileFull
<1>3. ncells' = ncells /\ \A c \in 0 .. ncells - 1 : c # b => Contents(c)' = Contents(c)
  BY DEF OthersSame
<1>4. ASSUME NEW i \in 1 .. ncells, i # b + 1 PROVE Contents(i - 1)' = AbsContent[i]
  <2>1. i - 1 \in 0 .. ncells - 1 /\ i - 1 # b  BY <1>1, <1>4
  <2>. QED  BY <1>1, <1>3, <2>1
<1>5. ASSUME NEW i \in 1 .. ncells, i = b + 1 PROVE Contents(i - 1)' = s
  <2>1. i - 1 = b  BY <1>1, <1>5
  <2>. QED  BY <2>1
<1>6. b + 1 \in 1 .. ncells /\ b + 1 - 1 = b  BY <1>1
<1>7. AbsContent[b + 1] = Contents(b)  BY <1>1, <1>6
<1>8. AbsContent' = [i \in 1 .. ncells |-> IF i = b + 1 THEN s ELSE AbsContent[i]]
  BY <1>1, <1>2, <1>3, <1>4, <1>5
<1>. QED  BY <1>1, <1>6, <1>7, <1>8

-----------------------------------------------------------------------------
(* Lists of stacks, and the items they hold.                               *)

\* no item is in two places
OneCopy(C) ==
    \A i, j \in 1 .. Len(C) :
        \A m \in 1 .. Len(C[i]), n \in 1 .. Len(C[j]) : C[i][m] = C[j][n] => i = j /\ m = n

\* x is in some place
Held(C, x) == \E i \in 1 .. Len(C) : \E m \in 1 .. Len(C[i]) : C[i][m] = x

\* A stack that lost its last item holds the others where they were.
LEMMA FrontIs ==
    ASSUME NEW s \in Seq(Items), Len(s) > 0
    PROVE  LET f == SubSeq(s, 1, Len(s) - 1)
           IN  /\ f \in Seq(Items) /\ Len(f) = Len(s) - 1
               /\ \A i \in 1 .. Len(s) - 1 : f[i] = s[i]
<1>1. Len(s) \in Nat /\ \A i \in 1 .. Len(s) - 1 : s[i] \in Items
  <2>1. Len(s) \in Nat /\ \A i \in 1 .. Len(s) : s[i] \in Items
    BY LenProperties, ElementOfSeq
  <2>. QED  BY <2>1
<1>. DEFINE n == Len(s) - 1
            f == SubSeq(s, 1, n)
<1>2. n \in Nat /\ n - 1 + 1 = n  BY <1>1
<1>3. /\ f \in Seq(Items) /\ Len(f) = n
      /\ \A i \in 1 .. n : f[i] = s[1 + i - 1]
  <2>. HIDE DEF n
  <2>. QED  BY <1>1, <1>2, SubSeqProperties DEF n
<1>4. \A i \in 1 .. n : f[i] = s[i]
  <2>1. \A i \in 1 .. n : 1 + i - 1 = i  BY <1>2
  <2>. HIDE DEF n, f
  <2>. QED  BY <1>3, <2>1
<1>. QED  BY <1>3, <1>4

\* A new item on the end of one stack is in that one place, and no other item
\* moves.
LEMMA PutOne ==
    ASSUME NEW C \in Seq(Seq(Items)), NEW i \in 1 .. Len(C), NEW x \in Items,
           OneCopy(C), ~Held(C, x)
    PROVE  LET D == [C EXCEPT ![i] = Append(C[i], x)]
           IN  OneCopy(D) /\ \A y : Held(D, y) <=> Held(C, y) \/ y = x
<1>. DEFINE s == Append(C[i], x)
            D == [C EXCEPT ![i] = s]
<1>1. C[i] \in Seq(Items) /\ Len(C) \in Nat  BY ElementOfSeq, LenProperties
<1>2. /\ s \in Seq(Items) /\ Len(s) = Len(C[i]) + 1 /\ s[Len(s)] = x /\ Len(C[i]) \in Nat
      /\ \A m \in 1 .. Len(C[i]) : s[m] = C[i][m]
  BY <1>1, AppendProperties, LenProperties
<1>. HIDE DEF s
<1>3. /\ D \in Seq(Seq(Items)) /\ Len(D) = Len(C) /\ D[i] = s
      /\ \A j \in 1 .. Len(C) : j # i => D[j] = C[j]
  BY <1>1, <1>2, ExceptSeq
<1>. HIDE DEF D
<1>4. \A j \in 1 .. Len(C) : \A m \in 1 .. Len(D[j]) :
         \/ j = i /\ m = Len(s) /\ D[j][m] = x
         \/ m \in 1 .. Len(C[j]) /\ D[j][m] = C[j][m]
  <2>. SUFFICES ASSUME NEW j \in 1 .. Len(C), NEW m \in 1 .. Len(D[j])
                PROVE  \/ j = i /\ m = Len(s) /\ D[j][m] = x
                       \/ m \in 1 .. Len(C[j]) /\ D[j][m] = C[j][m]
    OBVIOUS
  <2>1. CASE j # i  BY <1>3, <2>1
  <2>2. CASE j = i /\ m = Len(s)  BY <1>2, <1>3, <2>2
  <2>3. CASE j = i /\ m # Len(s)
    <3>1. m \in 1 .. Len(C[i])  BY <1>2, <1>3, <2>3
    <3>. QED  BY <1>2, <1>3, <2>3, <3>1
  <2>. QED  BY <2>1, <2>2, <2>3
<1>5. \A j \in 1 .. Len(C) : \A m \in 1 .. Len(C[j]) :
         m \in 1 .. Len(D[j]) /\ D[j][m] = C[j][m] /\ C[j][m] # x
  <2>. SUFFICES ASSUME NEW j \in 1 .. Len(C), NEW m \in 1 .. Len(C[j])
                PROVE  m \in 1 .. Len(D[j]) /\ D[j][m] = C[j][m] /\ C[j][m] # x
    OBVIOUS
  <2>1. C[j][m] # x  BY DEF Held
  <2>2. CASE j # i  BY <1>3, <2>1, <2>2
  <2>3. CASE j = i
    <3>1. m \in 1 .. Len(s)  BY <1>2, <2>3
    <3>. QED  BY <1>2, <1>3, <2>1, <2>3, <3>1
  <2>. QED  BY <2>2, <2>3
<1>6. OneCopy(D)
  <2>. SUFFICES ASSUME NEW j \in 1 .. Len(C), NEW k \in 1 .. Len(C),
                       NEW m \in 1 .. Len(D[j]), NEW n \in 1 .. Len(D[k]),
                       D[j][m] = D[k][n]
                PROVE  j = k /\ m = n
    BY <1>3 DEF OneCopy
  <2>1. CASE j = i /\ m = Len(s) /\ D[j][m] = x
    <3>1. ~(n \in 1 .. Len(C[k]) /\ D[k][n] = C[k][n])  BY <1>5, <2>1
    <3>2. k = i /\ n = Len(s)  BY <1>4, <3>1
    <3>. QED  BY <2>1, <3>2
  <2>2. CASE k = i /\ n = Len(s) /\ D[k][n] = x
    <3>1. ~(m \in 1 .. Len(C[j]) /\ D[j][m] = C[j][m])  BY <1>5, <2>2
    <3>2. j = i /\ m = Len(s)  BY <1>4, <3>1
    <3>. QED  BY <2>2, <3>2
  <2>3. CASE /\ m \in 1 .. Len(C[j]) /\ D[j][m] = C[j][m]
             /\ n \in 1 .. Len(C[k]) /\ D[k][n] = C[k][n]
    <3>1. C[j][m] = C[k][n]  BY <2>3
    <3>. QED  BY <2>3, <3>1 DEF OneCopy
  <2>. QED  BY <1>4, <2>1, <2>2, <2>3
<1>7. ASSUME NEW y PROVE Held(D, y) <=> Held(C, y) \/ y = x
  <2>1. ASSUME Held(D, y) PROVE Held(C, y) \/ y = x
    BY <1>3, <1>4, <2>1 DEF Held
  <2>2. ASSUME Held(C, y) PROVE Held(D, y)
    BY <1>3, <1>5, <2>2 DEF Held
  <2>3. Held(D, x)
    <3>1. Len(s) \in 1 .. Len(D[i]) /\ D[i][Len(s)] = x  BY <1>2, <1>3
    <3>. QED  BY <1>3, <3>1 DEF Held
  <2>. QED  BY <2>1, <2>2, <2>3
<1>. QED  BY <1>6, <1>7 DEF D, s

\* An item taken off the end of one stack is nowhere, and no other item moves.
LEMMA TakeOne ==
    ASSUME NEW C \in Seq(Seq(Items)), NEW i \in 1 .. Len(C), OneCopy(C), Len(C[i]) > 0
    PROVE  LET n == Len(C[i])
               D == [C EXCEPT ![i] = SubSeq(C[i], 1, n - 1)]
           IN  /\ OneCopy(D) /\ C[i][n] \in Items /\ Held(C, C[i][n])
               /\ \A y : Held(D, y) <=> Held(C, y) /\ y # C[i][n]
<1>. DEFINE n == Len(C[i])
            s == SubSeq(C[i], 1, n - 1)
            D == [C EXCEPT ![i] = s]
<1>1. C[i] \in Seq(Items) /\ Len(C) \in Nat  BY ElementOfSeq, LenProperties
<1>2. /\ s \in Seq(Items) /\ Len(s) = n - 1 /\ n \in Nat /\ C[i][n] \in Items
      /\ \A m \in 1 .. n - 1 : s[m] = C[i][m]
  <2>1. n \in Nat /\ C[i][n] \in Items  BY <1>1, LenProperties, ElementOfSeq
  <2>. QED  BY <1>1, <2>1, FrontIs
<1>. HIDE DEF s
<1>3. /\ D \in Seq(Seq(Items)) /\ Len(D) = Len(C) /\ D[i] = s
      /\ \A j \in 1 .. Len(C) : j # i => D[j] = C[j]
  BY <1>1, <1>2, ExceptSeq
<1>. HIDE DEF D
<1>4. \A j \in 1 .. Len(C) : \A m \in 1 .. Len(D[j]) :
         m \in 1 .. Len(C[j]) /\ D[j][m] = C[j][m] /\ ~(j = i /\ m = n)
  <2>. SUFFICES ASSUME NEW j \in 1 .. Len(C), NEW m \in 1 .. Len(D[j])
                PROVE  m \in 1 .. Len(C[j]) /\ D[j][m] = C[j][m] /\ ~(j = i /\ m = n)
    OBVIOUS
  <2>1. CASE j # i  BY <1>3, <2>1
  <2>2. CASE j = i
    <3>1. m \in 1 .. n - 1  BY <1>2, <1>3, <2>2
    <3>. QED  BY <1>2, <1>3, <2>2, <3>1
  <2>. QED  BY <2>1, <2>2
<1>5. \A j \in 1 .. Len(C) : \A m \in 1 .. Len(C[j]) :
         ~(j = i /\ m = n) => m \in 1 .. Len(D[j]) /\ D[j][m] = C[j][m]
  <2>. SUFFICES ASSUME NEW j \in 1 .. Len(C), NEW m \in 1 .. Len(C[j]), ~(j = i /\ m = n)
                PROVE  m \in 1 .. Len(D[j]) /\ D[j][m] = C[j][m]
    OBVIOUS
  <2>1. CASE j # i  BY <1>3, <2>1
  <2>2. CASE j = i
    <3>1. m \in 1 .. n - 1  BY <1>2, <2>2
    <3>. QED  BY <1>2, <1>3, <2>2, <3>1
  <2>. QED  BY <2>1, <2>2
<1>6. OneCopy(D)
  <2>. SUFFICES ASSUME NEW j \in 1 .. Len(C), NEW k \in 1 .. Len(C),
                       NEW m \in 1 .. Len(D[j]), NEW l \in 1 .. Len(D[k]),
                       D[j][m] = D[k][l]
                PROVE  j = k /\ m = l
    BY <1>3 DEF OneCopy
  <2>1. m \in 1 .. Len(C[j]) /\ l \in 1 .. Len(C[k]) /\ C[j][m] = C[k][l]  BY <1>4
  <2>. QED  BY <2>1 DEF OneCopy
<1>7. n \in 1 .. Len(C[i])  BY <1>2
<1>8. Held(C, C[i][n])  BY <1>7 DEF Held
<1>9. ASSUME NEW y PROVE Held(D, y) <=> Held(C, y) /\ y # C[i][n]
  <2>1. ASSUME Held(D, y) PROVE Held(C, y) /\ y # C[i][n]
    <3>1. PICK j \in 1 .. Len(C) : \E m \in 1 .. Len(D[j]) : D[j][m] = y
      BY <1>3, <2>1 DEF Held
    <3>2. PICK m \in 1 .. Len(D[j]) : D[j][m] = y  BY <3>1
    <3>3. m \in 1 .. Len(C[j]) /\ C[j][m] = y /\ ~(j = i /\ m = n)  BY <1>4, <3>2
    <3>. QED  BY <1>7, <3>3 DEF Held, OneCopy
  <2>2. ASSUME Held(C, y), y # C[i][n] PROVE Held(D, y)
    <3>1. PICK j \in 1 .. Len(C) : \E m \in 1 .. Len(C[j]) : C[j][m] = y
      BY <2>2 DEF Held
    <3>2. PICK m \in 1 .. Len(C[j]) : C[j][m] = y  BY <3>1
    <3>3. m \in 1 .. Len(D[j]) /\ D[j][m] = y  BY <1>5, <2>2, <3>2
    <3>. QED  BY <1>3, <3>3 DEF Held
  <2>. QED  BY <2>1, <2>2
<1>. QED  BY <1>2, <1>6, <1>8, <1>9 DEF D, s

\* An empty block holds nothing.
LEMMA AddEmpty ==
    ASSUME NEW C \in Seq(Seq(Items)), OneCopy(C)
    PROVE  LET D == Append(C, <<>>)
           IN  OneCopy(D) /\ \A y : Held(D, y) <=> Held(C, y)
<1>. DEFINE D == Append(C, <<>>)
<1>1. /\ Len(C) \in Nat /\ Len(D) = Len(C) + 1 /\ Len(D[Len(D)]) = 0
      /\ \A i \in 1 .. Len(C) : D[i] = C[i]
  <2>1. <<>> \in Seq(Items) /\ Len(<<>>) = 0  BY EmptySeq
  <2>. QED  BY <2>1, AppendProperties, LenProperties
<1>. HIDE DEF D
<1>2. \A i \in 1 .. Len(D) : \A m \in 1 .. Len(D[i]) : i \in 1 .. Len(C) /\ D[i] = C[i]
  <2>. SUFFICES ASSUME NEW i \in 1 .. Len(D), NEW m \in 1 .. Len(D[i])
                PROVE  i \in 1 .. Len(C) /\ D[i] = C[i]
    OBVIOUS
  <2>1. i # Len(D)  BY <1>1
  <2>2. i \in 1 .. Len(C)  BY <1>1, <2>1
  <2>. QED  BY <1>1, <2>2
<1>3. OneCopy(D)
  <2>. SUFFICES ASSUME NEW j \in 1 .. Len(D), NEW k \in 1 .. Len(D),
                       NEW m \in 1 .. Len(D[j]), NEW n \in 1 .. Len(D[k]),
                       D[j][m] = D[k][n]
                PROVE  j = k /\ m = n
    BY DEF OneCopy
  <2>1. j \in 1 .. Len(C) /\ k \in 1 .. Len(C) /\ D[j] = C[j] /\ D[k] = C[k]  BY <1>2
  <2>. QED  BY <2>1 DEF OneCopy
<1>4. ASSUME NEW y PROVE Held(D, y) <=> Held(C, y)
  <2>1. ASSUME Held(D, y) PROVE Held(C, y)  BY <1>2, <2>1 DEF Held
  <2>2. ASSUME Held(C, y) PROVE Held(D, y)
    <3>1. \A i \in 1 .. Len(C) : i \in 1 .. Len(D)  BY <1>1
    <3>. QED  BY <1>1, <2>2, <3>1 DEF Held
  <2>. QED  BY <2>1, <2>2
<1>. QED  BY <1>3, <1>4 DEF D

-----------------------------------------------------------------------------
(***************************************************************************)
(* No item is lost, doubled or brought back, and the blocks behave as the  *)
(* stacks in memory of StacksAbs.                                          *)
(***************************************************************************)

(* The inductive invariant.                                                *)

\* a push that has not stored its item
Storing(t) ==
    op[t] = "push" /\ pc[t] \notin {"idle", "gate", "evict", "scan", "take", "unlist"}

\* such a push holds a new item, which no other push holds
PushInv ==
    /\ landed \subseteq born
    /\ \A t \in Threads : Storing(t) => arg[t] \in born /\ arg[t] \notin landed
    /\ \A t, u \in Threads : Storing(t) /\ Storing(u) /\ arg[t] = arg[u] => t = u

\* while no I/O call fails the blocks hold the items stored and not taken, each
\* in one place
ItemsInv ==
    faults = 0 =>
        /\ gone \subseteq landed
        /\ OneCopy(AbsContent)
        /\ \A x \in Items : Held(AbsContent, x) <=> x \in landed /\ x \notin gone

ConsInv == DiskInv /\ PushInv /\ ItemsInv

\* A step of a call stores no item but that of a push, which is then over; and
\* no call becomes a push that stores (push, stacks.rs:490-519).
LEMMA StepStores ==
    ASSUME IInv, NEW t \in Threads, Step(t)
    PROVE  /\ op' = op /\ arg' = arg /\ born' = born
           /\ \A u \in Threads \ {t} : pc'[u] = pc[u]
           /\ Storing(t)' => Storing(t)
           /\ \/ landed' = landed
              \/ Storing(t) /\ ~Storing(t)' /\ landed' = landed \union {arg[t]}
<1>0. pc \in [Threads -> Labels] /\ op \in [Threads -> AllOpKinds \union {"-"}]
  BY DEF IInv, TypeOK, CallsOK
<1>1. op' = op /\ arg' = arg /\ born' = born
  BY DEF Step, ReadTop, CellOf, Spill, Retreat, Peek, ListCells, ReadLock, ReadBody,
         WriteLock, Ensure, RegisterLoaded, Body, FlushBody, Gate, EvictStart, EvictScan,
         EvictEnd, EvictSkip, EvictTake, EvictUnlist, localVars, itemVars
<1>2. \A u \in Threads \ {t} : pc'[u] = pc[u]
  BY <1>0 DEF Step, ReadTop, CellOf, Spill, Retreat, Peek, ListCells, ReadLock, ReadBody,
         WriteLock, Ensure, RegisterLoaded, Body, FlushBody, Gate, EvictStart, EvictScan,
         EvictEnd, EvictSkip, EvictTake, EvictUnlist, Goto, Return, Finish, PushBody,
         PopBody, LookBody
<1>3. Storing(t)' => Storing(t)
  <2>1. CASE pc[t] \in {"gate", "evict", "scan", "take", "unlist"}
    <3>1. Gate(t) \/ EvictStart(t) \/ EvictScan(t) \/ EvictEnd(t) \/ EvictSkip(t)
          \/ EvictTake(t) \/ EvictUnlist(t)
      BY <2>1 DEF Step, ReadTop, CellOf, Spill, Retreat, Peek, ListCells, ReadLock,
             ReadBody, WriteLock, Ensure, RegisterLoaded, Body, FlushBody
    <3>2. \/ pc'[t] \in {"idle", "evict", "scan", "take", "unlist"}
          \/ op[t] = "len"
      BY <1>0, <3>1 DEF Gate, EvictStart, EvictScan, EvictEnd, EvictSkip, EvictTake,
                        EvictUnlist, Goto, Return, Finish
    <3>. QED  BY <1>1, <3>2 DEF Storing
  <2>2. CASE pc[t] = "idle"
    BY <2>2 DEF Step, ReadTop, CellOf, Spill, Retreat, Peek, ListCells, ReadLock, ReadBody,
           WriteLock, Ensure, RegisterLoaded, Body, FlushBody, Gate, EvictStart,
           EvictScan, EvictEnd, EvictSkip, EvictTake, EvictUnlist
  <2>3. CASE pc[t] \notin {"idle", "gate", "evict", "scan", "take", "unlist"}
    BY <1>1, <2>3 DEF Storing
  <2>. QED  BY <2>1, <2>2, <2>3
<1>4. \/ landed' = landed
      \/ Storing(t) /\ ~Storing(t)' /\ landed' = landed \union {arg[t]}
  <2>1. CASE Body(t)
    <3>1. CASE op[t] = "push" /\ PushBody(t) /\ Fits(stack[blk[t]], arg[t])
      <4>1. /\ pc[t] = "body" /\ op[t] = "push" /\ pc'[t] = "gate"
            /\ landed' = landed \union {arg[t]}
        BY <1>0, <2>1, <3>1 DEF Body, PushBody, Goto
      <4>. QED  BY <4>1 DEF Storing
    <3>2. CASE op[t] = "push" /\ PushBody(t) /\ ~Fits(stack[blk[t]], arg[t])
      BY <3>2 DEF PushBody
    <3>3. CASE PopBody(t) \/ LookBody(t)  BY <3>3 DEF PopBody, LookBody
    <3>. QED  BY <2>1, <3>1, <3>2, <3>3 DEF Body
  <2>2. CASE ~Body(t)
    BY <2>2 DEF Step, ReadTop, CellOf, Spill, Retreat, Peek, ListCells, ReadLock, ReadBody,
         WriteLock, Ensure, RegisterLoaded, FlushBody, Gate, EvictStart, EvictScan,
         EvictEnd, EvictSkip, EvictTake, EvictUnlist, itemVars
  <2>. QED  BY <2>1, <2>2
<1>. QED  BY <1>1, <1>2, <1>3, <1>4

\* A push begins with an item that no call has used.
LEMMA CallStores ==
    ASSUME IInv, PushInv, NEW t \in Threads, Call(t)
    PROVE  PushInv'
<1>0. pc \in [Threads -> Labels] /\ op \in [Threads -> AllOpKinds \union {"-"}]
      /\ arg \in [Threads -> Items \union {Nil}]
  BY DEF IInv, TypeOK, CallsOK
<1>1. \/ \E x \in Items \ born : Begin(t, "push", 0, x, "top") /\ born' = born \union {x}
      \/ /\ born' = born
         /\ \E k \in AllOpKinds \ {"push"} : \E b, x, l : Begin(t, k, b, x, l)
  BY DEF Call, CallPush, CallPop, CallRead, CallLease, CallFlush, CallLen, CallPeek,
         AllOpKinds
<1>2. ASSUME NEW k, NEW b, NEW x, NEW l, Begin(t, k, b, x, l)
      PROVE  /\ op'[t] = k /\ arg'[t] = x /\ landed' = landed
             /\ \A u \in Threads \ {t} :
                   pc'[u] = pc[u] /\ op'[u] = op[u] /\ arg'[u] = arg[u]
  BY <1>0, <1>2 DEF Begin
<1>3. CASE \E x \in Items \ born : Begin(t, "push", 0, x, "top") /\ born' = born \union {x}
  <2>1. PICK x \in Items \ born : Begin(t, "push", 0, x, "top") /\ born' = born \union {x}
    BY <1>3
  <2>2. /\ op'[t] = "push" /\ arg'[t] = x /\ landed' = landed
        /\ \A u \in Threads \ {t} : pc'[u] = pc[u] /\ op'[u] = op[u] /\ arg'[u] = arg[u]
    BY <1>2, <2>1
  <2>3. \A u \in Threads \ {t} : Storing(u)' => Storing(u) /\ arg'[u] # x
    BY <2>1, <2>2 DEF PushInv, Storing
  <2>. QED  BY <2>1, <2>2, <2>3 DEF PushInv
<1>4. CASE /\ born' = born
           /\ \E k \in AllOpKinds \ {"push"} : \E b, x, l : Begin(t, k, b, x, l)
  <2>1. /\ op'[t] # "push" /\ landed' = landed
        /\ \A u \in Threads \ {t} : pc'[u] = pc[u] /\ op'[u] = op[u] /\ arg'[u] = arg[u]
    BY <1>2, <1>4
  <2>2. ~Storing(t)' /\ \A u \in Threads \ {t} : Storing(u)' => Storing(u)
    BY <2>1 DEF Storing
  <2>. QED  BY <1>4, <2>1, <2>2 DEF PushInv
<1>. QED  BY <1>1, <1>3, <1>4

\* Every step keeps the items of the pushes new and apart.
LEMMA PushInductive ==
    ASSUME IInv, PushInv, [Next]_vars
    PROVE  PushInv'
<1>1. ASSUME NEW t \in Threads, Step(t) PROVE PushInv'
  <2>1. /\ op' = op /\ arg' = arg /\ born' = born
        /\ \A u \in Threads \ {t} : pc'[u] = pc[u]
        /\ Storing(t)' => Storing(t)
        /\ \/ landed' = landed
           \/ Storing(t) /\ ~Storing(t)' /\ landed' = landed \union {arg[t]}
    BY <1>1, StepStores
  <2>2. \A u \in Threads : Storing(u)' => Storing(u)  BY <2>1 DEF Storing
  <2>. QED  BY <2>1, <2>2 DEF PushInv
<1>2. ASSUME NEW t \in Threads, Call(t) PROVE PushInv'
  BY <1>2, CallStores
<1>3. CASE (\E t \in Threads : DropLease(t)) \/ Close \/ Reopen \/ UNCHANGED vars
  <2>1. UNCHANGED <<landed, born, op, arg, pc>>
    BY <1>3 DEF DropLease, Close, Reopen, vars, localVars, itemVars
  <2>. QED  BY <2>1 DEF PushInv, Storing
<1>. QED  BY <1>1, <1>2, <1>3 DEF Next, Done

\* The items of a file are those born and landed when it is opened
\* (the scan of the tests' model, tests/stacks.rs:51).
LEMMA InitItems == Init => ConsInv
<1>. SUFFICES ASSUME Init PROVE ConsInv  OBVIOUS
<1>1. DiskInv /\ faults = 0  BY InitDisk DEF Init
<1>2. PushInv  BY DEF Init, PushInv, Storing
<1>3. file \in Seq(Seq(Items)) /\ Len(file) = ncells /\ ncells \in Nat
  BY FilesAssumption, LenProperties DEF Init
<1>4. AbsContent = file
  <2>1. AbsContent = [i \in 1 .. ncells |-> Contents(i - 1)]  BY <1>1, ContentIs
  <2>2. \A i \in 1 .. ncells : Contents(i - 1) = file[i]
    <3>. SUFFICES ASSUME NEW i \in 1 .. ncells PROVE Contents(i - 1) = file[i]
      OBVIOUS
    <3>1. i - 1 \in 0 .. ncells - 1 /\ i - 1 + 1 = i  BY <1>3
    <3>2. i - 1 \in Blocks  BY <1>1, <3>1, ContentsType
    <3>3. stack[i - 1] = Nil  BY <3>2 DEF Init
    <3>. QED  BY <3>1, <3>3 DEF Contents
  <2>3. file = [i \in 1 .. ncells |-> file[i]]  BY <1>3, LenProperties
  <2>. QED  BY <2>1, <2>2, <2>3
<1>5. OneCopy(file)  BY OneCopyAssumption DEF Init, OneCopy
<1>6. \A x \in Items : Held(file, x) <=> x \in landed /\ x \notin gone
  <2>1. landed = UNION {ItemsIn(file[i]) : i \in 1 .. Len(file)} /\ gone = {}
    BY DEF Init
  <2>. QED  BY <2>1 DEF Held, ItemsIn
<1>7. gone \subseteq landed  BY DEF Init
<1>. QED  BY <1>1, <1>2, <1>4, <1>5, <1>6, <1>7 DEF ConsInv, ItemsInv

\* Blocks that stay the same hold what they held.
LEMMA SteadyItems ==
    ASSUME ConsInv, DiskInv', faults = 0, faults' = 0, SameBlocks, UNCHANGED <<landed, gone>>
    PROVE  ItemsInv'
<1>1. AbsContent' = AbsContent  BY SameContent DEF ConsInv
<1>2. /\ gone' \subseteq landed'
      /\ OneCopy(AbsContent')
      /\ \A x \in Items : Held(AbsContent', x) <=> x \in landed' /\ x \notin gone'
  BY <1>1 DEF ConsInv, ItemsInv
<1>. QED  BY <1>2 DEF ItemsInv, OneCopy, Held

\* A push puts its item in the one place where it is (stacks.rs:500-519).
LEMMA LandingItems ==
    ASSUME ConsInv, DiskInv', faults = 0, faults' = 0,
           NEW t \in Threads, NEW b \in 0 .. ncells - 1, Landing(t, b)
    PROVE  /\ ItemsInv' /\ arg[t] \in Items /\ arg[t] \notin gone
           /\ AbsContent' = [AbsContent EXCEPT ![b + 1] = Append(AbsContent[b + 1], arg[t])]
           /\ b + 1 \in 1 .. Len(AbsContent) /\ AbsContent[b + 1] = Contents(b)
<1>1. Storing(t)  BY DEF Landing, Storing
<1>2. arg[t] \in Items /\ arg[t] \notin landed /\ gone \subseteq landed
  BY <1>1 DEF ConsInv, PushInv, ItemsInv, DiskInv, IInv, TypeOK
<1>. DEFINE s == Append(Contents(b), arg[t])
            C == AbsContent
<1>3. C \in Seq(Seq(Items))  BY ContentIs DEF ConsInv
<1>4. /\ AbsContent' = [C EXCEPT ![b + 1] = s]
      /\ C[b + 1] = Contents(b) /\ b + 1 \in 1 .. Len(C)
  <2>1. Contents(b)' = s /\ OthersSame(b)  BY DEF Landing
  <2>. HIDE DEF s
  <2>. QED  BY <2>1, OneContent DEF ConsInv
<1>5. OneCopy(C) /\ ~Held(C, arg[t])
  BY <1>2 DEF ConsInv, ItemsInv
<1>6. AbsContent' = [C EXCEPT ![b + 1] = Append(C[b + 1], arg[t])]
  BY <1>4
<1>. HIDE DEF C
<1>7. /\ OneCopy(AbsContent')
      /\ \A y : Held(AbsContent', y) <=> Held(C, y) \/ y = arg[t]
  <2>. DEFINE D == [C EXCEPT ![b + 1] = Append(C[b + 1], arg[t])]
  <2>1. b + 1 \in 1 .. Len(C) /\ OneCopy(C) /\ ~Held(C, arg[t])  BY <1>4, <1>5 DEF C
  <2>2. OneCopy(D) /\ \A y : Held(D, y) <=> Held(C, y) \/ y = arg[t]
    BY <1>2, <1>3, <2>1, PutOne
  <2>3. AbsContent' = D  BY <1>6
  <2>. HIDE DEF D
  <2>. QED  BY <2>2, <2>3
<1>8. landed' = landed \union {arg[t]} /\ gone' = gone  BY DEF Landing
<1>9. \A x \in Items : Held(C, x) <=> x \in landed /\ x \notin gone
  BY DEF ConsInv, ItemsInv, C
<1>10. /\ gone' \subseteq landed'
       /\ OneCopy(AbsContent')
       /\ \A x \in Items : Held(AbsContent', x) <=> x \in landed' /\ x \notin gone'
  BY <1>2, <1>7, <1>8, <1>9
<1>11. ItemsInv'  BY <1>10 DEF ItemsInv, OneCopy, Held
<1>. QED  BY <1>2, <1>4, <1>6, <1>11 DEF C

\* A pop takes an item from the one place where it was (stacks.rs:535-548).
LEMMA TakingItems ==
    ASSUME ConsInv, DiskInv', faults = 0, faults' = 0,
           NEW t \in Threads, NEW b \in 0 .. ncells - 1, Taking(t, b)
    PROVE  LET n == Len(AbsContent[b + 1])
           IN  /\ ItemsInv' /\ n > 0 /\ b + 1 \in 1 .. Len(AbsContent)
               /\ AbsContent' = [AbsContent EXCEPT ![b + 1] = SubSeq(AbsContent[b + 1], 1, n - 1)]
               /\ gone' = gone \union {AbsContent[b + 1][n]}
<1>. DEFINE n == Len(Contents(b))
            s == SubSeq(Contents(b), 1, n - 1)
            C == AbsContent
<1>1. n > 0 /\ gone' = gone \union {Contents(b)[n]} /\ landed' = landed  BY DEF Taking
<1>2. C \in Seq(Seq(Items))  BY ContentIs DEF ConsInv
<1>3. /\ AbsContent' = [C EXCEPT ![b + 1] = s]
      /\ C[b + 1] = Contents(b) /\ b + 1 \in 1 .. Len(C)
  <2>1. Contents(b)' = s /\ OthersSame(b)  BY DEF Taking
  <2>. HIDE DEF s
  <2>. QED  BY <2>1, OneContent DEF ConsInv
<1>4. OneCopy(C)  BY DEF ConsInv, ItemsInv
<1>5. /\ n = Len(C[b + 1]) /\ AbsContent' = [C EXCEPT ![b + 1] = SubSeq(C[b + 1], 1, n - 1)]
      /\ gone' = gone \union {C[b + 1][n]}
  BY <1>1, <1>3
<1>. HIDE DEF C, n
<1>6. /\ OneCopy(AbsContent') /\ C[b + 1][n] \in Items /\ Held(C, C[b + 1][n])
      /\ \A y : Held(AbsContent', y) <=> Held(C, y) /\ y # C[b + 1][n]
  <2>. DEFINE k == Len(C[b + 1])
              D == [C EXCEPT ![b + 1] = SubSeq(C[b + 1], 1, k - 1)]
  <2>1. b + 1 \in 1 .. Len(C) /\ OneCopy(C) /\ k > 0  BY <1>1, <1>3, <1>4, <1>5 DEF C
  <2>2. /\ OneCopy(D) /\ C[b + 1][k] \in Items /\ Held(C, C[b + 1][k])
        /\ \A y : Held(D, y) <=> Held(C, y) /\ y # C[b + 1][k]
    BY <1>2, <2>1, TakeOne
  <2>3. AbsContent' = D /\ n = k  BY <1>5
  <2>. HIDE DEF D, k
  <2>. QED  BY <2>2, <2>3
<1>7. gone \subseteq landed
      /\ \A x \in Items : Held(C, x) <=> x \in landed /\ x \notin gone
  BY DEF ConsInv, ItemsInv, C
<1>8. /\ gone' \subseteq landed'
      /\ OneCopy(AbsContent')
      /\ \A x \in Items : Held(AbsContent', x) <=> x \in landed' /\ x \notin gone'
  BY <1>1, <1>5, <1>6, <1>7
<1>9. ItemsInv'  BY <1>8 DEF ItemsInv, OneCopy, Held
<1>. QED  BY <1>1, <1>3, <1>5, <1>9 DEF C

\* A new block holds nothing (append_block, stacks.rs:451-475).
LEMMA NewBlockItems ==
    ASSUME ConsInv, DiskInv', faults = 0, faults' = 0, NewBlock
    PROVE  ItemsInv'
<1>. DEFINE C == AbsContent
<1>1. AbsContent' = Append(C, <<>>) /\ C \in Seq(Seq(Items))
  BY NewContent, ContentIs DEF ConsInv
<1>2. OneCopy(C)  BY DEF ConsInv, ItemsInv
<1>. HIDE DEF C
<1>3. OneCopy(AbsContent') /\ \A y : Held(AbsContent', y) <=> Held(C, y)
  BY <1>1, <1>2, AddEmpty
<1>4. /\ gone' \subseteq landed'
      /\ OneCopy(AbsContent')
      /\ \A x \in Items : Held(AbsContent', x) <=> x \in landed' /\ x \notin gone'
  BY <1>3 DEF C, ConsInv, ItemsInv, NewBlock
<1>. QED  BY <1>4 DEF ItemsInv, OneCopy, Held

\* Every step keeps the items where they belong.
LEMMA NextItems == ConsInv /\ [Next]_vars => ConsInv'
<1>. SUFFICES ASSUME ConsInv, [Next]_vars PROVE ConsInv'  OBVIOUS
<1>1. DiskInv'  BY NextDisk DEF ConsInv
<1>2. PushInv'  BY PushInductive DEF ConsInv, DiskInv
<1>3. ItemsInv'
  <2>1. CASE faults' # 0  BY <2>1 DEF ItemsInv
  <2>2. CASE faults' = 0
    <3>1. /\ faults = 0
          /\ \/ Steady
             \/ Reloading
             \/ \E t \in Threads : Step(t) /\ Effect(t)
      BY <2>2, NextEffect DEF ConsInv
    <3>2. CASE Steady \/ Reloading
      BY <1>1, <2>2, <3>1, <3>2, SteadyItems DEF Steady, Reloading
    <3>3. ASSUME NEW t \in Threads, Effect(t) PROVE ItemsInv'
      <4>1. CASE Steady  BY <1>1, <2>2, <3>1, <4>1, SteadyItems DEF Steady
      <4>2. CASE NewBlock  BY <1>1, <2>2, <3>1, <4>2, NewBlockItems
      <4>3. CASE \E b \in 0 .. ncells - 1 : Landing(t, b)
        BY <1>1, <2>2, <3>1, <4>3, LandingItems
      <4>4. CASE \E b \in 0 .. ncells - 1 : Taking(t, b)
        BY <1>1, <2>2, <3>1, <4>4, TakingItems
      <4>5. CASE Retreating(t)
        BY <1>1, <2>2, <3>1, <4>5, SteadyItems DEF Retreating
      <4>. QED  BY <3>3, <4>1, <4>2, <4>3, <4>4, <4>5 DEF Effect
    <3>. QED  BY <3>1, <3>2, <3>3
  <2>. QED  BY <2>1, <2>2
<1>. QED  BY <1>1, <1>2, <1>3 DEF ConsInv

\* The inductive invariant behind Conservation holds of every behaviour: items
\* move between an unfinished push, one place of one block, and the callers
\* they were popped by (push, pop, stacks.rs:490-560).
THEOREM ItemsSafe == Spec => []ConsInv
BY InitItems, NextItems, PTL DEF Spec

\* The copies of an item are the places of the list that hold it.
LEMMA CopiesIs ==
    ASSUME DiskInv, faults = 0, NEW x, NEW b, NEW i
    PROVE  <<b, i>> \in Copies(x) <=>
              /\ b \in 0 .. ncells - 1 /\ b + 1 \in 1 .. Len(AbsContent)
              /\ i \in 1 .. Len(AbsContent[b + 1]) /\ AbsContent[b + 1][i] = x
<1>1. /\ AbsContent = [k \in 1 .. ncells |-> Contents(k - 1)]
      /\ Len(AbsContent) = ncells /\ ncells \in Nat /\ Len(file) = ncells
  BY ContentIs DEF DiskInv, FileFull
<1>2. <<b, i>> \in Copies(x) <=>
         \E c \in 0 .. ncells - 1 :
            \E j \in {k \in 1 .. Len(Contents(c)) : Contents(c)[k] = x} : <<b, i>> = <<c, j>>
  BY <1>1 DEF Copies
<1>3. ASSUME NEW c \in 0 .. ncells - 1
      PROVE  c + 1 \in 1 .. Len(AbsContent) /\ AbsContent[c + 1] = Contents(c)
  <2>1. c + 1 \in 1 .. ncells /\ c + 1 - 1 = c  BY <1>1
  <2>. QED  BY <1>1, <2>1
<1>4. ASSUME <<b, i>> \in Copies(x)
      PROVE  /\ b \in 0 .. ncells - 1 /\ b + 1 \in 1 .. Len(AbsContent)
             /\ i \in 1 .. Len(AbsContent[b + 1]) /\ AbsContent[b + 1][i] = x
  <2>1. PICK c \in 0 .. ncells - 1 :
          \E j \in {k \in 1 .. Len(Contents(c)) : Contents(c)[k] = x} : <<b, i>> = <<c, j>>
    BY <1>2, <1>4
  <2>2. b = c /\ i \in 1 .. Len(Contents(c)) /\ Contents(c)[i] = x  BY <2>1
  <2>. QED  BY <1>3, <2>2
<1>5. ASSUME b \in 0 .. ncells - 1,
             i \in 1 .. Len(AbsContent[b + 1]), AbsContent[b + 1][i] = x
      PROVE  <<b, i>> \in Copies(x)
  <2>1. i \in {k \in 1 .. Len(Contents(b)) : Contents(b)[k] = x}  BY <1>3, <1>5
  <2>. QED  BY <1>2, <1>5, <2>1
<1>. QED  BY <1>4, <1>5

\* every copy is a place of a block
LEMMA CopiesArePairs ==
    ASSUME NEW x, NEW p \in Copies(x)
    PROVE  \E b, i : p = <<b, i>>
BY DEF Copies

\* Conserved: while no I/O call fails, whatever the threads, the items, the
\* budget and the interleaving, an item that a push stored and no pop returned
\* is in exactly one place, and every other item is in none
\* (stacks.rs:500-548, 421-449; tests/stacks.rs:51, 244).
THEOREM Conserved == Spec => []Conservation
<1>1. ConsInv => Conservation
  <2>. SUFFICES ASSUME ConsInv, faults = 0, NEW x \in Items
                PROVE  Cardinality(Copies(x)) = IF x \in landed \ gone THEN 1 ELSE 0
    BY DEF Conservation
  <2>. DEFINE C == AbsContent
  <2>1. OneCopy(C) /\ (Held(C, x) <=> x \in landed /\ x \notin gone)
    BY DEF ConsInv, ItemsInv
  <2>2. Len(C) = ncells /\ ncells \in Nat /\ DiskInv  BY ContentIs DEF ConsInv
  <2>3. \A b, i : <<b, i>> \in Copies(x) <=>
              /\ b \in 0 .. ncells - 1 /\ b + 1 \in 1 .. Len(C)
              /\ i \in 1 .. Len(C[b + 1]) /\ C[b + 1][i] = x
    BY <2>2, CopiesIs
  <2>. HIDE DEF C
  <2>4. CASE Held(C, x)
    <3>1. PICK k \in 1 .. Len(C) : \E i \in 1 .. Len(C[k]) : C[k][i] = x
      BY <2>4 DEF Held
    <3>2. PICK i \in 1 .. Len(C[k]) : C[k][i] = x  BY <3>1
    <3>3. k - 1 \in 0 .. ncells - 1 /\ k - 1 + 1 = k  BY <2>2
    <3>4. <<k - 1, i>> \in Copies(x)  BY <2>3, <3>2, <3>3
    <3>5. ASSUME NEW p \in Copies(x) PROVE p = <<k - 1, i>>
      <4>1. PICK c, j : p = <<c, j>>  BY CopiesArePairs
      <4>2. /\ c \in 0 .. ncells - 1 /\ c + 1 \in 1 .. Len(C)
            /\ j \in 1 .. Len(C[c + 1]) /\ C[c + 1][j] = x
        BY <2>3, <4>1
      <4>3. c + 1 = k /\ j = i  BY <2>1, <3>2, <4>2 DEF OneCopy
      <4>4. c = k - 1  BY <2>2, <4>2, <4>3
      <4>. QED  BY <4>1, <4>3, <4>4
    <3>6. Copies(x) = {<<k - 1, i>>}  BY <3>4, <3>5
    <3>7. Cardinality(Copies(x)) = 1  BY <3>6, FS_Singleton
    <3>. QED  BY <2>1, <2>4, <3>7
  <2>5. CASE ~Held(C, x)
    <3>1. Copies(x) = {}
      <4>. SUFFICES ASSUME NEW p \in Copies(x) PROVE FALSE
        OBVIOUS
      <4>1. PICK c, j : p = <<c, j>>  BY CopiesArePairs
      <4>2. c + 1 \in 1 .. Len(C) /\ j \in 1 .. Len(C[c + 1]) /\ C[c + 1][j] = x
        BY <2>3, <4>1
      <4>. QED  BY <2>5, <4>2 DEF Held
    <3>2. Cardinality(Copies(x)) = 0  BY <3>1, FS_EmptySet
    <3>. QED  BY <2>1, <2>5, <3>2
  <2>. QED  BY <2>4, <2>5
<1>. QED  BY <1>1, ItemsSafe, PTL

-----------------------------------------------------------------------------
(* The refinement: with no I/O error the blocks are stacks in memory.      *)

\* A file just opened is a list of stacks with its last block as the target.
LEMMA InitRefines == Init => Abs!AbsInit
<1>. SUFFICES ASSUME Init PROVE Abs!AbsInit  OBVIOUS
<1>1. DiskInv /\ faults = 0 /\ gone = {} /\ top = LastBlock(file) /\ Len(file) = ncells
  BY InitDisk DEF Init
<1>2. AbsContent \in Seq(Seq(Items)) /\ Len(AbsContent) = ncells  BY <1>1, ContentIs
<1>3. AbsContent = <<>> <=> Len(AbsContent) = 0  BY <1>2, EmptySeq
<1>. QED  BY <1>1, <1>2, <1>3 DEF Abs!AbsInit, Abs!Newest, LastBlock

\* While no I/O call fails every step is a spill, a landing, a take, a retreat
\* or a reload of the stacks in memory, or changes nothing they can see.
LEMMA NextRefines ==
    ConsInv /\ ConsInv' /\ [Next]_vars /\ faults' = 0 => [Abs!AbsNext]_(Abs!absVars)
<1>. SUFFICES ASSUME ConsInv, ConsInv', [Next]_vars, faults' = 0
              PROVE  Abs!AbsNext \/ UNCHANGED <<AbsContent, top, gone>>
  BY DEF Abs!absVars
<1>1. /\ DiskInv /\ DiskInv' /\ faults = 0
      /\ \/ Steady
         \/ Reloading
         \/ \E t \in Threads : Step(t) /\ Effect(t)
  BY NextEffect DEF ConsInv
<1>2. CASE Steady
  <2>1. AbsContent' = AbsContent  BY <1>1, <1>2, SameContent DEF Steady
  <2>. QED  BY <1>2, <2>1 DEF Steady
<1>3. CASE Reloading
  <2>1. AbsContent' = AbsContent  BY <1>1, <1>3, SameContent DEF Reloading
  <2>2. AbsContent \in Seq(Seq(Items)) /\ Len(AbsContent) = ncells /\ Len(file) = ncells
    BY <1>1, ContentIs DEF DiskInv, FileFull
  <2>3. AbsContent = <<>> <=> Len(AbsContent) = 0  BY <2>2, EmptySeq
  <2>4. Abs!Reload
    BY <1>3, <2>1, <2>2, <2>3 DEF Abs!Reload, Abs!Newest, Reloading, LastBlock
  <2>. QED  BY <2>4 DEF Abs!AbsNext
<1>4. ASSUME NEW t \in Threads, Effect(t)
      PROVE  Abs!AbsNext \/ UNCHANGED <<AbsContent, top, gone>>
  <2>1. CASE Steady  BY <1>2, <2>1
  <2>2. CASE NewBlock
    <3>1. AbsContent' = Append(AbsContent, <<>>) /\ top' = Len(AbsContent) /\ gone' = gone
      BY <1>1, <2>2, NewContent DEF NewBlock
    <3>. QED  BY <3>1 DEF Abs!AbsNext, Abs!Spill
  <2>3. CASE \E b \in 0 .. ncells - 1 : Landing(t, b)
    <3>1. PICK b \in 0 .. ncells - 1 : Landing(t, b)  BY <2>3
    <3>2. /\ arg[t] \in Items \ gone
          /\ AbsContent' = [AbsContent EXCEPT ![b + 1] = Append(AbsContent[b + 1], arg[t])]
          /\ b + 1 \in 1 .. Len(AbsContent) /\ AbsContent[b + 1] = Contents(b)
      BY <1>1, <3>1, LandingItems
    <3>3. Fits(AbsContent[b + 1], arg[t]) /\ UNCHANGED <<top, gone>>
      BY <3>1, <3>2 DEF Landing
    <3>4. Abs!Land(b + 1, arg[t])  BY <3>2, <3>3 DEF Abs!Land
    <3>. QED  BY <3>2, <3>4 DEF Abs!AbsNext
  <2>4. CASE \E b \in 0 .. ncells - 1 : Taking(t, b)
    <3>1. PICK b \in 0 .. ncells - 1 : Taking(t, b)  BY <2>4
    <3>. DEFINE n == Len(AbsContent[b + 1])
    <3>2. /\ n > 0 /\ b + 1 \in 1 .. Len(AbsContent)
          /\ AbsContent' = [AbsContent EXCEPT ![b + 1] = SubSeq(AbsContent[b + 1], 1, n - 1)]
          /\ gone' = gone \union {AbsContent[b + 1][n]}
      BY <1>1, <3>1, TakingItems
    <3>3. top' = top  BY <3>1 DEF Taking
    <3>4. Abs!Take(b + 1)  BY <3>2, <3>3 DEF Abs!Take
    <3>. QED  BY <3>2, <3>4 DEF Abs!AbsNext
  <2>5. CASE Retreating(t)
    <3>1. AbsContent' = AbsContent  BY <1>1, <2>5, SameContent DEF Retreating
    <3>. QED  BY <2>5, <3>1 DEF Abs!AbsNext, Abs!Retreat, Retreating
  <2>. QED  BY <1>4, <2>1, <2>2, <2>3, <2>4, <2>5 DEF Effect
<1>. QED  BY <1>1, <1>2, <1>3, <1>4

\* BlocksImplemented: a behaviour in which no I/O call fails is, seen without
\* the cache, a behaviour of stacks in memory: eviction, reload, write-back,
\* close and reopen, and every interleaving of the critical sections are
\* invisible (stacks.rs:1-45).
THEOREM BlocksImplemented == Spec /\ [](faults = 0) => ImplementsBlocks
<1>1. Init => Abs!AbsInit  BY InitRefines
<1>2. ConsInv /\ ConsInv' /\ [Next]_vars /\ (faults = 0)' => [Abs!AbsNext]_(Abs!absVars)
  BY NextRefines
<1>. QED  BY <1>1, <1>2, ItemsSafe, PTL DEF Spec, ImplementsBlocks, Abs!AbsSpec

-----------------------------------------------------------------------------
(* What a step does to records and blocks.                                 *)

\* A record changes only to what its block holds: by the writes of flush, the
\* evictor and the last drop (stacks.rs:199-210, 421-430, 438-449).
LEMMA RecordsMove ==
    ASSUME DiskInv, [Next]_vars, faults' = 0
    PROVE  \A b \in 0 .. ncells - 1 :
              file'[b + 1] = file[b + 1] \/ file'[b + 1] = Contents(b)'
<1>0. /\ faults = 0 /\ Len(file) = ncells /\ ncells \in Nat /\ file \in Seq(Stackable)
      /\ stack \in [Blocks -> Stackable]
      /\ \A b \in 0 .. ncells - 1 : b \in Blocks /\ b + 1 \in 1 .. Len(file)
  BY NextEffect, ContentsType DEF DiskInv, FileFull, IInv, TypeOK, DiskOK, CellsOK
<1>1. ASSUME NEW t \in Threads, NEW v \in Blocks, dirty[v],
             file' = [file EXCEPT ![v + 1] = stack[v]],
             \/ stack' = stack
             \/ stack' = [stack EXCEPT ![v] = Nil]
      PROVE  \A b \in 0 .. ncells - 1 :
                file'[b + 1] = file[b + 1] \/ file'[b + 1] = Contents(b)'
  <2>. SUFFICES ASSUME NEW b \in 0 .. ncells - 1
                PROVE  file'[b + 1] = file[b + 1] \/ file'[b + 1] = Contents(b)'
    OBVIOUS
  <2>1. v \in Nat /\ v < ncells /\ stack[v] \in Stackable /\ stack[v] # Nil
    BY <1>0, <1>1 DEF Blocks, DiskInv, FileInv, CleanIsOnFile, NoStackPastTable
  <2>2. v + 1 \in 1 .. Len(file)  BY <1>0, <2>1
  <2>3. file'[v + 1] = stack[v] /\ \A i \in 1 .. Len(file) : i # v + 1 => file'[i] = file[i]
    BY <1>0, <1>1, <2>1, <2>2, ExceptSeq
  <2>4. CASE b = v
    <3>1. stack'[v] = stack[v] \/ stack'[v] = Nil  BY <1>0, <1>1
    <3>. QED  BY <2>1, <2>3, <2>4, <3>1 DEF Contents
  <2>5. CASE b # v
    <3>1. b + 1 # v + 1 /\ b + 1 \in 1 .. Len(file)  BY <1>0, <2>1, <2>5
    <3>. QED  BY <2>3, <3>1
  <2>. QED  BY <2>4, <2>5
<1>2. CASE \E t \in Threads : ReadTop(t) \/ Spill(t)
  <2>1. \/ AppendBlock /\ UNCHANGED <<landed, gone>>
        \/ AppendFails
        \/ file' = file
    BY <1>2 DEF ReadTop, Spill, diskVars, itemVars
  <2>. QED  BY <1>0, <2>1, AppendBlockEffect, AppendFailsEffect
<1>3. CASE \E t \in Threads : FlushBody(t)
  <2>1. PICK t \in Threads : FlushBody(t)  BY <1>3
  <2>2. blk[t] \in Blocks /\ stack' = stack
    BY <2>1, BlockOf DEF FlushBody, DiskInv
  <2>3. file' = file \/ (dirty[blk[t]] /\ file' = [file EXCEPT ![blk[t] + 1] = stack[blk[t]]])
    BY <2>1 DEF FlushBody, FlushSlot
  <2>. QED  BY <1>1, <2>2, <2>3
<1>4. CASE \E t \in Threads : EvictTake(t)
  <2>1. PICK t \in Threads : EvictTake(t)  BY <1>4
  <2>. DEFINE v == Candidate(t)
  <2>2. v \in Blocks
    BY <2>1, ElementOfSeq
       DEF EvictTake, Candidate, DiskInv, IInv, TypeOK, SharedOK, LockInv, HoldsLocks
  <2>3. /\ stack' = [stack EXCEPT ![v] = Nil]
        /\ file' = file \/ (dirty[v] /\ file' = [file EXCEPT ![v + 1] = stack[v]])
    BY <2>1 DEF EvictTake, diskVars
  <2>. HIDE DEF v
  <2>. QED  BY <1>1, <2>2, <2>3
<1>5. CASE Close
  <2>1. stack' = [b \in Blocks |-> Nil]  BY <1>5 DEF Close
  <2>. QED  BY <1>0, <2>1 DEF Contents
<1>6. CASE file' = file  BY <1>6
<1>7. \/ \E t \in Threads : ReadTop(t) \/ Spill(t)
      \/ \E t \in Threads : FlushBody(t)
      \/ \E t \in Threads : EvictTake(t)
      \/ Close \/ file' = file
  <2>1. ASSUME NEW t \in Threads, Step(t), ~ReadTop(t), ~Spill(t), ~FlushBody(t),
               ~EvictTake(t), ~Ensure(t)
        PROVE  file' = file
    BY <2>1 DEF Step, CellOf, Retreat, Peek, ListCells, ReadLock, ReadBody, WriteLock,
           RegisterLoaded, Body, Gate, EvictStart, EvictScan, EvictEnd, EvictSkip,
           EvictUnlist, diskVars
  <2>2. ASSUME NEW t \in Threads, Ensure(t) PROVE file' = file
    BY <2>2 DEF Ensure, diskVars
  <2>3. ASSUME NEW t \in Threads, Call(t) \/ DropLease(t) PROVE file' = file
    <3>1. CASE Call(t)
      <4>1. PICK k, b, x, l : Begin(t, k, b, x, l)
        BY <3>1 DEF Call, CallPush, CallPop, CallRead, CallLease, CallFlush, CallLen, CallPeek
      <4>. QED  BY <4>1 DEF Begin, diskVars
    <3>. QED  BY <2>3, <3>1 DEF DropLease, diskVars
  <2>4. Reopen \/ UNCHANGED vars => file' = file  BY DEF Reopen, vars, diskVars
  <2>. QED  BY <2>1, <2>2, <2>3, <2>4 DEF Next, Done
<1>. QED  BY <1>2, <1>3, <1>4, <1>5, <1>6, <1>7

\* An item that was stored before a step is in a block after it only if it was
\* in that block before: no item moves from block to block.
LEMMA ItemsStay ==
    ASSUME ConsInv, ConsInv', [Next]_vars, faults' = 0
    PROVE  /\ faults = 0 /\ landed \subseteq landed' /\ ncells \in Nat
           /\ ncells' \in Nat /\ ncells <= ncells'
           /\ \A b \in 0 .. ncells' - 1 : \A x \in landed :
                 x \in ItemsIn(Contents(b)') => b < ncells /\ x \in ItemsIn(Contents(b))
<1>0. /\ faults = 0 /\ ncells \in Nat /\ ncells' \in Nat
      /\ \A b \in 0 .. ncells - 1 : b \in Blocks /\ Contents(b) \in Seq(Items)
      /\ \A b \in 0 .. ncells' - 1 : b \in Blocks
  <2>1. faults = 0  BY NextEffect DEF ConsInv
  <2>2. ncells' \in 0 .. MaxBlocks  BY DEF ConsInv, DiskInv, IInv, TypeOK, SharedOK
  <2>3. \A n \in 0 .. MaxBlocks : n \in Nat /\ \A b \in 0 .. n - 1 : b \in Blocks
    BY BoundsAssumption DEF Blocks
  <2>. QED  BY <2>1, <2>2, <2>3, ContentsType DEF ConsInv
<1>. DEFINE Stay == \A b \in 0 .. ncells' - 1 : \A x \in landed :
                       x \in ItemsIn(Contents(b)') => b < ncells /\ x \in ItemsIn(Contents(b))
<1>1. CASE SameBlocks /\ landed' = landed
  BY <1>0, <1>1 DEF SameBlocks
<1>2. ASSUME NEW t \in Threads, Step(t), Effect(t)
      PROVE  landed \subseteq landed' /\ ncells <= ncells' /\ Stay
  <2>1. CASE Steady \/ Retreating(t)  BY <1>0, <2>1 DEF Steady, Retreating, SameBlocks
  <2>2. CASE NewBlock
    <3>1. ItemsIn(<<>>) = {}
      <4>1. Len(<<>>) = 0  BY EmptySeq
      <4>. QED  BY <4>1 DEF ItemsIn
    <3>2. \A b \in 0 .. ncells' - 1 : b = ncells \/ b \in 0 .. ncells - 1
      BY <1>0, <2>2 DEF NewBlock
    <3>3. Stay
      <4>. SUFFICES ASSUME NEW b \in 0 .. ncells' - 1, NEW x \in landed,
                           x \in ItemsIn(Contents(b)')
                    PROVE  b < ncells /\ x \in ItemsIn(Contents(b))
        OBVIOUS
      <4>1. b # ncells  BY <1>0, <2>2, <3>1 DEF NewBlock
      <4>2. b \in 0 .. ncells - 1  BY <3>2, <4>1
      <4>. QED  BY <1>0, <2>2, <4>2 DEF NewBlock
    <3>. QED  BY <1>0, <2>2, <3>3 DEF NewBlock
  <2>3. ASSUME NEW c \in 0 .. ncells - 1, Landing(t, c)
        PROVE  landed \subseteq landed' /\ ncells <= ncells' /\ Stay
    <3>1. /\ Contents(c)' = Append(Contents(c), arg[t]) /\ OthersSame(c)
          /\ landed' = landed \union {arg[t]} /\ arg[t] \notin landed /\ arg[t] \in Items
      <4>1. Storing(t)  BY <2>3 DEF Landing, Storing
      <4>. QED
        BY <2>3, <4>1 DEF Landing, ConsInv, PushInv, DiskInv, IInv, LockInv, OnTable
    <3>2. \A x \in landed : x \in ItemsIn(Contents(c)') => x \in ItemsIn(Contents(c))
      <4>1. \A s \in Seq(Items) : \A y \in Items :
               \A x \in ItemsIn(Append(s, y)) : x = y \/ x \in ItemsIn(s)
        <5>. SUFFICES ASSUME NEW s \in Seq(Items), NEW y \in Items,
                             NEW i \in 1 .. Len(Append(s, y))
                      PROVE  Append(s, y)[i] = y \/ Append(s, y)[i] \in ItemsIn(s)
          BY DEF ItemsIn
        <5>1. /\ Len(s) \in Nat /\ Len(Append(s, y)) = Len(s) + 1
              /\ Append(s, y)[Len(s) + 1] = y
              /\ \A k \in 1 .. Len(s) : Append(s, y)[k] = s[k]
          BY LenProperties, AppendProperties
        <5>2. i = Len(s) + 1 \/ i \in 1 .. Len(s)  BY <5>1
        <5>. QED  BY <5>1, <5>2 DEF ItemsIn
      <4>. QED  BY <1>0, <3>1, <4>1
    <3>3. ncells' = ncells /\ \A b \in 0 .. ncells - 1 : b # c => Contents(b)' = Contents(b)
      BY <3>1 DEF OthersSame
    <3>4. Stay
      <4>. SUFFICES ASSUME NEW b \in 0 .. ncells - 1, NEW x \in landed,
                           x \in ItemsIn(Contents(b)')
                    PROVE  b < ncells /\ x \in ItemsIn(Contents(b))
        BY <3>3
      <4>1. CASE b = c  BY <1>0, <3>2, <4>1
      <4>2. CASE b # c  BY <1>0, <3>3, <4>2
      <4>. QED  BY <4>1, <4>2
    <3>. QED  BY <1>0, <3>1, <3>3, <3>4
  <2>4. ASSUME NEW c \in 0 .. ncells - 1, Taking(t, c)
        PROVE  landed \subseteq landed' /\ ncells <= ncells' /\ Stay
    <3>1. /\ Contents(c)' = SubSeq(Contents(c), 1, Len(Contents(c)) - 1)
          /\ Len(Contents(c)) > 0 /\ OthersSame(c) /\ landed' = landed
      BY <2>4 DEF Taking
    <3>2. ItemsIn(Contents(c)') \subseteq ItemsIn(Contents(c))
      <4>1. \A s \in Seq(Items) : Len(s) > 0 =>
               ItemsIn(SubSeq(s, 1, Len(s) - 1)) \subseteq ItemsIn(s)
        <5>. SUFFICES ASSUME NEW s \in Seq(Items), Len(s) > 0,
                             NEW i \in 1 .. Len(SubSeq(s, 1, Len(s) - 1))
                      PROVE  SubSeq(s, 1, Len(s) - 1)[i] \in ItemsIn(s)
          BY DEF ItemsIn
        <5>1. /\ Len(s) \in Nat /\ Len(SubSeq(s, 1, Len(s) - 1)) = Len(s) - 1
              /\ \A k \in 1 .. Len(s) - 1 : SubSeq(s, 1, Len(s) - 1)[k] = s[k]
          BY LenProperties, FrontIs
        <5>2. i \in 1 .. Len(s) - 1 /\ i \in 1 .. Len(s)  BY <5>1
        <5>. QED  BY <5>1, <5>2 DEF ItemsIn
      <4>. QED  BY <1>0, <3>1, <4>1
    <3>3. ncells' = ncells /\ \A b \in 0 .. ncells - 1 : b # c => Contents(b)' = Contents(b)
      BY <3>1 DEF OthersSame
    <3>4. Stay
      <4>. SUFFICES ASSUME NEW b \in 0 .. ncells - 1, NEW x \in landed,
                           x \in ItemsIn(Contents(b)')
                    PROVE  b < ncells /\ x \in ItemsIn(Contents(b))
        BY <3>3
      <4>1. CASE b = c  BY <1>0, <3>2, <4>1
      <4>2. CASE b # c  BY <1>0, <3>3, <4>2
      <4>. QED  BY <4>1, <4>2
    <3>. QED  BY <1>0, <3>1, <3>3, <3>4
  <2>. QED  BY <1>2, <2>1, <2>2, <2>3, <2>4 DEF Effect
<1>3. \/ Steady \/ Reloading
      \/ \E t \in Threads : Step(t) /\ Effect(t)
  BY NextEffect DEF ConsInv
<1>. QED  BY <1>0, <1>1, <1>2, <1>3 DEF Steady, Reloading

-----------------------------------------------------------------------------
(* The invariant.                                                          *)

\* what the first k blocks hold of A is on file
Covered(A, k) ==
    \A b \in 0 .. k - 1 : \A x \in A :
        x \in ItemsIn(Contents(b)) => x \in ItemsIn(file[b + 1])

\* no block from l on holds any of A
Within(A, l) == \A b \in l .. ncells - 1 : \A x \in A : x \notin ItemsIn(Contents(b))

\* flush has written the blocks before its place, and every block it has to
\* write was in the table it listed
FlushOK(t) ==
    op[t] = "flush" =>
        /\ atFlush[t] \subseteq landed
        /\ pc[t] # "idle" => res[t] # "ok"
        /\ pc[t] \in {"wlock", "fbody"} =>
              Covered(atFlush[t], blk[t]) /\ Within(atFlush[t], lim[t])
        /\ pc[t] = "idle" /\ res[t] = "ok" =>
              Covered(atFlush[t], lim[t]) /\ Within(atFlush[t], lim[t])

HistInv ==
    /\ ConsInv /\ Shape
    /\ faults = 0 => \A t \in Threads : FlushOK(t)

\* What was written stays written: an item that is still in its block is still
\* in its record, and no block past the listed ones comes to hold it.
LEMMA CoverKeeps ==
    ASSUME ConsInv, ConsInv', [Next]_vars, faults' = 0, NEW A, A \subseteq landed
    PROVE  /\ \A k \in Int : k <= ncells /\ Covered(A, k) => Covered(A, k)'
           /\ \A l \in Nat : Within(A, l) => Within(A, l)'
<1>1. /\ ncells \in Nat /\ ncells' \in Nat /\ ncells <= ncells'
      /\ \A b \in 0 .. ncells' - 1 : \A x \in A :
            x \in ItemsIn(Contents(b)') => b < ncells /\ x \in ItemsIn(Contents(b))
  BY ItemsStay
<1>2. \A b \in 0 .. ncells - 1 :
         file'[b + 1] = file[b + 1] \/ file'[b + 1] = Contents(b)'
  BY RecordsMove DEF ConsInv
<1>0. \A m, n \in Nat : m <= n =>
         /\ \A k \in Int : k <= m =>
               \A b \in 0 .. k - 1 : b \in 0 .. m - 1 /\ b \in 0 .. n - 1
         /\ \A l \in Nat : \A b \in l .. n - 1 :
               b \in 0 .. n - 1 /\ (b < m => b \in l .. m - 1)
  OBVIOUS
<1>3. ASSUME NEW k \in Int, k <= ncells, Covered(A, k) PROVE Covered(A, k)'
  <2>. SUFFICES ASSUME NEW b \in 0 .. k - 1, NEW x \in A, x \in ItemsIn(Contents(b)')
                PROVE  x \in ItemsIn(file'[b + 1])
    BY DEF Covered
  <2>1. b \in 0 .. ncells - 1 /\ b \in 0 .. ncells' - 1  BY <1>0, <1>1, <1>3
  <2>2. x \in ItemsIn(file[b + 1])  BY <1>1, <1>3, <2>1 DEF Covered
  <2>. QED  BY <1>2, <2>1, <2>2
<1>4. ASSUME NEW l \in Nat, Within(A, l) PROVE Within(A, l)'
  <2>. SUFFICES ASSUME NEW b \in l .. ncells' - 1, NEW x \in A, x \in ItemsIn(Contents(b)')
                PROVE  FALSE
    BY DEF Within
  <2>1. b \in 0 .. ncells' - 1  BY <1>0, <1>1
  <2>2. b < ncells /\ x \in ItemsIn(Contents(b))  BY <1>1, <2>1
  <2>3. b \in l .. ncells - 1  BY <1>0, <1>1, <2>2
  <2>. QED  BY <1>4, <2>2, <2>3 DEF Within
<1>. QED  BY <1>3, <1>4

\* A write of flush leaves the block on file (flush_slot, stacks.rs:438-449).
LEMMA FlushWrites ==
    ASSUME DiskInv, NEW t \in Threads, FlushBody(t), faults' = 0
    PROVE  \A b \in 0 .. ncells - 1 : b = blk[t] => file'[b + 1] = Contents(b)'
<1>. SUFFICES ASSUME NEW b \in 0 .. ncells - 1, b = blk[t]
              PROVE  file'[b + 1] = Contents(b)'
  OBVIOUS
<1>1. /\ faults = 0 /\ b \in Blocks /\ b + 1 \in 1 .. Len(file) /\ stack' = stack
      /\ file \in Seq(Stackable) /\ stack[b] \in Stackable
      /\ IF stack[b] = Nil THEN ~dirty[b] ELSE dirty[b] \/ file[b + 1] = stack[b]
  <2>1. faults = 0  BY FlushBodyEffect
  <2>2. b \in Blocks /\ b + 1 \in 1 .. Len(file)  BY <2>1, ContentsType
  <2>. QED
    BY <2>1, <2>2 DEF DiskInv, FileInv, CleanIsOnFile, IInv, TypeOK, CellsOK, DiskOK, FlushBody
<1>2. CASE dirty[b]
  <2>1. file' = [file EXCEPT ![b + 1] = stack[b]]
    BY <1>1, <1>2 DEF FlushBody, FlushSlot, Fault
  <2>2. file'[b + 1] = stack[b]  BY <1>1, <2>1, ExceptSeq
  <2>. QED  BY <1>1, <1>2, <2>2 DEF Contents
<1>3. CASE ~dirty[b]
  <2>1. file' = file  BY <1>3 DEF FlushBody, FlushSlot
  <2>. QED  BY <1>1, <1>3, <2>1 DEF Contents
<1>. QED  BY <1>2, <1>3

\* A step moves the locals of its own call only.
LEMMA OthersStay ==
    ASSUME IInv, NEW t \in Threads, Step(t)
    PROVE  \A u \in Threads \ {t} :
              blk'[u] = blk[u] /\ lim'[u] = lim[u] /\ res'[u] = res[u]
<1>0. /\ blk \in [Threads -> Blocks \union {-1}] /\ lim \in [Threads -> 0 .. MaxBlocks]
      /\ res \in [Threads -> Results]
  BY DEF IInv, TypeOK, CallsOK
<1>. QED
  BY <1>0 DEF Step, ReadTop, CellOf, Spill, Retreat, Peek, ListCells, ReadLock, ReadBody,
     WriteLock, Ensure, RegisterLoaded, Body, FlushBody, Gate, EvictStart, EvictScan,
     EvictEnd, EvictSkip, EvictTake, EvictUnlist, Goto, Return, Finish, PushBody,
     PopBody, LookBody, localVars

\* What a flush found stored when it was called has been stored by some push.
LEMMA StoredLanded ==
    ASSUME ConsInv, faults = 0
    PROVE  StoredItems \subseteq landed
<1>1. /\ AbsContent = [i \in 1 .. ncells |-> Contents(i - 1)] /\ ncells \in Nat
      /\ Len(AbsContent) = ncells
      /\ \A b \in 0 .. ncells - 1 : Contents(b) \in Seq(Items)
  BY ContentIs, ContentsType DEF ConsInv
<1>. SUFFICES ASSUME NEW b \in 0 .. ncells - 1, NEW m \in 1 .. Len(Contents(b))
              PROVE  Contents(b)[m] \in landed
  BY DEF StoredItems, ItemsIn
<1>2. Contents(b)[m] \in Items  BY <1>1, ElementOfSeq
<1>3. b + 1 \in 1 .. ncells /\ AbsContent[b + 1] = Contents(b)
  <2>1. b + 1 \in 1 .. ncells /\ b + 1 - 1 = b  BY <1>1
  <2>. QED  BY <1>1, <2>1
<1>4. Held(AbsContent, Contents(b)[m])  BY <1>1, <1>3 DEF Held
<1>. QED  BY <1>2, <1>4 DEF ConsInv, ItemsInv

-----------------------------------------------------------------------------
(* The theorem.                                                            *)

\* A step of the flush itself: it lists the blocks, locks one, or writes one
\* (flush, stacks.rs:661-672).
LEMMA FlushStep ==
    ASSUME HistInv, ConsInv', [Next]_vars, faults' = 0, faults = 0,
           NEW t \in Threads, Step(t), atFlush'[t] = atFlush[t], FlushOK(t),
           op[t] = "flush"
    PROVE  FlushOK(t)'
<1>. DEFINE A == atFlush[t]
<1>0. /\ ConsInv /\ Shape /\ A \subseteq landed /\ landed \subseteq landed'
      /\ pc \in [Threads -> Labels] /\ res \in [Threads -> Results]
      /\ blk \in [Threads -> Blocks \union {-1}] /\ lim[t] \in Nat /\ lim[t] <= ncells
      /\ lim \in [Threads -> 0 .. MaxBlocks] /\ ncells \in Nat
  <2>1. ConsInv /\ Shape /\ IInv  BY DEF HistInv, ConsInv, DiskInv
  <2>2. landed \subseteq landed' /\ ncells \in Nat  BY <2>1, ItemsStay
  <2>3. lim \in [Threads -> 0 .. MaxBlocks] /\ lim[t] <= ncells
    BY <2>1 DEF IInv, TypeOK, CallsOK, LockInv, OnTable
  <2>4. lim[t] \in Nat  BY <2>3, BoundsAssumption
  <2>. QED  BY <2>1, <2>2, <2>3, <2>4 DEF FlushOK, IInv, TypeOK, CallsOK
<1>1. /\ \A B, k : B = A /\ k \in Int /\ k <= ncells /\ Covered(B, k) => Covered(B, k)'
      /\ \A B, l : B = A /\ l \in Nat /\ Within(B, l) => Within(B, l)'
  BY <1>0, CoverKeeps
<1>2. ListCells(t) \/ WriteLock(t) \/ FlushBody(t)
  BY <1>0 DEF Step, ReadTop, CellOf, Spill, Retreat, Peek, ReadLock, ReadBody, Ensure,
     RegisterLoaded, Body, Gate, EvictStart, EvictScan, EvictEnd, EvictSkip, EvictTake,
     EvictUnlist, Shape, InCall, Enforcing
<1>3. CASE ListCells(t)
  <2>1. /\ lim'[t] = ncells /\ blk'[t] = 0 /\ pc'[t] \in {"wlock", "idle"}
        /\ ncells' = ncells /\ (pc'[t] = "wlock" => res'[t] = res[t])
        /\ (pc'[t] = "idle" => ncells = 0) /\ pc[t] = "cells"
    BY <1>0, <1>3 DEF ListCells, Goto, Return, sharedVars, ConsInv, DiskInv, IInv, LockInv,
                      OnTable
  <2>2. \A B, k : k = 0 => Covered(B, k)'  BY DEF Covered
  <2>3. \A B, l : l = ncells => Within(B, l)'
    <3>1. ncells .. ncells' - 1 = {}  BY <1>0, <2>1
    <3>. QED  BY <3>1 DEF Within
  <2>. QED  BY <1>0, <2>1, <2>2, <2>3 DEF FlushOK, Covered, Within
<1>4. CASE WriteLock(t)
  <2>1. /\ UNCHANGED <<blk, lim, res>> /\ pc[t] = "wlock" /\ pc'[t] = "fbody"
    BY <1>0, <1>4 DEF WriteLock, Goto, localVars
  <2>2. blk[t] \in Int /\ blk[t] <= ncells
    BY <1>0, <2>1 DEF ConsInv, DiskInv, IInv, LockInv, OnTable
  <2>3. Covered(A, blk[t]) /\ Within(A, lim[t])  BY <2>1 DEF FlushOK
  <2>4. \A B, k, l : B = A /\ k = blk[t] /\ l = lim[t] => Covered(B, k)' /\ Within(B, l)'
    BY <1>0, <1>1, <2>2, <2>3
  <2>. QED  BY <1>0, <2>1, <2>4 DEF FlushOK, Covered, Within
<1>5. CASE FlushBody(t)
  <2>. DEFINE b == blk[t]
  <2>1. /\ lim' = lim /\ pc[t] = "fbody"
        /\ \/ pc'[t] = "wlock" /\ blk'[t] = b + 1 /\ res' = res
           \/ pc'[t] = "idle" /\ ~(b + 1 < lim[t])
    BY <1>0, <1>5 DEF FlushBody, Goto, Return
  <2>2. b \in 0 .. ncells - 1
    BY <1>0, <2>1 DEF ConsInv, DiskInv, IInv, LockInv, OnTable
  <2>3. Covered(A, b) /\ Within(A, lim[t])  BY <2>1 DEF FlushOK
  <2>4. \A B, k, l : B = A /\ k = b /\ l = lim[t] => Covered(B, k)' /\ Within(B, l)'
    BY <1>0, <1>1, <2>2, <2>3
  <2>5. \A c \in 0 .. ncells - 1 : c = b => file'[c + 1] = Contents(c)'
    BY <1>0, <1>5, FlushWrites DEF ConsInv
  <2>6. \A B, k : B = A /\ k \in Int /\ k <= b + 1 => Covered(B, k)'
    <3>. SUFFICES ASSUME NEW k \in Int, k <= b + 1, NEW c \in 0 .. k - 1, NEW x \in A,
                         x \in ItemsIn(Contents(c)')
                  PROVE  x \in ItemsIn(file'[c + 1])
      BY DEF Covered
    <3>1. c \in 0 .. b - 1 \/ c = b  BY <1>0, <2>2
    <3>2. CASE c = b  BY <2>2, <2>5, <3>2
    <3>3. CASE c \in 0 .. b - 1
      <4>1. \A B, n : B = A /\ n = b => Covered(B, n)'  BY <2>4
      <4>. QED  BY <3>3, <4>1 DEF Covered
    <3>. QED  BY <3>1, <3>2, <3>3
  <2>7. CASE pc'[t] = "wlock"
    <3>1. \A B, k : B = A /\ k = b + 1 => Covered(B, k)'  BY <2>2, <2>6
    <3>. QED  BY <1>0, <2>1, <2>4, <2>7, <3>1 DEF FlushOK, Covered, Within
  <2>8. CASE pc'[t] = "idle"
    <3>1. \A B, k : B = A /\ k = lim[t] => Covered(B, k)'  BY <1>0, <2>1, <2>2, <2>6, <2>8
    <3>. QED  BY <1>0, <2>1, <2>4, <2>8, <3>1 DEF FlushOK, Covered, Within
  <2>. QED  BY <2>1, <2>7, <2>8
<1>. QED  BY <1>2, <1>3, <1>4, <1>5

\* A call that is not stepping keeps what its flush has covered.
LEMMA FlushRests ==
    ASSUME HistInv, ConsInv', [Next]_vars, faults' = 0, faults = 0,
           NEW u \in Threads, FlushOK(u), atFlush'[u] = atFlush[u],
           pc'[u] = pc[u], op'[u] = op[u], res'[u] = res[u], blk'[u] = blk[u],
           lim'[u] = lim[u]
    PROVE  FlushOK(u)'
<1>. SUFFICES ASSUME op[u] = "flush" PROVE FlushOK(u)'  BY DEF FlushOK
<1>. DEFINE A == atFlush[u]
<1>0. /\ ConsInv /\ A \subseteq landed /\ landed \subseteq landed' /\ ncells \in Nat
      /\ lim[u] \in Nat /\ lim[u] <= ncells
      /\ pc[u] \in {"wlock", "fbody"} => blk[u] \in 0 .. ncells - 1
  <2>1. ConsInv /\ IInv  BY DEF HistInv, ConsInv, DiskInv
  <2>2. landed \subseteq landed' /\ ncells \in Nat  BY <2>1, ItemsStay
  <2>3. lim \in [Threads -> 0 .. MaxBlocks] /\ lim[u] <= ncells
    BY <2>1 DEF IInv, TypeOK, CallsOK, LockInv, OnTable
  <2>4. lim[u] \in Nat  BY <2>3, BoundsAssumption
  <2>. QED  BY <2>1, <2>2, <2>3, <2>4 DEF FlushOK, IInv, LockInv, OnTable
<1>1. /\ \A B, k : B = A /\ k \in Int /\ k <= ncells /\ Covered(B, k) => Covered(B, k)'
      /\ \A B, l : B = A /\ l \in Nat /\ Within(B, l) => Within(B, l)'
  BY <1>0, CoverKeeps
<1>2. CASE pc[u] \in {"wlock", "fbody"}
  <2>1. Covered(A, blk[u]) /\ Within(A, lim[u])  BY <1>2 DEF FlushOK
  <2>2. \A B, k, l : B = A /\ k = blk[u] /\ l = lim[u] => Covered(B, k)' /\ Within(B, l)'
    BY <1>0, <1>1, <1>2, <2>1
  <2>. QED  BY <1>0, <1>2, <2>2 DEF FlushOK, Covered, Within
<1>3. CASE pc[u] = "idle" /\ res[u] = "ok"
  <2>1. Covered(A, lim[u]) /\ Within(A, lim[u])  BY <1>3 DEF FlushOK
  <2>2. \A B, l : B = A /\ l = lim[u] => Covered(B, l)' /\ Within(B, l)'
    BY <1>0, <1>1, <2>1
  <2>. QED  BY <1>0, <1>3, <2>2 DEF FlushOK, Covered, Within
<1>4. CASE pc[u] \notin {"wlock", "fbody"} /\ ~(pc[u] = "idle" /\ res[u] = "ok")
  BY <1>0, <1>4 DEF FlushOK
<1>. QED  BY <1>2, <1>3, <1>4

\* Every step keeps the history's invariant.
LEMMA NextHist == HistInv /\ [HistNext]_<<vars, histVars>> => HistInv'
<1>. SUFFICES ASSUME HistInv, [HistNext]_<<vars, histVars>> PROVE HistInv'  OBVIOUS
<1>0. ConsInv /\ Shape /\ IInv /\ [Next]_vars
  BY DEF HistInv, ConsInv, DiskInv, HistNext
<1>1. ConsInv' /\ Shape'  BY <1>0, NextItems, ShapeInductive
<1>. SUFFICES ASSUME faults' = 0, NEW t \in Threads PROVE FlushOK(t)'
  BY <1>1 DEF HistInv
<1>2. /\ faults = 0 /\ FlushOK(t)
      /\ pc \in [Threads -> Labels] /\ op \in [Threads -> AllOpKinds \union {"-"}]
      /\ lim \in [Threads -> 0 .. MaxBlocks] /\ blk \in [Threads -> Blocks \union {-1}]
      /\ res \in [Threads -> Results]
  BY <1>0, FaultsGrow DEF HistInv, IInv, TypeOK, CallsOK
<1>3. CASE UNCHANGED <<vars, histVars>>
  <2>1. UNCHANGED <<atFlush, pc, op, res, blk, lim>>
    BY <1>3 DEF vars, histVars, localVars
  <2>. QED  BY <1>0, <1>1, <1>2, <2>1, FlushRests
<1>4. CASE HistNext
  <2>1. Next /\ Record  BY <1>4 DEF HistNext
  <2>2. /\ op'[t] = "flush" /\ ~Begins(t, "flush") => atFlush'[t] = atFlush[t]
        /\ Begins(t, "flush") => atFlush'[t] = StoredItems
    BY <2>1 DEF Record
  <2>3. ASSUME NEW u \in Threads, Step(u) PROVE FlushOK(t)'
    <3>1. op' = op /\ pc[u] # "idle" /\ \A v \in Threads \ {u} : pc'[v] = pc[v]
      <4>1. op' = op /\ \A v \in Threads \ {u} : pc'[v] = pc[v]  BY <1>0, <2>3, StepShape
      <4>2. pc[u] # "idle"
        BY <2>3 DEF Step, ReadTop, CellOf, Spill, Retreat, Peek, ListCells, ReadLock,
           ReadBody, WriteLock, Ensure, RegisterLoaded, Body, FlushBody, Gate, EvictStart,
           EvictScan, EvictEnd, EvictSkip, EvictTake, EvictUnlist
      <4>. QED  BY <4>1, <4>2
    <3>2. ~Begins(t, "flush")  BY <3>1 DEF Begins
    <3>3. CASE op[t] # "flush"  BY <3>1, <3>3 DEF FlushOK
    <3>4. CASE op[t] = "flush" /\ t = u
      BY <1>0, <1>1, <1>2, <2>2, <2>3, <3>1, <3>2, <3>4, FlushStep
    <3>5. CASE op[t] = "flush" /\ t # u
      <4>1. blk'[t] = blk[t] /\ lim'[t] = lim[t] /\ res'[t] = res[t]
        BY <1>0, <2>3, <3>5, OthersStay
      <4>. QED  BY <1>0, <1>1, <1>2, <2>2, <3>1, <3>2, <3>5, <4>1, FlushRests
    <3>. QED  BY <3>3, <3>4, <3>5
  <2>4. ASSUME NEW u \in Threads, Call(u) PROVE FlushOK(t)'
    <3>1. PICK k, b, x, l : /\ Begin(u, k, b, x, l) /\ pc[u] = "idle"
                            /\ l \in {"top", "rtouch", "cells", "peek"}
                            /\ k = "flush" => l = "cells"
      BY <2>4 DEF Call, CallPush, CallPop, CallRead, CallLease, CallFlush, CallLen, CallPeek,
                  CanCall
    <3>2. CASE t = u
      <4>1. pc'[t] = l /\ op'[t] = k /\ res'[t] = "-" /\ landed' = landed
        BY <1>2, <3>1, <3>2 DEF Begin
      <4>2. CASE k = "flush"
        <5>1. Begins(t, "flush")  BY <3>1, <3>2, <4>1, <4>2 DEF Begins
        <5>2. atFlush'[t] \subseteq landed  BY <1>0, <1>2, <2>2, <5>1, StoredLanded
        <5>. QED  BY <3>1, <4>1, <4>2, <5>2 DEF FlushOK
      <4>3. CASE k # "flush"  BY <4>1, <4>3 DEF FlushOK
      <4>. QED  BY <4>2, <4>3
    <3>3. CASE t # u
      <4>1. /\ pc'[t] = pc[t] /\ op'[t] = op[t] /\ res'[t] = res[t] /\ blk'[t] = blk[t]
            /\ lim'[t] = lim[t]
        BY <1>2, <3>1, <3>3 DEF Begin
      <4>2. CASE op[t] = "flush"
        <5>1. atFlush'[t] = atFlush[t]  BY <2>2, <4>1, <4>2 DEF Begins
        <5>. QED  BY <1>0, <1>1, <1>2, <4>1, <5>1, FlushRests
      <4>3. CASE op[t] # "flush"  BY <4>1, <4>3 DEF FlushOK
      <4>. QED  BY <4>2, <4>3
    <3>. QED  BY <3>2, <3>3
  <2>5. CASE (\E u \in Threads : DropLease(u)) \/ Close \/ Reopen \/ Done
    <3>1. UNCHANGED <<pc, op, res, blk, lim>>
      BY <2>5 DEF DropLease, Close, Reopen, Done, vars, localVars
    <3>2. CASE op[t] = "flush"
      <4>1. atFlush'[t] = atFlush[t]  BY <2>2, <3>1, <3>2 DEF Begins
      <4>. QED  BY <1>0, <1>1, <1>2, <3>1, <4>1, FlushRests
    <3>3. CASE op[t] # "flush"  BY <3>1, <3>3 DEF FlushOK
    <3>. QED  BY <3>2, <3>3
  <2>. QED  BY <2>1, <2>3, <2>4, <2>5 DEF Next
<1>. QED  BY <1>3, <1>4

\* FlushTheorem: for any number of threads and blocks, when flush answers Ok
\* and no I/O call failed, every item that was stored when it was called is on
\* file or has been popped (flush, stacks.rs:661-672).
THEOREM FlushTheorem == HistSpec => []FlushCovers
<1>1. HistInit => HistInv
  <2>. SUFFICES ASSUME HistInit PROVE HistInv  OBVIOUS
  <2>1. ConsInv /\ Shape  BY InitItems, InitShape DEF HistInit
  <2>. QED  BY <2>1 DEF HistInit, Init, HistInv, FlushOK
<1>2. HistInv => FlushCovers
  <2>. SUFFICES ASSUME HistInv, NEW t \in Threads, op[t] = "flush", res[t] = "ok", faults = 0,
                       NEW x \in atFlush[t], x \notin gone
                PROVE  \E i \in 1 .. Len(file) : x \in ItemsIn(file[i])
    BY DEF FlushCovers
  <2>1. /\ ConsInv /\ x \in landed /\ Covered(atFlush[t], lim[t])
        /\ Within(atFlush[t], lim[t]) /\ lim \in [Threads -> 0 .. MaxBlocks]
    BY DEF HistInv, FlushOK, ConsInv, DiskInv, IInv, TypeOK, CallsOK
  <2>2. /\ AbsContent = [i \in 1 .. ncells |-> Contents(i - 1)] /\ ncells \in Nat
        /\ Len(AbsContent) = ncells /\ Len(file) = ncells
    BY <2>1, ContentIs DEF ConsInv, DiskInv, FileFull
  <2>3. Held(AbsContent, x)
    BY <2>1 DEF ConsInv, ItemsInv, DiskInv, IInv, TypeOK
  <2>4. PICK i \in 1 .. ncells : x \in ItemsIn(Contents(i - 1))
    <3>1. PICK i \in 1 .. ncells : \E m \in 1 .. Len(AbsContent[i]) : AbsContent[i][m] = x
      BY <2>2, <2>3 DEF Held
    <3>2. AbsContent[i] = Contents(i - 1)  BY <2>2
    <3>. QED  BY <3>1, <3>2 DEF ItemsIn
  <2>5. i - 1 \in 0 .. lim[t] - 1 /\ i - 1 + 1 = i
    <3>1. lim[t] \in Nat  BY <2>1, BoundsAssumption
    <3>2. i - 1 \in lim[t] .. ncells - 1 \/ i - 1 \in 0 .. lim[t] - 1  BY <2>2, <3>1
    <3>3. i - 1 \notin lim[t] .. ncells - 1  BY <2>1, <2>4 DEF Within
    <3>. QED  BY <2>2, <3>2, <3>3
  <2>6. x \in ItemsIn(file[i])  BY <2>1, <2>4, <2>5 DEF Covered
  <2>. QED  BY <2>2, <2>6
<1>. QED  BY <1>1, <1>2, NextHist, PTL DEF HistSpec

-----------------------------------------------------------------------------
(* Counting the items of a list of stacks.                                 *)

\* the items of the first k stacks
UpTo(C, k) == UNION {ItemsIn(C[i]) : i \in 1 .. k}

\* A stack in which no item is twice has as many items as it is long.
LEMMA ItemsInCount ==
    ASSUME NEW s \in Seq(Items), \A m, n \in 1 .. Len(s) : s[m] = s[n] => m = n
    PROVE  IsFiniteSet(ItemsIn(s)) /\ Cardinality(ItemsIn(s)) = Len(s)
<1>. DEFINE n == Len(s)
            I == 1 .. n
            T == ItemsIn(s)
<1>1. n \in Nat /\ s \in [I -> Items]  BY LenProperties
<1>2. T = {s[m] : m \in I} /\ \A m, k \in I : s[m] = s[k] => m = k  BY DEF ItemsIn
<1>3. IsFiniteSet(I) /\ Cardinality(I) = n
  <2>1. IsFiniteSet(I) /\ Cardinality(I) = IF 1 > n THEN 0 ELSE n - 1 + 1
    <3>. HIDE DEF n
    <3>. QED  BY <1>1, FS_Interval
  <2>. HIDE DEF I
  <2>. QED  BY <1>1, <2>1
<1>. HIDE DEF I, T, n
<1>4. s \in Bijection(I, T)
  <2>1. s \in [I -> T]  BY <1>1, <1>2
  <2>2. s \in Injection(I, T)  BY <1>2, <2>1 DEF Injection, IsInjective
  <2>3. s \in Surjection(I, T)  BY <1>2, <2>1 DEF Surjection
  <2>. QED  BY <2>2, <2>3 DEF Bijection
<1>5. ExistsBijection(I, T)  BY <1>4 DEF ExistsBijection
<1>6. IsFiniteSet(T) /\ Cardinality(T) = Cardinality(I)  BY <1>3, <1>5, FS_Bijection
<1>. QED  BY <1>3, <1>6 DEF T, n

\* The first k stacks hold finitely many items.
LEMMA UpToFinite ==
    ASSUME NEW C \in Seq(Seq(Items)), OneCopy(C), NEW k \in 0 .. Len(C)
    PROVE  IsFiniteSet(UpTo(C, k))
<1>. DEFINE I == 1 .. k
            f == [i \in I |-> ItemsIn(C[i])]
            T == {ItemsIn(C[i]) : i \in I}
<1>1. \A i \in I : i \in 1 .. Len(C) /\ IsFiniteSet(ItemsIn(C[i]))
  <2>. SUFFICES ASSUME NEW i \in I PROVE i \in 1 .. Len(C) /\ IsFiniteSet(ItemsIn(C[i]))
    OBVIOUS
  <2>1. Len(C) \in Nat  BY LenProperties
  <2>2. i \in 1 .. Len(C)  BY <2>1
  <2>3. C[i] \in Seq(Items)  BY <2>2, ElementOfSeq
  <2>4. \A m, n \in 1 .. Len(C[i]) : C[i][m] = C[i][n] => m = n  BY <2>2 DEF OneCopy
  <2>. QED  BY <2>2, <2>3, <2>4, ItemsInCount
<1>2. IsFiniteSet(I)
  <2>1. Len(C) \in Nat  BY LenProperties
  <2>2. k \in Int  BY <2>1
  <2>. QED  BY <2>2, FS_Interval
<1>3. f \in Surjection(I, T)
  <2>. HIDE DEF I
  <2>. QED  BY DEF Surjection
<1>4. IsFiniteSet(T)  BY <1>2, <1>3, FS_Surjection
<1>5. \A S \in T : IsFiniteSet(S)  BY <1>1
<1>. QED  BY <1>4, <1>5, FS_UNION DEF UpTo

\* One more stack adds its length to the count.
LEMMA CountNext ==
    ASSUME NEW C \in Seq(Seq(Items)), OneCopy(C), NEW i \in 1 .. Len(C)
    PROVE  Cardinality(UpTo(C, i)) = Cardinality(UpTo(C, i - 1)) + Len(C[i])
<1>. DEFINE U == UpTo(C, i - 1)
            V == ItemsIn(C[i])
<1>0. Len(C) \in Nat /\ i - 1 \in 0 .. Len(C) /\ C[i] \in Seq(Items)
  BY LenProperties, ElementOfSeq
<1>1. IsFiniteSet(U)  BY <1>0, UpToFinite
<1>2. IsFiniteSet(V) /\ Cardinality(V) = Len(C[i])
  <2>1. \A m, n \in 1 .. Len(C[i]) : C[i][m] = C[i][n] => m = n  BY DEF OneCopy
  <2>. QED  BY <1>0, <2>1, ItemsInCount
<1>3. UpTo(C, i) = U \cup V
  <2>1. \A j : j \in 1 .. i <=> j \in 1 .. i - 1 \/ j = i  BY <1>0
  <2>. QED  BY <2>1 DEF UpTo
<1>4. U \cap V = {}
  <2>. SUFFICES ASSUME NEW x, x \in U, x \in V PROVE FALSE  OBVIOUS
  <2>1. PICK j \in 1 .. i - 1 : x \in ItemsIn(C[j])  BY DEF UpTo
  <2>2. PICK m \in 1 .. Len(C[j]) : C[j][m] = x  BY <2>1 DEF ItemsIn
  <2>3. PICK n \in 1 .. Len(C[i]) : C[i][n] = x  BY DEF ItemsIn
  <2>4. j \in 1 .. Len(C) /\ j # i  BY <1>0, <2>1
  <2>. QED  BY <2>2, <2>3, <2>4 DEF OneCopy
<1>. HIDE DEF U, V
<1>5. Cardinality(U \cup V) = Cardinality(U) + Cardinality(V) - Cardinality(U \cap V)
  BY <1>1, <1>2, FS_Union
<1>6. Cardinality(U \cap V) = 0 /\ Cardinality(U) \in Nat /\ Cardinality(V) \in Nat
  BY <1>1, <1>2, <1>4, FS_EmptySet, FS_CardinalityType
<1>7. Cardinality(U \cup V) = Cardinality(U) + Cardinality(V)  BY <1>5, <1>6
<1>. QED  BY <1>2, <1>3, <1>7 DEF U, V

\* The items of all the stacks are those that the list holds.
LEMMA UpToAll ==
    ASSUME NEW C \in Seq(Seq(Items)), NEW x
    PROVE  x \in UpTo(C, Len(C)) <=> Held(C, x)
<1>1. x \in UpTo(C, Len(C)) <=> \E i \in 1 .. Len(C) : x \in ItemsIn(C[i])  BY DEF UpTo
<1>2. \A i : x \in ItemsIn(C[i]) <=> \E m \in 1 .. Len(C[i]) : C[i][m] = x  BY DEF ItemsIn
<1>. QED  BY <1>1, <1>2 DEF Held

-----------------------------------------------------------------------------
(* The invariant.                                                          *)

OneCaller == \A t, u \in Threads : t = u

AtTop(t) ==
    /\ op[t] \in {"push", "pop"}
       /\ pc[t] \in {"touch", "wlock", "ensure", "register", "body", "spill", "retreat"} =>
          blk[t] = top
    /\ pc[t] = "retreat" => Contents(blk[t]) = <<>>

Count(k) == Cardinality(UpTo(AbsContent, k))

\* how far len has come
Counting(t) ==
    op[t] = "len" =>
        /\ pc[t] = "peek" => blk[t] = -1 /\ acc[t] = 0
        /\ pc[t] \in {"touch", "wlock", "ensure", "register", "body"} =>
              lim[t] = ncells /\ blk[t] \in 0 .. ncells - 1 /\ acc[t] = Count(blk[t])
        /\ pc[t] \in Enforcing =>
              lim[t] = ncells /\ blk[t] \in -1 .. ncells - 1 /\ acc[t] = Count(blk[t] + 1)
        /\ pc[t] = "idle" /\ res[t] = "ok" => acc[t] = Cardinality(landed \ gone)

\* the blocks above the target are empty, whether the file is open or not
TopIsLast == \A b \in top + 1 .. ncells - 1 : Contents(b) = <<>>

SoloInv ==
    /\ OneCaller /\ ConsInv /\ Shape
    /\ open \/ \A t \in Threads : pc[t] = "idle"
    /\ faults = 0 => /\ TopIsLast /\ NoneMeansEmpty
                     /\ \A t \in Threads : AtTop(t) /\ Counting(t)

\* The items stored are those of all the blocks.
LEMMA CountAll ==
    ASSUME ConsInv, faults = 0
    PROVE  Count(ncells) = Cardinality(landed \ gone) /\ Count(0) = 0
<1>1. AbsContent \in Seq(Seq(Items)) /\ Len(AbsContent) = ncells  BY ContentIs DEF ConsInv
<1>2. \A x \in Items : Held(AbsContent, x) <=> x \in landed /\ x \notin gone
  BY DEF ConsInv, ItemsInv
<1>3. UpTo(AbsContent, ncells) \subseteq Items
  <2>. SUFFICES ASSUME NEW i \in 1 .. ncells, NEW m \in 1 .. Len(AbsContent[i])
                PROVE  AbsContent[i][m] \in Items
    BY DEF UpTo, ItemsIn
  <2>1. AbsContent[i] \in Seq(Items)  BY <1>1, ElementOfSeq
  <2>. QED  BY <2>1, ElementOfSeq
<1>4. landed \subseteq Items  BY DEF ConsInv, DiskInv, IInv, TypeOK
<1>5. UpTo(AbsContent, ncells) = landed \ gone
  <2>1. \A x : x \in UpTo(AbsContent, ncells) <=> Held(AbsContent, x)  BY <1>1, UpToAll
  <2>. QED  BY <1>2, <1>3, <1>4, <2>1
<1>6. UpTo(AbsContent, 0) = {}  BY DEF UpTo
<1>. QED  BY <1>5, <1>6, FS_EmptySet DEF Count

\* A block adds its length to the count of those before it.
LEMMA CountBlock ==
    ASSUME ConsInv, faults = 0, NEW b \in 0 .. ncells - 1
    PROVE  Count(b + 1) = Count(b) + Len(Contents(b))
<1>1. /\ AbsContent = [i \in 1 .. ncells |-> Contents(i - 1)] /\ ncells \in Nat
      /\ Len(AbsContent) = ncells /\ AbsContent \in Seq(Seq(Items))
  BY ContentIs DEF ConsInv
<1>2. b + 1 \in 1 .. ncells /\ b + 1 - 1 = b  BY <1>1
<1>3. AbsContent[b + 1] = Contents(b)  BY <1>1, <1>2
<1>4. OneCopy(AbsContent)  BY DEF ConsInv, ItemsInv
<1>5. \A i \in 1 .. Len(AbsContent) :
         Cardinality(UpTo(AbsContent, i)) =
            Cardinality(UpTo(AbsContent, i - 1)) + Len(AbsContent[i])
  BY <1>1, <1>4, CountNext
<1>. QED  BY <1>1, <1>2, <1>3, <1>5 DEF Count

\* If every block is empty nothing is stored.
LEMMA AllEmpty ==
    ASSUME ConsInv, faults = 0, \A b \in 0 .. ncells - 1 : Contents(b) = <<>>
    PROVE  landed = gone
<1>1. /\ AbsContent = [i \in 1 .. ncells |-> Contents(i - 1)]
      /\ Len(AbsContent) = ncells /\ ncells \in Nat
  BY ContentIs DEF ConsInv
<1>2. \A i \in 1 .. ncells : AbsContent[i] = <<>>
  <2>. SUFFICES ASSUME NEW i \in 1 .. ncells PROVE AbsContent[i] = <<>>
    OBVIOUS
  <2>1. i - 1 \in 0 .. ncells - 1  BY <1>1
  <2>. QED  BY <1>1, <2>1
<1>3. \A x : ~Held(AbsContent, x)
  <2>1. Len(<<>>) = 0  BY EmptySeq
  <2>. QED  BY <1>1, <1>2, <2>1 DEF Held
<1>. QED  BY <1>3 DEF ConsInv, ItemsInv, DiskInv, IInv, TypeOK

-----------------------------------------------------------------------------
(* The target.                                                             *)

\* The blocks above the target stay empty: the only caller pushes and pops at
\* the target (stacks.rs:490-560).
LEMMA SoloTop ==
    ASSUME ConsInv, faults = 0, TopIsLast, NEW t \in Threads, AtTop(t), Effect(t)
    PROVE  TopIsLast'
<1>0. ncells \in Nat /\ top \in Nat
  BY BoundsAssumption DEF ConsInv, DiskInv, IInv, TypeOK, SharedOK, Blocks
<1>1. CASE Steady  BY <1>0, <1>1 DEF Steady, SameBlocks, TopIsLast
<1>2. CASE NewBlock
  <2>1. ncells' - 1 < top' + 1  BY <1>0, <1>2 DEF NewBlock
  <2>. QED  BY <1>0, <1>2, <2>1 DEF TopIsLast, NewBlock
<1>3. CASE \E b \in 0 .. ncells - 1 : Landing(t, b) \/ Taking(t, b)
  <2>1. PICK b \in 0 .. ncells - 1 : Landing(t, b) \/ Taking(t, b)  BY <1>3
  <2>2. b = top /\ OthersSame(b) /\ top' = top  BY <2>1 DEF Landing, Taking, AtTop
  <2>. QED  BY <1>0, <2>2 DEF OthersSame, TopIsLast
<1>4. CASE Retreating(t)
  <2>1. /\ Contents(top) = <<>> /\ top' = top - 1 /\ ncells' = ncells
        /\ \A b \in 0 .. ncells - 1 : Contents(b)' = Contents(b)
    BY <1>4 DEF Retreating, AtTop, SameBlocks
  <2>2. \A b \in top .. ncells - 1 : Contents(b) = <<>>  BY <1>0, <2>1 DEF TopIsLast
  <2>3. \A b \in top .. ncells - 1 : b \in 0 .. ncells - 1  BY <1>0
  <2>4. \A b \in top' + 1 .. ncells' - 1 : b \in top .. ncells - 1  BY <1>0, <2>1
  <2>. QED  BY <2>1, <2>2, <2>3, <2>4 DEF TopIsLast
<1>. QED  BY <1>1, <1>2, <1>3, <1>4 DEF Effect

\* A push or pop stays at the target it read, for nobody else moves it
\* (stacks.rs:490-498, 526-534).
LEMMA SoloAtTop ==
    ASSUME ConsInv, Shape, NEW t \in Threads, Step(t), faults' = 0, AtTop(t)
    PROVE  AtTop(t)'
<1>0. /\ pc \in [Threads -> Labels] /\ blk \in [Threads -> Blocks \union {-1}]
      /\ InCall(t) /\ op' = op
  BY StepShape DEF ConsInv, DiskInv, IInv, TypeOK, CallsOK, Shape
<1>1. CASE ReadTop(t)
  <2>1. pc'[t] \in {"touch", "idle"} /\ (pc'[t] = "touch" => blk'[t] = top')
    BY <1>0, <1>1 DEF ReadTop, Goto, Return
  <2>. QED  BY <2>1 DEF AtTop
<1>2. CASE Body(t)
  <2>. DEFINE b == blk[t]
  <2>1. /\ blk' = blk /\ top' = top /\ pc[t] = "body"
    BY <1>2 DEF Body, sharedVars
  <2>2. pc'[t] \in {"gate", "idle", "spill", "retreat"}
    BY <1>0, <1>2 DEF Body, PushBody, PopBody, LookBody, Goto, Return
  <2>3. pc'[t] = "retreat" =>
          op[t] = "pop" /\ Len(stack[b]) = 0 /\ UNCHANGED <<stack, file>>
    BY <1>0, <1>2 DEF Body, PushBody, PopBody, LookBody, Goto, Return, diskVars
  <2>4. stack[b] \in Seq(Items)
    <3>1. b \in Blocks /\ stack[b] # Nil
      BY <1>2, BlockOf DEF Body, ConsInv, DiskInv, IInv, LockInv, HoldsLocks
    <3>. QED  BY <3>1 DEF ConsInv, DiskInv, IInv, TypeOK, CellsOK, Stackable
  <2>5. Len(stack[b]) = 0 => stack[b] = <<>> /\ Contents(b) = <<>>
    BY <2>4, EmptySeq, ItemsAssumption DEF Contents
  <2>. HIDE DEF b
  <2>6. pc'[t] = "retreat" => Contents(blk[t])' = <<>>
    <3>. SUFFICES ASSUME pc'[t] = "retreat" PROVE Contents(blk[t])' = <<>>  OBVIOUS
    <3>1. UNCHANGED <<stack, file, blk>> /\ Contents(b) = <<>>  BY <2>1, <2>3, <2>5
    <3>. QED  BY <3>1 DEF Contents, b
  <2>. QED  BY <1>0, <2>1, <2>2, <2>6 DEF AtTop, b
<1>3. CASE \/ CellOf(t) \/ Spill(t) \/ Retreat(t) \/ Peek(t) \/ ListCells(t) \/ FlushBody(t)
           \/ ReadLock(t) \/ ReadBody(t) \/ WriteLock(t) \/ Ensure(t) \/ RegisterLoaded(t)
  <2>1. pc'[t] # "retreat"
    BY <1>0, <1>3 DEF CellOf, Spill, Retreat, Peek, ListCells, FlushBody, ReadLock,
           ReadBody, WriteLock, Ensure, RegisterLoaded, Goto, Return
  <2>2. CASE Spill(t) \/ Retreat(t)
    <3>1. pc'[t] \in {"top", "idle"}  BY <1>0, <2>2 DEF Spill, Retreat, Goto, Return
    <3>. QED  BY <3>1 DEF AtTop
  <2>3. CASE ReadBody(t) \/ ReadLock(t) \/ ListCells(t) \/ FlushBody(t) \/ Peek(t)
    <3>1. op[t] \notin {"push", "pop"}
      BY <1>0, <2>3 DEF InCall, ReadBody, ReadLock, ListCells, FlushBody, Peek,
                        ConsInv, DiskInv, IInv, LockInv
    <3>. QED  BY <1>0, <2>1, <3>1 DEF AtTop
  <2>4. CASE CellOf(t) \/ WriteLock(t) \/ Ensure(t) \/ RegisterLoaded(t)
    <3>1. UNCHANGED <<blk, top>>
      BY <2>4 DEF CellOf, WriteLock, Ensure, RegisterLoaded, localVars, sharedVars
    <3>2. pc[t] \in {"rtouch", "touch", "wlock", "ensure", "register"}
      BY <2>4 DEF CellOf, WriteLock, Ensure, RegisterLoaded
    <3>3. CASE pc[t] = "rtouch"  BY <1>0, <2>1, <3>3 DEF AtTop, InCall
    <3>. QED  BY <1>0, <2>1, <3>1, <3>2, <3>3 DEF AtTop
  <2>. QED  BY <1>3, <2>2, <2>3, <2>4
<1>4. CASE Gate(t) \/ EvictStart(t) \/ EvictScan(t) \/ EvictEnd(t) \/ EvictSkip(t)
           \/ EvictTake(t) \/ EvictUnlist(t)
  <2>1. pc'[t] \in Enforcing \union {"idle"} \/ (pc'[t] = "touch" /\ op[t] = "len")
    BY <1>0, <1>4 DEF Gate, EvictStart, EvictScan, EvictEnd, EvictSkip, EvictTake,
                      EvictUnlist, Goto, Return, Finish, Enforcing
  <2>. QED  BY <1>0, <2>1 DEF AtTop, Enforcing
<1>. QED  BY <1>1, <1>2, <1>3, <1>4 DEF Step

\* A pop that answers None found every block empty (stacks.rs:530, 556).
LEMMA SoloNone ==
    ASSUME ConsInv, faults = 0, TopIsLast, NEW t \in Threads, AtTop(t), Step(t),
           pc'[t] = "idle", res'[t] = "none"
    PROVE  landed' = gone'
<1>0. /\ pc \in [Threads -> Labels] /\ res \in [Threads -> Results]
      /\ ncells \in Nat /\ top \in Nat
  BY BoundsAssumption
     DEF ConsInv, DiskInv, IInv, TypeOK, CallsOK, SharedOK, Blocks
<1>1. \/ ReadTop(t) /\ ncells = 0
      \/ Retreat(t) /\ top = blk[t] /\ top = 0 /\ pc[t] = "retreat"
  <2>1. ReadTop(t) \/ Retreat(t)
    BY <1>0 DEF Step, CellOf, Spill, Peek, ListCells, ReadLock, ReadBody, WriteLock, Ensure,
           RegisterLoaded, Body, PushBody, PopBody, LookBody, FlushBody, Gate, EvictStart,
           EvictScan, EvictEnd, EvictSkip, EvictTake, EvictUnlist, Goto, Return, Finish
  <2>2. CASE ReadTop(t)  BY <1>0, <2>2 DEF ReadTop, Goto, Return
  <2>3. CASE Retreat(t)  BY <1>0, <2>3 DEF Retreat, Goto, Return
  <2>. QED  BY <2>1, <2>2, <2>3
<1>2. UNCHANGED <<landed, gone>>  BY <1>1 DEF ReadTop, Retreat, itemVars
<1>3. \A b \in 0 .. ncells - 1 : Contents(b) = <<>>
  <2>1. CASE ncells = 0  BY <2>1
  <2>2. CASE top = 0 /\ Contents(top) = <<>>
    <3>1. \A b \in 0 .. ncells - 1 : b = 0 \/ b \in top + 1 .. ncells - 1  BY <1>0, <2>2
    <3>. QED  BY <2>2, <3>1 DEF TopIsLast
  <2>. QED  BY <1>1, <2>1, <2>2 DEF AtTop
<1>. QED  BY <1>2, <1>3, AllEmpty

-----------------------------------------------------------------------------
(* The count of len.                                                       *)

\* A call of len leaves every block alone.
LEMMA LenIsSteady ==
    ASSUME Shape, NEW t \in Threads, op[t] = "len", Effect(t)
    PROVE  Steady
BY DEF Effect, Landing, Taking, Retreating, Shape, InCall

\* The next block of len is counted, or all of them are (stacks.rs:571-599).
LEMMA FinishCounts ==
    ASSUME ConsInv, faults = 0, NEW t \in Threads, op[t] = "len", pc[t] \in Enforcing,
           Counting(t), Finish(t), UNCHANGED <<op, lim, acc>>,
           Steady, AbsContent' = AbsContent
    PROVE  Counting(t)'
<1>1. /\ pc \in [Threads -> Labels] /\ res \in [Threads -> Results]
      /\ blk \in [Threads -> Blocks \union {-1}]
  BY DEF ConsInv, DiskInv, IInv, TypeOK, CallsOK
<1>2. /\ lim[t] = ncells /\ blk[t] \in -1 .. ncells - 1 /\ acc[t] = Count(blk[t] + 1)
      /\ ncells \in Nat /\ UNCHANGED <<ncells, landed, gone>>
  BY ContentIs DEF Counting, ConsInv, Steady, SameBlocks
<1>3. CASE blk[t] + 1 < lim[t]
  <2>1. pc'[t] = "touch" /\ blk'[t] = blk[t] + 1  BY <1>1, <1>3 DEF Finish, Goto
  <2>2. blk'[t] \in 0 .. ncells - 1 /\ acc[t] = Count(blk[t] + 1)  BY <1>2, <1>3, <2>1
  <2>3. acc'[t] = Cardinality(UpTo(AbsContent', blk'[t]))  BY <2>1, <2>2 DEF Count
  <2>. QED  BY <1>2, <2>1, <2>2, <2>3 DEF Counting, Count, Enforcing
<1>4. CASE ~(blk[t] + 1 < lim[t])
  <2>1. pc'[t] = "idle"  BY <1>1, <1>4 DEF Finish, Return
  <2>2. blk[t] + 1 = ncells  BY <1>2, <1>4
  <2>3. acc[t] = Cardinality(landed \ gone)  BY <1>2, <2>2, CountAll
  <2>. QED  BY <1>2, <2>1, <2>3 DEF Counting, Enforcing
<1>. QED  BY <1>3, <1>4

\* Every step of len keeps its count that of the blocks it has been through
\* (stacks.rs:562-599).
LEMMA SoloCounts ==
    ASSUME ConsInv, ConsInv', Shape, faults = 0, faults' = 0,
           NEW t \in Threads, Step(t), Effect(t), Counting(t)
    PROVE  Counting(t)'
<1>0. op' = op  BY StepShape DEF ConsInv, DiskInv
<1>. SUFFICES ASSUME op[t] = "len" PROVE Counting(t)'
  BY <1>0 DEF Counting
<1>1. Steady /\ AbsContent' = AbsContent
  BY LenIsSteady, SameContent DEF ConsInv, Steady
<1>2. /\ pc \in [Threads -> Labels] /\ res \in [Threads -> Results]
      /\ blk \in [Threads -> Blocks \union {-1}] /\ lim \in [Threads -> 0 .. MaxBlocks]
      /\ acc \in [Threads -> Int] /\ ncells \in Nat /\ UNCHANGED <<ncells, landed, gone>>
  BY <1>1, ContentIs
     DEF ConsInv, DiskInv, IInv, TypeOK, CallsOK, Steady, SameBlocks
<1>3. \A k : Cardinality(UpTo(AbsContent', k)) = Count(k)  BY <1>1 DEF Count
<1>4. CASE Peek(t)
  <2>1. /\ lim'[t] = ncells /\ pc'[t] = "gate" /\ blk'[t] = -1 /\ acc'[t] = 0
    BY <1>2, <1>4 DEF Peek, Goto, Counting
  <2>2. -1 + 1 = 0 /\ -1 \in -1 .. ncells - 1  BY <1>2
  <2>3. acc'[t] = Cardinality(UpTo(AbsContent', blk'[t] + 1))
    BY <1>3, <2>1, <2>2, CountAll
  <2>. QED  BY <1>2, <2>1, <2>2, <2>3 DEF Counting, Count
<1>5. CASE CellOf(t) \/ WriteLock(t) \/ Ensure(t) \/ RegisterLoaded(t)
  <2>1. UNCHANGED <<blk, acc, lim>>
    BY <1>5 DEF CellOf, WriteLock, Ensure, RegisterLoaded, localVars
  <2>2. pc[t] \in {"touch", "wlock", "ensure", "register"}
    BY <1>5 DEF CellOf, WriteLock, Ensure, RegisterLoaded, Shape, InCall
  <2>3. /\ lim[t] = ncells /\ blk[t] \in 0 .. ncells - 1 /\ acc[t] = Count(blk[t])
    BY <2>2 DEF Counting
  <2>4. \/ pc'[t] \in {"wlock", "ensure", "register", "body"}
        \/ pc'[t] = "idle" /\ res'[t] # "ok"
    BY <1>2, <1>5, <2>2 DEF CellOf, WriteLock, Ensure, RegisterLoaded, Goto, Return
  <2>5. acc'[t] = Cardinality(UpTo(AbsContent', blk'[t]))  BY <1>3, <2>1, <2>3
  <2>. QED  BY <1>2, <2>1, <2>3, <2>4, <2>5 DEF Counting, Count, Enforcing
<1>6. CASE Body(t)
  <2>. DEFINE b == blk[t]
  <2>1. /\ pc[t] = "body" /\ UNCHANGED <<blk, lim>> /\ LookBody(t)
    BY <1>6 DEF Body
  <2>2. pc'[t] = "gate" /\ acc'[t] = acc[t] + Len(stack[b])
    BY <1>2, <2>1 DEF LookBody, Goto
  <2>3. lim[t] = ncells /\ b \in 0 .. ncells - 1 /\ acc[t] = Count(b)
    BY <2>1 DEF Counting
  <2>4. \A c \in 0 .. ncells - 1 : Count(c + 1) = Count(c) + Len(Contents(c))
    BY CountBlock
  <2>5. Contents(b) = stack[b]
    BY <2>1 DEF Contents, ConsInv, DiskInv, IInv, LockInv, HoldsLocks
  <2>7. acc'[t] = Count(b + 1)  BY <2>2, <2>3, <2>4, <2>5
  <2>8. acc'[t] = Cardinality(UpTo(AbsContent', blk'[t] + 1))  BY <1>3, <2>1, <2>7
  <2>9. b \in -1 .. ncells - 1  BY <1>2, <2>3
  <2>. QED  BY <1>2, <2>1, <2>2, <2>3, <2>8, <2>9 DEF Counting, Count
<1>7. CASE Gate(t) \/ EvictStart(t) \/ EvictScan(t) \/ EvictEnd(t) \/ EvictSkip(t)
           \/ EvictTake(t) \/ EvictUnlist(t)
  <2>1. pc[t] \in Enforcing /\ UNCHANGED <<op, lim, acc>>
    BY <1>7 DEF Gate, EvictStart, EvictScan, EvictEnd, EvictSkip, EvictTake, EvictUnlist,
                Enforcing, localVars
  <2>2. CASE Finish(t)  BY <1>1, <2>1, <2>2, FinishCounts
  <2>3. CASE pc'[t] \in Enforcing /\ blk' = blk
    <3>1. lim[t] = ncells /\ blk[t] \in -1 .. ncells - 1 /\ acc[t] = Count(blk[t] + 1)
      BY <2>1 DEF Counting
    <3>2. acc'[t] = Cardinality(UpTo(AbsContent', blk'[t] + 1))  BY <1>3, <2>1, <2>3, <3>1
    <3>. QED  BY <1>2, <2>1, <2>3, <3>1, <3>2 DEF Counting, Count, Enforcing
  <2>. QED
    BY <1>2, <1>7, <2>2, <2>3 DEF Gate, EvictStart, EvictScan, EvictEnd, EvictSkip,
       EvictTake, EvictUnlist, Goto, Enforcing, localVars
<1>8. CASE \/ ReadTop(t) \/ Spill(t) \/ Retreat(t) \/ ListCells(t) \/ ReadLock(t)
           \/ ReadBody(t) \/ FlushBody(t)
  BY <1>8 DEF ReadTop, Spill, Retreat, ListCells, ReadLock, ReadBody, FlushBody, Shape,
              InCall
<1>. QED  BY <1>4, <1>5, <1>6, <1>7, <1>8 DEF Step

-----------------------------------------------------------------------------
(* The theorems.                                                           *)

\* With a file just opened the last block is the target and no call runs.
LEMMA InitSolo == OneCaller /\ Init => SoloInv
<1>. SUFFICES ASSUME OneCaller, Init PROVE SoloInv  OBVIOUS
<1>1. ConsInv /\ Shape  BY InitItems, InitShape
<1>2. open /\ NoneMeansEmpty /\ \A t \in Threads : AtTop(t) /\ Counting(t)
  BY DEF Init, NoneMeansEmpty, AtTop, Counting, Enforcing
<1>3. TopIsLast
  <2>1. ncells = Len(file) /\ top = LastBlock(file) /\ ncells \in Nat
    BY <1>1 DEF Init, ConsInv, DiskInv, IInv, TypeOK, SharedOK
  <2>2. ncells - 1 < top + 1  BY <2>1 DEF LastBlock
  <2>. QED  BY <2>1, <2>2 DEF TopIsLast, LastBlock
<1>. QED  BY <1>1, <1>2, <1>3 DEF SoloInv

\* A step of the only caller keeps its invariant.
LEMMA SoloStep ==
    ASSUME SoloInv, ConsInv', Shape', NEW t \in Threads, Step(t), faults' = 0
    PROVE  SoloInv'
<1>1. \A u \in Threads : u = t  BY DEF SoloInv, OneCaller
<1>2. ConsInv /\ Shape /\ faults = 0 /\ Effect(t) /\ open' = open /\ op' = op
  <2>1. ConsInv /\ Shape  BY DEF SoloInv
  <2>2. faults = 0 /\ Effect(t) /\ open' = open  BY <2>1, StepEffect DEF ConsInv
  <2>3. op' = op  BY <2>1, StepShape DEF ConsInv, DiskInv
  <2>. QED  BY <2>1, <2>2, <2>3
<1>3. TopIsLast /\ NoneMeansEmpty /\ AtTop(t) /\ Counting(t)  BY <1>2 DEF SoloInv
<1>4. TopIsLast'  BY <1>2, <1>3, SoloTop
<1>5. AtTop(t)'  BY <1>2, <1>3, SoloAtTop
<1>6. Counting(t)'  BY <1>2, <1>3, SoloCounts
<1>7. NoneMeansEmpty'
  <2>1. CASE pc'[t] = "idle" /\ res'[t] = "none"
    <3>1. landed' = gone'  BY <1>2, <1>3, <2>1, SoloNone
    <3>. QED  BY <3>1 DEF NoneMeansEmpty
  <2>2. CASE ~(pc'[t] = "idle" /\ res'[t] = "none")
    BY <1>1, <2>2 DEF NoneMeansEmpty
  <2>. QED  BY <2>1, <2>2
<1>8. open' \/ \A u \in Threads : pc'[u] = "idle"
  <2>1. pc[t] # "idle"
    BY DEF Step, ReadTop, CellOf, Spill, Retreat, Peek, ListCells, ReadLock, ReadBody,
           WriteLock, Ensure, RegisterLoaded, Body, FlushBody, Gate, EvictStart, EvictScan,
           EvictEnd, EvictSkip, EvictTake, EvictUnlist
  <2>. QED  BY <1>2, <2>1 DEF SoloInv
<1>9. \A u \in Threads : AtTop(u)' /\ Counting(u)'
  <2>. SUFFICES ASSUME NEW u \in Threads PROVE AtTop(u)' /\ Counting(u)'
    OBVIOUS
  <2>1. u = t  BY <1>1
  <2>. QED  BY <1>5, <1>6, <2>1
<1>. QED  BY <1>2, <1>4, <1>7, <1>8, <1>9 DEF SoloInv, OneCaller

\* So do the other steps: no call runs, or a new one begins.
LEMMA SoloRest ==
    ASSUME SoloInv, ConsInv', Shape', faults' = 0,
           \/ \E t \in Threads : Call(t) \/ DropLease(t)
           \/ Close \/ Reopen \/ UNCHANGED vars
    PROVE  SoloInv'
<1>1. /\ ConsInv /\ Shape /\ pc \in [Threads -> Labels]
      /\ op \in [Threads -> AllOpKinds \union {"-"}] /\ res \in [Threads -> Results]
      /\ blk \in [Threads -> Blocks \union {-1}] /\ acc \in [Threads -> Int]
      /\ ncells \in Nat /\ top \in Nat
  <2>1. ConsInv /\ Shape  BY DEF SoloInv
  <2>2. TypeOK  BY <2>1 DEF ConsInv, DiskInv, IInv
  <2>. QED  BY <2>1, <2>2, BoundsAssumption DEF TypeOK, CallsOK, SharedOK, Blocks
<1>2. /\ faults = 0 /\ UNCHANGED <<landed, gone>> /\ SameBlocks
      /\ top' = top \/ top' = LastBlock(file)
      /\ Len(file) = ncells
  <2>1. CASE \E t \in Threads : Call(t) \/ DropLease(t)
    BY <1>1, <2>1, CallEffect DEF Steady, ConsInv, DiskInv, FileFull
  <2>2. CASE Close  BY <1>1, <2>2, CloseEffect DEF Steady, ConsInv, DiskInv, FileFull
  <2>3. CASE Reopen  BY <1>1, <2>3, ReopenEffect DEF Reloading, ConsInv, DiskInv, FileFull
  <2>4. CASE UNCHANGED vars
    <3>1. UNCHANGED <<stack, file, faults, ncells, top, landed, gone>>
      BY <2>4 DEF vars, cellVars, sharedVars, diskVars, itemVars
    <3>2. Steady  BY <3>1, SteadyFrame
    <3>. QED  BY <1>1, <3>1, <3>2 DEF Steady, ConsInv, DiskInv, FileFull
  <2>. QED  BY <2>1, <2>2, <2>3, <2>4
<1>3. TopIsLast /\ NoneMeansEmpty /\ \A t \in Threads : AtTop(t) /\ Counting(t)
  BY <1>2 DEF SoloInv
<1>4. TopIsLast'
  <2>1. CASE top' = top  BY <1>1, <1>2, <1>3, <2>1 DEF TopIsLast, SameBlocks
  <2>2. CASE top' = LastBlock(file)
    <3>1. ncells' - 1 < top' + 1  BY <1>1, <1>2, <2>2 DEF LastBlock, SameBlocks
    <3>2. ncells' \in Nat /\ top' \in Nat  BY <1>1, <1>2, <2>2 DEF LastBlock, SameBlocks
    <3>3. \A n, k \in Nat : n - 1 < k + 1 => k + 1 .. n - 1 = {}  OBVIOUS
    <3>4. top' + 1 .. ncells' - 1 = {}  BY <3>1, <3>2, <3>3
    <3>. QED  BY <3>4 DEF TopIsLast
  <2>. QED  BY <1>2, <2>1, <2>2
<1>5. CASE \E t \in Threads : Call(t)
  <2>1. PICK t \in Threads : Call(t)  BY <1>5
  <2>2. \A u \in Threads : u = t  BY DEF SoloInv, OneCaller
  <2>3. /\ pc'[t] \in {"top", "rtouch", "cells", "peek"} /\ open' = open /\ open
        /\ op'[t] = "len" => blk'[t] = -1 /\ acc'[t] = 0
    <3>1. PICK k, b, x, l : /\ Begin(t, k, b, x, l) /\ open
                            /\ l \in {"top", "rtouch", "cells", "peek"}
                            /\ k = "len" => b = -1
      BY <2>1 DEF Call, CallPush, CallPop, CallRead, CallLease, CallFlush, CallLen,
                  CallPeek, CanCall
    <3>. QED  BY <1>1, <3>1 DEF Begin, lifeVars
  <2>4. NoneMeansEmpty' /\ AtTop(t)' /\ Counting(t)'
    BY <2>2, <2>3 DEF NoneMeansEmpty, AtTop, Counting, Enforcing
  <2>5. \A u \in Threads : AtTop(u)' /\ Counting(u)'
    <3>. SUFFICES ASSUME NEW u \in Threads PROVE AtTop(u)' /\ Counting(u)'
      OBVIOUS
    <3>1. u = t  BY <2>2
    <3>. QED  BY <2>4, <3>1
  <2>. QED  BY <1>4, <2>3, <2>4, <2>5 DEF SoloInv, OneCaller
<1>6. CASE (\E t \in Threads : DropLease(t)) \/ Close \/ Reopen
  <2>1. UNCHANGED <<pc, op, blk, acc, res>>
    BY <1>6 DEF DropLease, Close, Reopen, localVars
  <2>2. \A u \in Threads : pc[u] = "idle"
    BY <1>6 DEF DropLease, Close, Reopen, SoloInv, OneCaller
  <2>3. NoneMeansEmpty'  BY <1>2, <1>3, <2>1 DEF NoneMeansEmpty
  <2>4. \A u \in Threads : AtTop(u)' /\ Counting(u)'
    BY <1>2, <1>3, <2>1, <2>2 DEF AtTop, Counting, Enforcing
  <2>. QED  BY <1>4, <2>1, <2>2, <2>3, <2>4 DEF SoloInv, OneCaller
<1>7. CASE UNCHANGED vars
  <2>1. UNCHANGED <<pc, op, blk, acc, res, lim, open, ncells, top, landed, gone, stack,
                    file, faults>>
    BY <1>7 DEF vars, cellVars, sharedVars, diskVars, lifeVars, localVars, itemVars
  <2>2. AbsContent' = AbsContent  BY <1>1, <1>2, SameContent DEF ConsInv
  <2>3. NoneMeansEmpty'  BY <1>3, <2>1 DEF NoneMeansEmpty
  <2>4. \A u \in Threads : AtTop(u)' /\ Counting(u)'
    BY <1>3, <2>1, <2>2 DEF AtTop, Counting, Contents, Count
  <2>. QED  BY <1>4, <2>1, <2>3, <2>4 DEF SoloInv, OneCaller
<1>. QED  BY <1>5, <1>6, <1>7

\* Every step keeps it.
LEMMA NextSolo == SoloInv /\ [Next]_vars => SoloInv'
<1>. SUFFICES ASSUME SoloInv, [Next]_vars PROVE SoloInv'  OBVIOUS
<1>0. ConsInv /\ Shape  BY DEF SoloInv
<1>1. ConsInv' /\ Shape'  BY <1>0, NextItems, ShapeInductive DEF ConsInv, DiskInv
<1>2. CASE faults' = 0
  <2>1. ASSUME NEW t \in Threads, Step(t) PROVE SoloInv'
    BY <1>1, <1>2, <2>1, SoloStep
  <2>2. CASE \/ \E t \in Threads : Call(t) \/ DropLease(t)
             \/ Close \/ Reopen \/ UNCHANGED vars
    BY <1>1, <1>2, <2>2, SoloRest
  <2>. QED  BY <2>1, <2>2 DEF Next, Done
<1>3. CASE faults' # 0
  <2>1. open' \/ \A t \in Threads : pc'[t] = "idle"
    <3>1. ASSUME NEW t \in Threads, Step(t) PROVE open'
      <4>1. pc[t] # "idle" /\ open' = open
        BY <3>1 DEF Step, ReadTop, CellOf, Spill, Retreat, Peek, ListCells, ReadLock,
           ReadBody, WriteLock, Ensure, RegisterLoaded, Body, FlushBody, Gate, EvictStart,
           EvictScan, EvictEnd, EvictSkip, EvictTake, EvictUnlist, lifeVars
      <4>. QED  BY <4>1 DEF SoloInv
    <3>2. ASSUME NEW t \in Threads, Call(t) PROVE open'
      <4>1. PICK k, b, x, l : Begin(t, k, b, x, l) /\ open
        BY <3>2 DEF Call, CallPush, CallPop, CallRead, CallLease, CallFlush, CallLen,
                    CallPeek, CanCall
      <4>. QED  BY <4>1 DEF Begin, lifeVars
    <3>3. CASE (\E t \in Threads : DropLease(t)) \/ UNCHANGED vars
      BY <3>3 DEF DropLease, lifeVars, vars, SoloInv
    <3>4. CASE Close \/ Reopen  BY <3>4 DEF Close, Reopen
    <3>. QED  BY <3>1, <3>2, <3>3, <3>4 DEF Next, Done
  <2>. QED  BY <1>1, <1>3, <2>1 DEF SoloInv, OneCaller
<1>. QED  BY <1>2, <1>3

\* The inductive invariant of one caller: what its call has seen of the target
\* and of the blocks is still so, for nobody else moves them.
THEOREM SoloSafe == OneCaller /\ Spec => []SoloInv
BY InitSolo, NextSolo, PTL DEF Spec

\* TopTheorem: while one caller uses the file and no I/O call fails, nothing is
\* ever stored above the push/pop target, whatever is evicted, reloaded, spilled,
\* retreated past or reopened (stacks.rs:490-560).
THEOREM TopTheorem == OneCaller /\ Spec => [](faults = 0 => NothingAboveTop)
<1>1. SoloInv => (faults = 0 => NothingAboveTop)
  BY DEF SoloInv, TopIsLast, NothingAboveTop
<1>. QED  BY <1>1, SoloSafe, PTL

\* NoneTheorem: to one caller pop answers None only when every item that was
\* pushed has been popped, though it looks at one block at a time
\* (stacks.rs:521-560).
THEOREM NoneTheorem == OneCaller /\ Spec => [](faults = 0 => NoneMeansEmpty)
<1>1. SoloInv => (faults = 0 => NoneMeansEmpty)  BY DEF SoloInv
<1>. QED  BY <1>1, SoloSafe, PTL

\* LenTheorem: to one caller len answers the number of items stored, though it
\* loads and evicts blocks while it counts (stacks.rs:562-599).
THEOREM LenTheorem == OneCaller /\ Spec => [](faults = 0 => LenCounts)
<1>1. SoloInv => (faults = 0 => LenCounts)  BY DEF SoloInv, Counting, LenCounts
<1>. QED  BY <1>1, SoloSafe, PTL

-----------------------------------------------------------------------------
(* The budget.                                                             *)

\* the only caller's locks follow its place in the code
OwnLocks(t) ==
    \A b \in Blocks :
        /\ writer[b] # Nil =>
              pc[t] \in {"ensure", "register", "body", "fbody"} /\ blk[t] = b
        /\ rguard[b] # {} => pc[t] = "rbody" /\ blk[t] = b

OwnLeases(t) ==
    \A b \in Blocks : readers[b] \in Nat /\ (leased[t] = b /\ b # Nil => readers[b] > 0)

\* the evictor passed over leased blocks only, and stopped at one without lease
Scanned(t) ==
    /\ pc[t] \in {"scan", "take"} =>
          \A i \in 1 .. cur[t] - 1 : i \in 1 .. Len(resident) => readers[resident[i]] > 0
    /\ pc[t] = "take" => readers[Candidate(t)] = 0

BudgetInv ==
    /\ OneCaller /\ ~StaleLoads /\ IInv /\ FileInv /\ LruInv
    /\ \A t \in Threads : OwnLocks(t) /\ OwnLeases(t) /\ Scanned(t)

\* The locks of the only caller are taken and released along its call
\* (stacks.rs:338-391, 411-436).
LEMMA OwnLocksStep ==
    ASSUME IInv, OneCaller, NEW t \in Threads, OwnLocks(t), Step(t)
    PROVE  OwnLocks(t)'
<1>0. /\ pc \in [Threads -> Labels] /\ blk \in [Threads -> Blocks \union {-1}]
      /\ writer \in [Blocks -> Threads \union {Nil}]
      /\ rguard \in [Blocks -> SUBSET Threads]
  BY DEF IInv, TypeOK, CellsOK, CallsOK
<1>. SUFFICES ASSUME NEW b \in Blocks
              PROVE  /\ writer'[b] # Nil =>
                           /\ pc'[t] \in {"ensure", "register", "body", "fbody"}
                           /\ blk'[t] = b
                     /\ rguard'[b] # {} => pc'[t] = "rbody" /\ blk'[t] = b
  BY DEF OwnLocks
<1>1. /\ writer[b] # Nil => pc[t] \in {"ensure", "register", "body", "fbody"} /\ blk[t] = b
      /\ rguard[b] # {} => pc[t] = "rbody" /\ blk[t] = b
  BY DEF OwnLocks
<1>2. CASE ReadLock(t)
  <2>1. rguard' = [rguard EXCEPT ![blk[t]] = @ \union {t}] /\ UNCHANGED <<writer, blk>>
        /\ pc'[t] = "rbody" /\ pc[t] = "rlock"
    BY <1>0, <1>2 DEF ReadLock, Goto, localVars
  <2>. QED  BY <1>0, <1>1, <2>1
<1>3. CASE ReadBody(t)
  <2>1. rguard' = [rguard EXCEPT ![blk[t]] = @ \ {t}] /\ UNCHANGED writer
        /\ pc[t] = "rbody"
    BY <1>3 DEF ReadBody
  <2>2. \A u \in Threads : u = t  BY DEF OneCaller
  <2>3. rguard'[b] = {}  BY <1>0, <1>1, <2>1, <2>2
  <2>. QED  BY <1>1, <2>1, <2>3
<1>4. CASE WriteLock(t)
  <2>1. writer' = [writer EXCEPT ![blk[t]] = t] /\ UNCHANGED <<rguard, blk>>
        /\ pc'[t] \in {"ensure", "fbody"} /\ pc[t] = "wlock"
    BY <1>0, <1>4 DEF WriteLock, Goto, localVars
  <2>. QED  BY <1>0, <1>1, <2>1
<1>5. CASE Ensure(t) \/ RegisterLoaded(t)
  <2>1. /\ UNCHANGED <<rguard, blk>> /\ pc[t] \in {"ensure", "register"}
        /\ \/ pc'[t] \in {"register", "body"} /\ UNCHANGED writer
           \/ writer' = [writer EXCEPT ![blk[t]] = Nil]
    BY <1>0, <1>5 DEF Ensure, RegisterLoaded, Goto, Return, localVars, cellVars
  <2>. QED  BY <1>0, <1>1, <2>1
<1>6. CASE Body(t) \/ FlushBody(t)
  <2>1. /\ UNCHANGED rguard /\ pc[t] \in {"body", "fbody"}
        /\ writer' = [writer EXCEPT ![blk[t]] = Nil]
    BY <1>6 DEF Body, FlushBody
  <2>. QED  BY <1>0, <1>1, <2>1
<1>7. CASE \/ ReadTop(t) \/ CellOf(t) \/ Spill(t) \/ Retreat(t) \/ Peek(t) \/ ListCells(t)
           \/ Gate(t) \/ EvictStart(t) \/ EvictScan(t) \/ EvictEnd(t) \/ EvictSkip(t)
           \/ EvictTake(t) \/ EvictUnlist(t)
  <2>1. /\ UNCHANGED <<writer, rguard>>
        /\ pc[t] \notin {"ensure", "register", "body", "fbody", "rbody"}
    BY <1>7 DEF ReadTop, CellOf, Spill, Retreat, Peek, ListCells, Gate, EvictStart,
           EvictScan, EvictEnd, EvictSkip, EvictTake, EvictUnlist, AppendBlock, AppendFails,
           cellVars
  <2>. QED  BY <1>1, <2>1
<1>. QED  BY <1>2, <1>3, <1>4, <1>5, <1>6, <1>7 DEF Step

\* A step grants at most one lease, to its own call (stacks.rs:606-660).
LEMMA OwnLeasesStep ==
    ASSUME IInv, NEW t \in Threads, OwnLeases(t), Step(t)
    PROVE  OwnLeases(t)'
<1>0. /\ leased \in [Threads -> Blocks \union {Nil}] /\ readers \in [Blocks -> Int]
  BY DEF IInv, TypeOK, CellsOK, CallsOK
<1>1. \/ UNCHANGED <<readers, leased>>
      \/ /\ readers' = [readers EXCEPT ![blk[t]] = @ + 1]
         /\ leased' = [leased EXCEPT ![t] = blk[t]]
  BY DEF Step, ReadTop, CellOf, Spill, Retreat, Peek, ListCells, ReadLock, ReadBody,
         WriteLock, Ensure, RegisterLoaded, Body, PushBody, PopBody, LookBody, FlushBody,
         Gate, EvictStart, EvictScan, EvictEnd, EvictSkip, EvictTake, EvictUnlist,
         AppendBlock, AppendFails, cellVars, callVars
<1>. QED  BY <1>0, <1>1 DEF OwnLeases

\* With no other caller the lease counts are exact, and so is the scan
\* (stacks.rs:397-436).
LEMMA ScannedStep ==
    ASSUME IInv, ~StaleLoads, NEW t \in Threads, OwnLocks(t), OwnLeases(t), Scanned(t),
           Step(t)
    PROVE  Scanned(t)'
<1>0. /\ pc \in [Threads -> Labels] /\ cur \in [Threads -> Nat \ {0}]
      /\ resident \in Seq(Blocks) /\ Len(resident) \in Nat
      /\ \A i \in 1 .. Len(resident) : resident[i] \in Blocks
  BY LenProperties, ElementOfSeq DEF IInv, TypeOK, SharedOK, CallsOK
<1>1. CASE pc'[t] \notin {"scan", "take"}  BY <1>1 DEF Scanned
<1>2. CASE pc'[t] \in {"scan", "take"} /\ cur'[t] = 1 /\ pc'[t] # "take"
  <2>1. 1 .. cur'[t] - 1 = {}  BY <1>2
  <2>. QED  BY <1>2, <2>1 DEF Scanned
<1>3. CASE EvictScan(t)
  <2>1. /\ pc[t] = "scan" /\ cur[t] < Len(resident) /\ UNCHANGED <<resident, readers>>
        /\ \/ readers[resident[cur[t]]] # 0 /\ cur'[t] = cur[t] + 1 /\ pc'[t] = "scan"
           \/ readers[resident[cur[t]]] = 0 /\ cur'[t] = cur[t] /\ pc'[t] = "take"
    BY <1>0, <1>3 DEF EvictScan, HasCandidate, Candidate, cellVars, sharedVars
  <2>2. /\ \A i \in 1 .. cur[t] - 1 : readers[resident[i]] > 0
        /\ resident[cur[t]] \in Blocks /\ readers[resident[cur[t]]] \in Nat
    BY <1>0, <2>1 DEF Scanned, OwnLeases
  <2>. QED  BY <1>0, <2>1, <2>2 DEF Scanned, Candidate
<1>4. CASE EvictSkip(t)
  <2>1. /\ pc[t] = "take" /\ ~Evictable(resident[cur[t]])
        /\ resident[cur[t]] \in Blocks
    BY <1>0, <1>4 DEF EvictSkip, Candidate, IInv, LockInv, HoldsLocks
  <2>2. readers[resident[cur[t]]] = 0  BY <2>1 DEF Scanned, Candidate
  <2>3. writer[resident[cur[t]]] = Nil /\ rguard[resident[cur[t]]] = {}
    BY <2>1 DEF OwnLocks
  <2>. QED  BY <2>1, <2>2, <2>3 DEF Evictable, Unlocked
<1>. QED
  BY <1>0, <1>1, <1>2, <1>3, <1>4
     DEF Step, ReadTop, CellOf, Spill, Retreat, Peek, ListCells, ReadLock, ReadBody,
         WriteLock, Ensure, RegisterLoaded, Body, PushBody, PopBody, LookBody, FlushBody,
         Gate, EvictStart, EvictEnd, EvictTake, EvictUnlist, Goto, Return, Finish

\* With a file just opened nothing is locked and nothing is leased.
LEMMA InitBudget == OneCaller /\ ~StaleLoads /\ Init => BudgetInv
<1>. SUFFICES ASSUME OneCaller, ~StaleLoads, Init PROVE BudgetInv  OBVIOUS
<1>1. IInv /\ FileInv  BY InitItems DEF ConsInv, DiskInv
<1>2. LruInv  BY InitLru
<1>3. \A t \in Threads : OwnLocks(t) /\ OwnLeases(t) /\ Scanned(t)
  BY DEF Init, OwnLocks, OwnLeases, Scanned
<1>. QED  BY <1>1, <1>2, <1>3 DEF BudgetInv

\* Every step keeps the budget's invariant.
LEMMA NextBudget == BudgetInv /\ [Next]_vars => BudgetInv'
<1>. SUFFICES ASSUME BudgetInv, [Next]_vars PROVE BudgetInv'  OBVIOUS
<1>1. OneCaller /\ ~StaleLoads /\ IInv /\ FileInv /\ LruInv  BY DEF BudgetInv
<1>2. IInv' /\ FileInv' /\ LruInv'  BY <1>1, NextIInv, FileInductive, LruInductive
<1>0. /\ pc \in [Threads -> Labels] /\ leased \in [Threads -> Blocks \union {Nil}]
      /\ readers \in [Blocks -> Int]
  BY <1>1 DEF IInv, TypeOK, CellsOK, CallsOK
<1>3. ASSUME NEW t \in Threads PROVE OwnLocks(t)' /\ OwnLeases(t)' /\ Scanned(t)'
  <2>0. OwnLocks(t) /\ OwnLeases(t) /\ Scanned(t) /\ \A u \in Threads : u = t
    BY <1>1 DEF BudgetInv, OneCaller
  <2>1. CASE Step(t)  BY <1>1, <2>0, <2>1, OwnLocksStep, OwnLeasesStep, ScannedStep
  <2>2. CASE Call(t)
    <3>1. /\ pc[t] = "idle" /\ pc'[t] \in {"top", "rtouch", "cells", "peek"}
          /\ UNCHANGED <<writer, rguard, readers, leased>>
      <4>1. PICK k, b, x, l : /\ Begin(t, k, b, x, l) /\ pc[t] = "idle"
                              /\ l \in {"top", "rtouch", "cells", "peek"}
        BY <2>2 DEF Call, CallPush, CallPop, CallRead, CallLease, CallFlush, CallLen,
                    CallPeek, CanCall
      <4>2. UNCHANGED leased
        BY <2>2 DEF Call, CallPush, CallPop, CallRead, CallLease, CallFlush, CallLen,
                    CallPeek
      <4>. QED  BY <1>0, <4>1, <4>2 DEF Begin, cellVars
    <3>. QED  BY <2>0, <3>1 DEF OwnLocks, OwnLeases, Scanned
  <2>3. CASE DropLease(t)
    <3>1. /\ pc' = pc /\ pc[t] = "idle" /\ UNCHANGED <<writer, rguard, blk>>
          /\ leased[t] \in Blocks /\ leased[t] # Nil
          /\ readers' = [readers EXCEPT ![leased[t]] = @ - 1]
          /\ leased'[t] = Nil
      BY <1>0, <2>3 DEF DropLease, localVars
    <3>2. readers[leased[t]] > 0 /\ \A b \in Blocks : readers[b] \in Nat
      BY <2>0, <3>1 DEF OwnLeases
    <3>3. OwnLeases(t)'
      <4>1. \A b \in Blocks : readers'[b] \in Nat  BY <1>0, <3>1, <3>2
      <4>. QED  BY <3>1, <4>1 DEF OwnLeases
    <3>. QED  BY <2>0, <3>1, <3>3 DEF OwnLocks, Scanned
  <2>4. CASE Close
    <3>1. /\ pc' = pc /\ pc[t] = "idle" /\ UNCHANGED <<writer, rguard, blk>>
          /\ readers' = [b \in Blocks |-> 0] /\ leased'[t] = Nil
      BY <2>4 DEF Close, localVars
    <3>. QED  BY <2>0, <3>1 DEF OwnLocks, OwnLeases, Scanned
  <2>5. CASE Reopen \/ UNCHANGED vars
    <3>1. UNCHANGED <<pc, blk, cur, writer, rguard, readers, leased, resident>>
      BY <2>5 DEF Reopen, vars, cellVars, sharedVars, localVars, callVars
    <3>. QED  BY <2>0, <3>1 DEF OwnLocks, OwnLeases, Scanned, Candidate
  <2>. QED  BY <2>0, <2>1, <2>2, <2>3, <2>4, <2>5 DEF Next, Done
<1>. QED  BY <1>1, <1>2, <1>3 DEF BudgetInv, OneCaller

\* An operation that ends with the budget enforced leaves it kept.
LEMMA BudgetStep ==
    ASSUME BudgetInv, [Next]_vars, NEW t \in Threads,
           pc[t] \in {"gate", "scan"}, pc'[t] = "idle"
    PROVE  \/ Len(resident') <= Budget
           \/ \A i \in 1 .. Len(resident') - 1 : readers'[resident'[i]] > 0
<1>0. /\ ~StaleLoads /\ IInv /\ LruInv /\ Scanned(t) /\ \A u \in Threads : u = t
      /\ pc \in [Threads -> Labels] /\ cur[t] \in Nat \ {0} /\ Len(resident) \in Nat
      /\ Budget \in Nat
  BY LenProperties, BoundsAssumption
     DEF BudgetInv, OneCaller, IInv, TypeOK, SharedOK, CallsOK
<1>1. Gate(t) \/ EvictEnd(t)
  BY <1>0 DEF Next, Call, CallPush, CallPop, CallRead, CallLease, CallFlush, CallLen,
         CallPeek, CanCall, DropLease, Close, Reopen, Done, vars, Step, ReadTop, CellOf,
         Spill, Retreat, Peek, ListCells, ReadLock, ReadBody, WriteLock, Ensure,
         RegisterLoaded, Body, FlushBody, EvictStart, EvictScan, EvictSkip, EvictTake,
         EvictUnlist, Goto
<1>2. CASE Gate(t)
  <2>1. resident_count <= Budget /\ resident' = resident
    BY <1>0, <1>2 DEF Gate, Goto, sharedVars
  <2>. QED  BY <1>0, <2>1 DEF LruInv
<1>3. CASE EvictEnd(t)
  <2>1. /\ ~HasCandidate(t) /\ UNCHANGED <<resident, readers>> /\ pc[t] = "scan"
    BY <1>3 DEF EvictEnd, cellVars
  <2>2. CASE Len(resident) > Budget
    <3>1. \A i \in 1 .. Len(resident) - 1 : i \in 1 .. cur[t] - 1 /\ i \in 1 .. Len(resident)
      BY <1>0, <2>1, <2>2 DEF HasCandidate
    <3>. QED  BY <1>0, <2>1, <3>1 DEF Scanned
  <2>. QED  BY <1>0, <2>1, <2>2
<1>. QED  BY <1>1, <1>2, <1>3

\* BudgetTheorem: to one caller, for any budget, an operation that enforced it
\* leaves more blocks resident only if all of them but the most recently used
\* are leased (stacks.rs:28-31, 397-436).  A thread reads its own writes, so no
\* load of a single caller is stale.
THEOREM BudgetTheorem == OneCaller /\ ~StaleLoads /\ Spec => BudgetKept
<1>1. BudgetInv /\ [Next]_vars =>
         [\A t \in Threads : pc[t] \in {"gate", "scan"} /\ pc'[t] = "idle" =>
            \/ Len(resident') <= Budget
            \/ \A i \in 1 .. Len(resident') - 1 : readers'[resident'[i]] > 0
         ]_vars
  BY BudgetStep
<1>. QED  BY <1>1, InitBudget, NextBudget, PTL DEF Spec, BudgetKept
-----------------------------------------------------------------------------
(* The concatenation of a list of stacks.                                  *)

BlockLists == Seq(Seq(Items))

\* f[i] is the concatenation of the first i stacks of C
Joins(f, C) ==
    f = [i \in 1 .. Len(C) |-> IF i = 1 THEN C[i] ELSE f[i - 1] \o C[i]]

\* FlattenSeq is the last value of the function that it defines by recursion,
\* because there is such a function.
LEMMA FlattenIsJoin ==
    ASSUME NEW C \in BlockLists, Len(C) > 0
    PROVE  \E f : Joins(f, C) /\ FlattenSeq(C) = f[Len(C)]
<1>. DEFINE upTo(f, n) == f = [i \in 1 .. n |-> IF i = 1 THEN C[i] ELSE f[i - 1] \o C[i]]
            S == {n \in Nat : \E f : upTo(f, n)}
<1>0. Len(C) \in Nat  BY LenProperties DEF BlockLists
<1>1. 1 \in S
  <2>. DEFINE f == [i \in 1 .. 1 |-> C[i]]
  <2>1. upTo(f, 1)  OBVIOUS
  <2>. QED  BY <2>1
<1>2. ASSUME NEW k \in 1 + 1 .. Len(C), k - 1 \in S PROVE k \in S
  <2>0. PICK n \in Nat : n = k - 1 /\ n # 0 /\ k = n + 1  BY <1>0
  <2>1. PICK f : upTo(f, n)  BY <1>2, <2>0
  <2>. DEFINE g == [i \in 1 .. n + 1 |->
                      IF i = n + 1 THEN f[n] \o C[n + 1] ELSE f[i]]
  <2>2. n \in Nat /\ n + 1 # 1 /\ n + 1 - 1 = n  BY <2>0
  <2>3. g[n] = f[n]  BY <2>2
  <2>4. ASSUME NEW i \in 1 .. n + 1
        PROVE  g[i] = IF i = 1 THEN C[i] ELSE g[i - 1] \o C[i]
    <3>1. CASE i = n + 1
      <4>1. g[i] = f[n] \o C[n + 1]  BY <3>1
      <4>2. i # 1 /\ i - 1 = n /\ C[n + 1] = C[i]  BY <2>2, <3>1
      <4>. HIDE DEF g
      <4>. QED  BY <2>3, <4>1, <4>2
    <3>2. CASE i # n + 1
      <4>1. i \in 1 .. n /\ g[i] = f[i]  BY <2>2, <3>2
      <4>2. f[i] = IF i = 1 THEN C[i] ELSE f[i - 1] \o C[i]
        <5>. HIDE DEF g
        <5>. QED  BY <2>1, <4>1
      <4>3. i # 1 => g[i - 1] = f[i - 1]
        <5>1. i # 1 => i - 1 \in 1 .. n + 1 /\ i - 1 # n + 1  BY <2>2, <4>1
        <5>. QED  BY <5>1
      <4>. HIDE DEF g
      <4>. QED  BY <4>1, <4>2, <4>3
    <3>. QED  BY <3>1, <3>2
  <2>5. upTo(g, n + 1)
    <3>1. g = [i \in 1 .. n + 1 |-> g[i]]  OBVIOUS
    <3>. HIDE DEF g, S
    <3>2. \A h : /\ h = [i \in 1 .. n + 1 |-> h[i]]
                 /\ \A i \in 1 .. n + 1 :
                      h[i] = IF i = 1 THEN C[i] ELSE h[i - 1] \o C[i]
                 => upTo(h, n + 1)
      OBVIOUS
    <3>. HIDE DEF upTo
    <3>. QED  BY <2>4, <3>1, <3>2
  <2>6. \E h : upTo(h, n + 1)
    <3>. HIDE DEF g, upTo
    <3>. QED  BY <2>5
  <2>. HIDE DEF upTo
  <2>. QED  BY <2>0, <2>2, <2>6
<1>3. Len(C) \in S
  <2>. HIDE DEF S
  <2>1. 1 .. Len(C) \subseteq S  BY <1>0, <1>1, <1>2, Upwards
  <2>. QED  BY <1>0, <2>1
<1>4. \E f : Joins(f, C)  BY <1>3 DEF Joins
<1>5. Joins(CHOOSE f : Joins(f, C), C)  BY <1>4
<1>6. FlattenSeq(C) = (CHOOSE f : Joins(f, C))[Len(C)]
  BY DEF FlattenSeq, Joins
<1>. QED  BY <1>5, <1>6

\* The two equations of the concatenation, and its type.
LEMMA JoinIs ==
    ASSUME NEW C \in BlockLists, NEW f, Joins(f, C)
    PROVE  /\ \A i \in 1 .. Len(C) : f[i] = IF i = 1 THEN C[i] ELSE f[i - 1] \o C[i]
           /\ \A i \in 1 .. Len(C) : f[i] \in Seq(Items)
<1>0. Len(C) \in Nat /\ \A i \in 1 .. Len(C) : C[i] \in Seq(Items)
  BY LenProperties, ElementOfSeq DEF BlockLists
<1>1. \A i \in 1 .. Len(C) : f[i] = IF i = 1 THEN C[i] ELSE f[i - 1] \o C[i]
  BY DEF Joins
<1>. DEFINE S == {i \in Nat : f[i] \in Seq(Items)}
<1>2. CASE Len(C) > 0
  <2>1. 1 \in S  BY <1>0, <1>1, <1>2
  <2>2. ASSUME NEW i \in 1 + 1 .. Len(C), i - 1 \in S PROVE i \in S
    <3>1. i \in 1 .. Len(C) /\ i # 1 /\ i \in Nat  BY <1>0
    <3>2. f[i] = f[i - 1] \o C[i]  BY <1>1, <3>1
    <3>3. f[i - 1] \in Seq(Items) /\ C[i] \in Seq(Items)  BY <1>0, <2>2, <3>1
    <3>4. f[i] \in Seq(Items)  BY <3>2, <3>3, ConcatProperties
    <3>. QED  BY <3>1, <3>4
  <2>3. 1 .. Len(C) \subseteq S
    <3>. HIDE DEF S
    <3>. QED  BY <1>0, <2>1, <2>2, Upwards
  <2>. QED  BY <1>1, <2>3
<1>3. CASE ~(Len(C) > 0)  BY <1>0, <1>1, <1>3
<1>. QED  BY <1>2, <1>3

\* It depends on the stacks joined only.
LEMMA JoinSame ==
    ASSUME NEW C \in BlockLists, NEW D \in BlockLists, NEW f, NEW g, Joins(f, C), Joins(g, D),
           NEW k \in Nat, k <= Len(C), k <= Len(D), \A i \in 1 .. k : C[i] = D[i]
    PROVE  \A i \in 1 .. k : f[i] = g[i]
<1>0. Len(C) \in Nat /\ Len(D) \in Nat  BY LenProperties DEF BlockLists
<1>1. /\ \A i \in 1 .. Len(C) : f[i] = IF i = 1 THEN C[i] ELSE f[i - 1] \o C[i]
      /\ \A i \in 1 .. Len(D) : g[i] = IF i = 1 THEN D[i] ELSE g[i - 1] \o D[i]
  BY JoinIs
<1>. DEFINE S == {i \in Nat : f[i] = g[i]}
<1>2. CASE k > 0
  <2>1. 1 \in S  BY <1>0, <1>1, <1>2
  <2>2. ASSUME NEW i \in 1 + 1 .. k, i - 1 \in S PROVE i \in S
    <3>1. /\ i \in 1 .. Len(C) /\ i \in 1 .. Len(D) /\ i \in 1 .. k
          /\ i # 1 /\ i \in Nat
      BY <1>0
    <3>2. f[i] = f[i - 1] \o C[i] /\ g[i] = g[i - 1] \o D[i]  BY <1>1, <3>1
    <3>3. f[i - 1] = g[i - 1] /\ C[i] = D[i]  BY <2>2, <3>1
    <3>. QED  BY <3>1, <3>2, <3>3
  <2>3. 1 .. k \subseteq S
    <3>. HIDE DEF S
    <3>. QED  BY <2>1, <2>2, Upwards
  <2>. QED  BY <2>3
<1>3. CASE ~(k > 0)  BY <1>3
<1>. QED  BY <1>2, <1>3

\* Empty stacks add nothing to it.
LEMMA JoinTail ==
    ASSUME NEW C \in BlockLists, NEW f, Joins(f, C), NEW i \in 1 .. Len(C),
           \A j \in i + 1 .. Len(C) : C[j] = <<>>
    PROVE  f[Len(C)] = f[i]
<1>0. Len(C) \in Nat /\ i \in Nat  BY LenProperties DEF BlockLists
<1>1. /\ \A j \in 1 .. Len(C) : f[j] = IF j = 1 THEN C[j] ELSE f[j - 1] \o C[j]
      /\ \A j \in 1 .. Len(C) : f[j] \in Seq(Items)
  BY JoinIs
<1>. DEFINE S == {j \in Nat : f[j] = f[i]}
<1>2. i \in S  BY <1>0
<1>3. ASSUME NEW j \in i + 1 .. Len(C), j - 1 \in S PROVE j \in S
  <2>1. j \in 1 .. Len(C) /\ j # 1 /\ j \in Nat /\ j - 1 \in 1 .. Len(C)  BY <1>0
  <2>2. f[j] = f[j - 1] \o <<>>  BY <1>1, <2>1
  <2>3. f[j - 1] \in Seq(Items)  BY <1>1, <2>1
  <2>4. f[j] = f[j - 1]  BY <2>2, <2>3, ConcatEmptySeq
  <2>. QED  BY <1>3, <2>1, <2>4
<1>4. i .. Len(C) \subseteq S
  <2>. HIDE DEF S
  <2>. QED  BY <1>0, <1>2, <1>3, Upwards
<1>. QED  BY <1>0, <1>4

\* What lies before the last stack that is not empty is the same whatever is
\* in that stack.
LEMMA FlattenAround ==
    ASSUME NEW C \in BlockLists, NEW i \in 1 .. Len(C),
           \A j \in i + 1 .. Len(C) : C[j] = <<>>
    PROVE  \E p \in Seq(Items) :
              /\ FlattenSeq(C) = p \o C[i]
              /\ \A s \in Seq(Items) : FlattenSeq([C EXCEPT ![i] = s]) = p \o s
<1>0. Len(C) \in Nat /\ i \in Nat /\ Len(C) > 0 /\ C[i] \in Seq(Items)
  BY LenProperties, ElementOfSeq DEF BlockLists
<1>1. PICK f : Joins(f, C) /\ FlattenSeq(C) = f[Len(C)]  BY <1>0, FlattenIsJoin
<1>2. /\ \A j \in 1 .. Len(C) : f[j] = IF j = 1 THEN C[j] ELSE f[j - 1] \o C[j]
      /\ \A j \in 1 .. Len(C) : f[j] \in Seq(Items)
  BY <1>1, JoinIs
<1>. DEFINE p == IF i = 1 THEN <<>> ELSE f[i - 1]
<1>3. p \in Seq(Items)
  <2>1. i # 1 => i - 1 \in 1 .. Len(C)  BY <1>0
  <2>. QED  BY <1>2, <2>1, EmptySeq
<1>4. ASSUME NEW s \in Seq(Items) PROVE FlattenSeq([C EXCEPT ![i] = s]) = p \o s
  <2>. DEFINE D == [C EXCEPT ![i] = s]
  <2>1. /\ D \in BlockLists /\ Len(D) = Len(C)
        /\ \A j \in 1 .. Len(C) : D[j] = IF j = i THEN s ELSE C[j]
    BY ExceptSeq DEF BlockLists
  <2>. HIDE DEF D
  <2>2. PICK g : Joins(g, D) /\ FlattenSeq(D) = g[Len(D)]
    BY <1>0, <2>1, FlattenIsJoin
  <2>3. g[i] = IF i = 1 THEN D[i] ELSE g[i - 1] \o D[i]  BY <2>1, <2>2, JoinIs
  <2>4. g[Len(D)] = g[i]
    <3>1. \A j \in i + 1 .. Len(D) : D[j] = <<>>
      <4>1. \A j \in i + 1 .. Len(C) : j \in 1 .. Len(C) /\ j # i  BY <1>0
      <4>. QED  BY <2>1, <4>1
    <3>2. i \in 1 .. Len(D)  BY <2>1
    <3>. QED  BY <2>1, <2>2, <3>1, <3>2, JoinTail
  <2>5. i # 1 => g[i - 1] = f[i - 1]
    <3>1. i - 1 \in Nat /\ i - 1 <= Len(C) /\ i - 1 <= Len(D)  BY <1>0, <2>1
    <3>2. \A j \in 1 .. i - 1 : D[j] = C[j]
      <4>1. \A j \in 1 .. i - 1 : j \in 1 .. Len(C) /\ j # i  BY <1>0
      <4>. QED  BY <2>1, <4>1
    <3>3. \A j \in 1 .. i - 1 : g[j] = f[j]
      BY <1>1, <2>1, <2>2, <3>1, <3>2, JoinSame
    <3>4. i # 1 => i - 1 \in 1 .. i - 1  BY <1>0
    <3>. QED  BY <3>3, <3>4
  <2>6. g[i] = p \o s
    <3>1. D[i] = s  BY <2>1
    <3>2. CASE i = 1  BY <2>3, <3>1, <3>2, ConcatEmptySeq
    <3>3. CASE i # 1  BY <2>3, <2>5, <3>1, <3>3
    <3>. QED  BY <3>2, <3>3
  <2>. QED  BY <2>2, <2>4, <2>6 DEF D
<1>5. FlattenSeq(C) = p \o C[i]
  <2>1. f[Len(C)] = f[i]  BY <1>1, JoinTail
  <2>2. CASE i = 1  BY <1>0, <1>1, <1>2, <2>1, <2>2, ConcatEmptySeq
  <2>3. CASE i # 1  BY <1>1, <1>2, <2>1, <2>3
  <2>. QED  BY <2>2, <2>3
<1>. HIDE DEF p
<1>. QED  BY <1>3, <1>4, <1>5

\* A new empty block adds nothing to it.
LEMMA FlattenNew ==
    ASSUME NEW C \in BlockLists
    PROVE  FlattenSeq(Append(C, <<>>)) = FlattenSeq(C)
<1>. DEFINE D == Append(C, <<>>)
            n == Len(C)
<1>0. n \in Nat  BY LenProperties DEF BlockLists
<1>1. <<>> \in Seq(Items)  BY EmptySeq
<1>2. /\ D \in BlockLists /\ Len(D) = n + 1 /\ D[n + 1] = <<>>
      /\ \A i \in 1 .. n : D[i] = C[i]
  BY <1>1, AppendProperties DEF BlockLists
<1>3. D \in BlockLists /\ Len(D) = n + 1  BY <1>2
<1>. HIDE DEF D
<1>4. PICK g : Joins(g, D) /\ FlattenSeq(D) = g[n + 1]  BY <1>0, <1>3, FlattenIsJoin
<1>5. CASE ~(n > 0)
  <2>1. g[n + 1] = <<>>
    <3>1. n + 1 = 1 /\ 1 \in 1 .. Len(D)  BY <1>0, <1>3, <1>5
    <3>2. g[1] = D[1]  BY <1>2, <1>4, <3>1, JoinIs
    <3>. QED  BY <1>2, <3>1, <3>2
  <2>2. FlattenSeq(C) = C /\ C = <<>>
    <3>1. C = <<>>  BY <1>5, EmptySeq DEF BlockLists
    <3>. QED  BY <1>5, <3>1 DEF FlattenSeq
  <2>. QED  BY <1>4, <2>1, <2>2 DEF D
<1>6. CASE n > 0
  <2>1. PICK f : Joins(f, C) /\ FlattenSeq(C) = f[n]  BY <1>0, <1>6, FlattenIsJoin
  <2>2. g[n + 1] = g[n]
    <3>1. \A j \in n + 1 .. Len(D) : j = n + 1  BY <1>0, <1>3
    <3>2. \A j \in n + 1 .. Len(D) : D[j] = <<>>  BY <1>2, <3>1
    <3>3. n \in 1 .. Len(D)  BY <1>0, <1>3, <1>6
    <3>. QED  BY <1>2, <1>4, <3>2, <3>3, JoinTail
  <2>3. g[n] = f[n]
    <3>1. n <= Len(C) /\ n <= Len(D) /\ n \in 1 .. n  BY <1>0, <1>3, <1>6
    <3>. HIDE DEF n
    <3>2. \A i \in 1 .. n : g[i] = f[i]  BY <1>0, <1>2, <1>4, <2>1, <3>1, JoinSame
    <3>. QED  BY <3>1, <3>2
  <2>. QED  BY <1>4, <2>1, <2>2, <2>3 DEF D
<1>. QED  BY <1>0, <1>5, <1>6

-----------------------------------------------------------------------------
(* The refinement.                                                         *)

\* What is put on the end of the last part is put on the end of the whole.
LEMMA PutOnEnd ==
    ASSUME NEW p \in Seq(Items), NEW s \in Seq(Items), NEW x \in Items
    PROVE  p \o Append(s, x) = Append(p \o s, x)
<1>1. /\ Append(s, x) \in Seq(Items) /\ Len(Append(s, x)) = Len(s) + 1
      /\ \A i \in 1 .. Len(s) + 1 : Append(s, x)[i] = IF i <= Len(s) THEN s[i] ELSE x
      /\ Len(s) \in Nat /\ Len(p) \in Nat
  BY AppendProperties, LenProperties
<1>. DEFINE l == p \o Append(s, x)
            r == Append(p \o s, x)
            k == Len(p)
            n == Len(s)
<1>2. /\ l \in Seq(Items) /\ Len(l) = k + n + 1
      /\ \A i \in 1 .. k + n + 1 : l[i] = IF i <= k THEN p[i] ELSE Append(s, x)[i - k]
  <2>. DEFINE a == Append(s, x)
  <2>1. a \in Seq(Items) /\ Len(a) = n + 1 /\ k + (n + 1) = k + n + 1  BY <1>1
  <2>. HIDE DEF a, n
  <2>2. /\ p \o a \in Seq(Items) /\ Len(p \o a) = Len(p) + Len(a)
        /\ \A i \in 1 .. Len(p) + Len(a) :
             (p \o a)[i] = IF i <= Len(p) THEN p[i] ELSE a[i - Len(p)]
    BY <2>1, ConcatProperties
  <2>3. \A i \in 1 .. k + n + 1 : (p \o a)[i] = IF i <= k THEN p[i] ELSE a[i - k]
    BY <2>1, <2>2
  <2>4. p \o a \in Seq(Items) /\ Len(p \o a) = k + n + 1  BY <2>1, <2>2
  <2>. QED  BY <2>3, <2>4 DEF a
<1>3. /\ p \o s \in Seq(Items) /\ Len(p \o s) = k + n
      /\ \A i \in 1 .. k + n : (p \o s)[i] = IF i <= k THEN p[i] ELSE s[i - k]
  BY ConcatProperties
<1>4. /\ r \in Seq(Items) /\ Len(r) = k + n + 1
      /\ \A i \in 1 .. k + n + 1 : r[i] = IF i <= k + n THEN (p \o s)[i] ELSE x
  <2>. DEFINE q == p \o s
  <2>1. q \in Seq(Items) /\ Len(q) = k + n /\ k + n \in Nat  BY <1>1, <1>3
  <2>. HIDE DEF q
  <2>2. /\ Append(q, x) \in Seq(Items) /\ Len(Append(q, x)) = Len(q) + 1
        /\ \A i \in 1 .. Len(q) : Append(q, x)[i] = q[i]
        /\ Append(q, x)[Len(q) + 1] = x
    BY <2>1, AppendProperties
  <2>3. \A i \in 1 .. k + n + 1 :
           Append(q, x)[i] = IF i <= k + n THEN q[i] ELSE x
    BY <1>1, <2>1, <2>2
  <2>4. Append(q, x) \in Seq(Items) /\ Len(Append(q, x)) = k + n + 1  BY <2>1, <2>2
  <2>. QED  BY <2>3, <2>4 DEF q
<1>5. ASSUME NEW i \in 1 .. k + n + 1 PROVE l[i] = r[i]
  <2>1. CASE i <= k
    <3>1. i \in 1 .. k + n /\ i <= k + n  BY <1>1, <2>1
    <3>. QED  BY <1>2, <1>3, <1>4, <2>1, <3>1
  <2>2. CASE ~(i <= k) /\ i <= k + n
    <3>1. i \in 1 .. k + n /\ i - k \in 1 .. n + 1 /\ i - k <= n  BY <1>1, <2>2
    <3>2. r[i] = s[i - k]  BY <1>3, <1>4, <2>2, <3>1
    <3>3. l[i] = s[i - k]  BY <1>1, <1>2, <2>2, <3>1
    <3>. QED  BY <3>2, <3>3
  <2>3. CASE ~(i <= k + n)
    <3>1. ~(i <= k) /\ i - k \in 1 .. n + 1 /\ ~(i - k <= n)  BY <1>1, <2>3
    <3>. QED  BY <1>1, <1>2, <1>4, <2>3, <3>1
  <2>. QED  BY <2>1, <2>2, <2>3
<1>. HIDE DEF l, r
<1>6. l = r  BY <1>2, <1>4, <1>5, SeqEqual
<1>. QED  BY <1>6 DEF l, r

\* The last item of the last part is the last of the whole, and what is left
\* of the part when it is taken is what is left of the whole.
LEMMA TakeFromEnd ==
    ASSUME NEW p \in Seq(Items), NEW s \in Seq(Items), Len(s) > 0
    PROVE  LET w == p \o s
           IN  /\ w # <<>> /\ w[Len(w)] = s[Len(s)]
               /\ p \o SubSeq(s, 1, Len(s) - 1) = SubSeq(w, 1, Len(w) - 1)
<1>. DEFINE w == p \o s
            k == Len(p)
            n == Len(s)
            f == SubSeq(s, 1, n - 1)
            l == p \o f
            r == SubSeq(w, 1, Len(w) - 1)
<1>1. k \in Nat /\ n \in Nat /\ n > 0  BY LenProperties
<1>0. ASSUME NEW q \in Seq(Items), Len(q) > 0
      PROVE  /\ SubSeq(q, 1, Len(q) - 1) \in Seq(Items)
             /\ Len(SubSeq(q, 1, Len(q) - 1)) = Len(q) - 1
             /\ \A i \in 1 .. Len(q) - 1 : SubSeq(q, 1, Len(q) - 1)[i] = q[i]
  BY <1>0, FrontIs
<1>2. /\ w \in Seq(Items) /\ Len(w) = k + n
      /\ \A i \in 1 .. k + n : w[i] = IF i <= k THEN p[i] ELSE s[i - k]
  BY ConcatProperties
<1>3. f \in Seq(Items) /\ Len(f) = n - 1 /\ \A i \in 1 .. n - 1 : f[i] = s[i]
  BY <1>0
<1>. HIDE DEF w, f
<1>4. /\ l \in Seq(Items) /\ Len(l) = k + (n - 1)
      /\ \A i \in 1 .. k + (n - 1) : l[i] = IF i <= k THEN p[i] ELSE f[i - k]
  <2>. HIDE DEF n
  <2>1. /\ l \in Seq(Items) /\ Len(l) = Len(p) + Len(f)
        /\ \A i \in 1 .. Len(p) + Len(f) :
             l[i] = IF i <= Len(p) THEN p[i] ELSE f[i - Len(p)]
    BY <1>3, ConcatProperties
  <2>. QED  BY <1>3, <2>1
<1>5. /\ r \in Seq(Items) /\ Len(r) = k + n - 1
      /\ \A i \in 1 .. k + n - 1 : r[i] = w[i]
  <2>1. Len(w) > 0  BY <1>1, <1>2
  <2>. QED  BY <1>0, <1>2, <2>1
<1>6. ASSUME NEW i \in 1 .. k + n - 1 PROVE l[i] = r[i]
  <2>1. i \in 1 .. k + (n - 1) /\ i \in 1 .. k + n  BY <1>1
  <2>2. CASE i <= k  BY <1>2, <1>4, <1>5, <2>1, <2>2
  <2>3. CASE ~(i <= k)
    <3>1. i - k \in 1 .. n - 1  BY <1>1, <2>3
    <3>2. l[i] = s[i - k]  BY <1>3, <1>4, <2>1, <2>3, <3>1
    <3>3. r[i] = s[i - k]  BY <1>2, <1>5, <2>1, <2>3
    <3>. QED  BY <3>2, <3>3
  <2>. QED  BY <2>2, <2>3
<1>. HIDE DEF l, r
<1>7. l = r
  <2>1. Len(l) = Len(r) /\ Len(l) = k + n - 1  BY <1>1, <1>4, <1>5
  <2>. QED  BY <1>4, <1>5, <1>6, <2>1, SeqEqual
<1>8. w[Len(w)] = s[n]
  <2>1. Len(w) \in 1 .. k + n /\ ~(Len(w) <= k) /\ Len(w) - k = n  BY <1>1, <1>2
  <2>. QED  BY <1>2, <2>1
<1>9. w # <<>>
  <2>1. Len(w) # 0  BY <1>1, <1>2
  <2>. QED  BY <2>1, EmptySeq
<1>. QED  BY <1>7, <1>8, <1>9 DEF w, f, l, r

\* While no I/O call fails each step of the only caller is a push or a pop of
\* the one stack, or changes nothing of it.
LEMMA StepIsLifo ==
    SoloInv /\ SoloInv' /\ [Next]_vars /\ faults' = 0 => [Lifo!LifoNext]_(Lifo!lifoVars)
<1>0. Lifo!lifoVars = <<LifoContent, gone>> /\ Lifo!lifoVars' = <<LifoContent, gone>>'
  BY DEF Lifo!lifoVars
<1>. SUFFICES ASSUME SoloInv, SoloInv', [Next]_vars, faults' = 0
              PROVE  Lifo!LifoNext \/ UNCHANGED <<LifoContent, gone>>
  BY <1>0
<1>1. /\ ConsInv /\ ConsInv' /\ DiskInv /\ DiskInv'
  BY DEF SoloInv, ConsInv
<1>2. /\ faults = 0
      /\ \/ Steady
         \/ Reloading
         \/ \E t \in Threads : Step(t) /\ Effect(t)
  BY <1>1, NextEffect
<1>3. /\ AbsContent \in BlockLists /\ Len(AbsContent) = ncells /\ ncells \in Nat
      /\ AbsContent = [i \in 1 .. ncells |-> Contents(i - 1)]
  BY <1>1, <1>2, ContentIs DEF BlockLists
<1>4. ASSUME NEW b \in 0 .. ncells - 1, b = top
      PROVE  /\ b + 1 \in 1 .. Len(AbsContent)
             /\ \A j \in b + 1 + 1 .. Len(AbsContent) : AbsContent[j] = <<>>
  <2>1. TopIsLast  BY <1>2 DEF SoloInv
  <2>2. \A j \in b + 1 + 1 .. ncells : j - 1 \in top + 1 .. ncells - 1 /\ j \in 1 .. ncells
    BY <1>3, <1>4
  <2>. QED  BY <1>3, <2>1, <2>2 DEF TopIsLast
<1>5. CASE SameBlocks /\ gone' = gone
  BY <1>1, <1>2, <1>5, SameContent DEF LifoContent
<1>6. ASSUME NEW t \in Threads, Effect(t)
      PROVE  Lifo!LifoNext \/ UNCHANGED <<LifoContent, gone>>
  <2>0. AtTop(t)  BY <1>2 DEF SoloInv
  <2>1. CASE Steady \/ Retreating(t)  BY <1>5, <2>1 DEF Steady, Retreating
  <2>2. CASE NewBlock
    <3>1. AbsContent' = Append(AbsContent, <<>>) /\ gone' = gone
      BY <1>1, <1>2, <2>2, NewContent DEF NewBlock
    <3>. QED  BY <1>3, <3>1, FlattenNew DEF LifoContent
  <2>3. CASE \E b \in 0 .. ncells - 1 : Landing(t, b)
    <3>1. PICK b \in 0 .. ncells - 1 : Landing(t, b)  BY <2>3
    <3>. DEFINE x == arg[t]
                s == AbsContent[b + 1]
    <3>2. b = top /\ gone' = gone  BY <2>0, <3>1 DEF Landing, AtTop
    <3>3. /\ x \in Items \ gone /\ b + 1 \in 1 .. Len(AbsContent)
          /\ AbsContent' = [AbsContent EXCEPT ![b + 1] = Append(s, x)]
      BY <1>1, <1>2, <3>1, LandingItems
    <3>4. s \in Seq(Items) /\ Append(s, x) \in Seq(Items)
      BY <1>3, <3>3, ElementOfSeq, AppendProperties DEF BlockLists
    <3>5. PICK p \in Seq(Items) :
             /\ FlattenSeq(AbsContent) = p \o s
             /\ \A q \in Seq(Items) : FlattenSeq([AbsContent EXCEPT ![b + 1] = q]) = p \o q
      BY <1>3, <1>4, <3>2, FlattenAround
    <3>6. LifoContent' = p \o Append(s, x)
      <4>1. LifoContent' = FlattenSeq([AbsContent EXCEPT ![b + 1] = Append(s, x)])
        BY <3>3 DEF LifoContent
      <4>. HIDE DEF s, x
      <4>. QED  BY <3>4, <3>5, <4>1
    <3>7. LifoContent' = Append(LifoContent, x)
      BY <3>3, <3>4, <3>5, <3>6, PutOnEnd DEF LifoContent
    <3>. QED  BY <3>2, <3>3, <3>7 DEF Lifo!LifoNext, Lifo!Push
  <2>4. CASE \E b \in 0 .. ncells - 1 : Taking(t, b)
    <3>1. PICK b \in 0 .. ncells - 1 : Taking(t, b)  BY <2>4
    <3>. DEFINE s == AbsContent[b + 1]
                f == SubSeq(s, 1, Len(s) - 1)
    <3>2. b = top  BY <2>0, <3>1 DEF Taking, AtTop
    <3>3. /\ Len(s) > 0 /\ b + 1 \in 1 .. Len(AbsContent)
          /\ AbsContent' = [AbsContent EXCEPT ![b + 1] = f]
          /\ gone' = gone \union {s[Len(s)]}
      BY <1>1, <1>2, <3>1, TakingItems
    <3>4. s \in Seq(Items) /\ f \in Seq(Items)
      <4>1. s \in Seq(Items)  BY <1>3, <3>3, ElementOfSeq DEF BlockLists
      <4>. QED  BY <3>3, <4>1, FrontIs
    <3>5. PICK p \in Seq(Items) :
             /\ FlattenSeq(AbsContent) = p \o s
             /\ \A q \in Seq(Items) : FlattenSeq([AbsContent EXCEPT ![b + 1] = q]) = p \o q
      BY <1>3, <1>4, <3>2, FlattenAround
    <3>6. LifoContent' = p \o f
      <4>1. LifoContent' = FlattenSeq([AbsContent EXCEPT ![b + 1] = f])
        BY <3>3 DEF LifoContent
      <4>. HIDE DEF f
      <4>. QED  BY <3>4, <3>5, <4>1
    <3>7. LifoContent = p \o s  BY <3>5 DEF LifoContent
    <3>8. /\ LifoContent # <<>> /\ LifoContent[Len(LifoContent)] = s[Len(s)]
          /\ LifoContent' = SubSeq(LifoContent, 1, Len(LifoContent) - 1)
      <4>1. LET w == p \o s
            IN  /\ w # <<>> /\ w[Len(w)] = s[Len(s)]
                /\ p \o f = SubSeq(w, 1, Len(w) - 1)
        <5>. HIDE DEF s
        <5>. QED  BY <3>3, <3>4, TakeFromEnd
      <4>. HIDE DEF f, s
      <4>. QED  BY <3>6, <3>7, <4>1
    <3>. QED  BY <3>3, <3>8 DEF Lifo!LifoNext, Lifo!Pop
  <2>. QED  BY <1>6, <2>1, <2>2, <2>3, <2>4 DEF Effect
<1>. QED  BY <1>2, <1>5, <1>6 DEF Steady, Reloading

\* A file just opened is a stack of items, of which none is popped.
LEMMA InitIsLifo == SoloInv /\ Init => Lifo!LifoInit
<1>. SUFFICES ASSUME SoloInv, Init PROVE Lifo!LifoInit  OBVIOUS
<1>1. gone = {} /\ faults = 0 /\ DiskInv  BY DEF Init, SoloInv, ConsInv
<1>2. AbsContent \in BlockLists /\ Len(AbsContent) \in Nat  BY <1>1, ContentIs DEF BlockLists
<1>3. LifoContent \in Seq(Items)
  <2>1. CASE Len(AbsContent) > 0
    <3>1. PICK f : Joins(f, AbsContent) /\ LifoContent = f[Len(AbsContent)]
      BY <1>2, <2>1, FlattenIsJoin DEF LifoContent
    <3>2. Len(AbsContent) \in 1 .. Len(AbsContent)  BY <1>2, <2>1
    <3>. QED  BY <1>2, <3>1, <3>2, JoinIs
  <2>2. CASE ~(Len(AbsContent) > 0)
    <3>1. AbsContent = <<>>  BY <1>2, <2>2, EmptySeq DEF BlockLists
    <3>2. LifoContent = <<>>  BY <2>2, <3>1 DEF LifoContent, FlattenSeq
    <3>. QED  BY <3>2, EmptySeq
  <2>. QED  BY <1>2, <2>1, <2>2
<1>. QED  BY <1>1, <1>3 DEF Lifo!LifoInit

\* LifoImplemented: to one caller, and while no I/O call fails, the file of
\* blocks is one stack: each push goes on its end and each pop returns its last
\* item, through eviction, reload, spills, retreats, close and reopen
\* (stacks.rs:48-51).
THEOREM LifoImplemented == OneCaller /\ Spec /\ [](faults = 0) => ImplementsLifo
<1>1. SoloInv /\ Init => Lifo!LifoInit  BY InitIsLifo
<1>2. SoloInv /\ SoloInv' /\ [Next]_vars /\ (faults = 0)' => [Lifo!LifoNext]_(Lifo!lifoVars)
  BY StepIsLifo
<1>. QED  BY <1>1, <1>2, SoloSafe, PTL DEF Spec, ImplementsLifo, Lifo!LifoSpec
=============================================================================
