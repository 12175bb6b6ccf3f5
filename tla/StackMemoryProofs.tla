-------------------------- MODULE StackMemoryProofs --------------------------
(***************************************************************************)
(* The theorems about StackMemory: its safety properties hold for every    *)
(* value of the constants, and it implements TwoStacks.                    *)
(***************************************************************************)
EXTENDS StackMemoryInvariant

\* Both stack pointers stay in the segment, every word stays in the width of a
\* db_int and errcode in a byte, whatever is called in whatever order.
THEOREM TypeCorrect == Spec => []TypeOK
  <1>1. IInv => TypeOK
    BY DEF IInv
  <1> QED
    BY <1>1, SpecIInv, PTL

\* The stacks never collide and no two blocks share a byte: the room checks of
\* falloc, balloc and fextend suffice, and that of bextend under BExtendRule.
THEOREM StacksDisjoint == Spec => []BlocksDisjoint
  <1>1. IInv => BlocksDisjoint
    BY DEF IInv, FrontInv, BackInv, BlocksDisjoint
  <1> QED
    BY <1>1, SpecIInv, PTL

\* The words in the segment describe exactly the blocks handed out, in every
\* order of allocations, extensions and frees.
THEOREM ShapeKept == Spec => []SegmentShape
  <1>1. IInv => SegmentShape
    BY DEF IInv, FrontInv, BackInv, SegmentShape
  <1> QED
    BY <1>1, SpecIInv, PTL

\* The size word of every held block keeps the size the client asked for.
THEOREM SizesKept == Spec => []SizesIntact
  <1>1. IInv => SizesIntact
    BY FrontBlock, BackBlock DEF IInv, SizesIntact
  <1> QED
    BY <1>1, SpecIInv, PTL

\* The size macros of the header are right about held blocks: no flag is left in
\* the word they read, and the link of the top front block leads to its own size
\* word as long as the block under it is held.
THEOREM SizesRead == Spec => []TopSizes
  <1>1. IInv => TopSizes
    <2> SUFFICES ASSUME IInv, pc = "idle" PROVE TopSizes
      BY DEF TopSizes
    <2>1. ASSUME NEW b \in bblk, b.live
          PROVE  /\ DB_QMM_SIZEOF_BCHUNK(b.at + IntSize) = b.size
                 /\ b.at = last_back => DB_QMM_SIZEOF_BTOP = b.size
      <3>1. b.at \in Nat /\ (b.at + IntSize) - IntSize = b.at
        BY BackBlock, SizesAssumption DEF IInv, Addr
      <3>2. mem[b.at] = b.size
        BY <2>1 DEF IInv, BackInv, BackShape
      <3> QED
        BY <3>1, <3>2 DEF DB_QMM_SIZEOF_BCHUNK, DB_QMM_SIZEOF_BTOP
    <2>2. ASSUME FExtendRule, NEW b \in fblk, b.live, FEnd(b) = next_front
          PROVE  DB_QMM_SIZEOF_FTOP = b.size
      <3>1. ~FreedBelow(b.at)
        BY <2>2 DEF FExtendRule, FreedBelow
      <3>2. mem[b.at] = b.size /\ mem[LinkAt(b.at, b.size)] = b.at
        BY <3>1 DEF IInv, FrontInv, FrontShape
      <3>3. next_front - PtrSize = LinkAt(b.at, b.size)
        BY <2>2, FrontBlock, SizesAssumption DEF IInv, FEnd, LinkAt, Addr
      <3> QED
        BY <3>2, <3>3 DEF DB_QMM_SIZEOF_FTOP
    <2> QED
      BY <2>1, <2>2 DEF TopSizes
  <1> QED
    BY <1>1, SpecIInv, PTL

\* After every ffree and its loop, the front stack ends where its topmost held
\* block does: no order of frees leaks space above it.
THEOREM FrontReclaimed == Spec => []FrontTight
  <1>1. IInv => FrontTight
    <2> SUFFICES ASSUME IInv, pc = "idle"
                 PROVE  \/ next_front = 0 /\ \A b \in fblk : ~b.live
                        \/ \E b \in fblk : b.live /\ FEnd(b) = next_front
      BY DEF FrontTight
    <2>1. CASE next_front = 0
      <3>1. ASSUME NEW b \in fblk PROVE FALSE
        BY <2>1, FrontBlock DEF IInv, Addr
      <3> QED
        BY <2>1, <3>1
    <2>2. CASE \E b \in fblk : FEnd(b) = next_front
      BY <2>2, IdleTops DEF FreedBelow
    <2> QED
      BY <2>1, <2>2 DEF IInv, FrontInv, FrontShape
  <1> QED
    BY <1>1, SpecIInv, PTL

\* The same of the back stack and bfree.
THEOREM BackReclaimed == Spec => []BackTight
  <1>1. IInv => BackTight
    <2> SUFFICES ASSUME IInv, pc = "idle"
                 PROVE  \/ last_back = SegSize /\ \A b \in bblk : ~b.live
                        \/ \E b \in bblk : b.live /\ b.at = last_back
      BY DEF BackTight
    <2>1. CASE last_back = SegSize
      <3>1. ASSUME NEW b \in bblk PROVE FALSE
        BY <2>1, BackBlock, SizesAssumption DEF IInv, Addr
      <3> QED
        BY <2>1, <3>1
    <2>2. CASE \E b \in bblk : b.at = last_back
      BY <2>2, IdleTops
    <2> QED
      BY <2>1, <2>2 DEF IInv, BackInv, BackShape
  <1> QED
    BY <1>1, SpecIInv, PTL

(***************************************************************************)
(* The peak of the space in use.                                           *)
(***************************************************************************)
\* The free functions, the clears and the client only give space back.
Releases ==
  next_front' <= next_front /\ last_back <= last_back' /\ UNCHANGED maxused

\* The less the stacks reach into the segment, the less of it is in use.
LEMMA UsedMonotone ==
  ASSUME NEW f \in Nat, NEW l \in Nat, NEW g \in Nat, NEW m \in Nat, g <= f, l <= m
  PROVE  Used(g, m) \in Int /\ Used(f, l) \in Int /\ Used(g, m) <= Used(f, l)
  BY SizesAssumption DEF Used

\* db_qmm_ffree and its loop lower next_front or leave it alone.
LEMMA FrontReleases ==
  ASSUME IInv, FFreeLoop \/ \E b \in fblk : FFree(b)
  PROVE  Releases
  <1>1. next_front \in Nat /\ last_back \in Nat
    BY DEF IInv, TypeOK
  <1>2. ASSUME NEW c \in fblk, next_front' = mem[LinkAt(c.at, c.size)]
        PROVE  next_front' <= next_front
    <2>1. CASE FreedBelow(c.at)
      BY <1>1, <1>2, <2>1, FrontBlock DEF IInv, FrontInv, FrontShape, FreedBelow, Addr
    <2>2. CASE ~FreedBelow(c.at)
      BY <1>1, <1>2, <2>2, FrontBlock DEF IInv, FrontInv, FrontShape, Addr
    <2> QED
      BY <2>1, <2>2
  <1>3. CASE FFreeLoop
    <2>1. CASE ffree_pops /\ next_front' = ffree_next
      <3>1. PICK c \in fblk : FEnd(c) = next_front
        BY <1>3, <2>1 DEF FFreeLoop, ffree_loop, ffree_pops, IInv, FrontInv, FrontShape
      <3>2. ffree_next = mem[LinkAt(c.at, c.size)]
        BY <3>1, FrontBlock, FrontTypes DEF IInv, ffree_next
      <3> QED
        BY <1>1, <1>2, <1>3, <2>1, <3>2 DEF FFreeLoop, ffree_loop, Releases
    <2>2. CASE UNCHANGED next_front
      BY <1>1, <1>3, <2>2 DEF FFreeLoop, ffree_loop, Releases
    <2> QED
      BY <1>3, <2>1, <2>2 DEF FFreeLoop, ffree_loop
  <1>4. ASSUME NEW b \in fblk, FFree(b)
        PROVE  Releases
    <2> DEFINE ptr == b.at + IntSize
               at == ptr - IntSize
               size == SizeOf(mem[at])
    <2>1. at = b.at /\ size = b.size
      BY FrontBlock, SizesAssumption DEF IInv, Addr
    <2>2. /\ UNCHANGED <<last_back, maxused>>
          /\ next_front' = next_front \/ next_front' = mem[LinkAt(at, size)]
      BY <1>4 DEF FFree, db_qmm_ffree, Fail
    <2> HIDE DEF at, size
    <2> QED
      BY <1>1, <1>2, <2>1, <2>2 DEF Releases
  <1> QED
    BY <1>3, <1>4

\* db_qmm_bfree and its loop raise last_back or leave it alone.
LEMMA BackReleases ==
  ASSUME IInv, BFreeLoop \/ \E b \in bblk : BFree(b)
  PROVE  Releases
  <1>1. next_front \in Nat /\ last_back \in 0 .. SegSize /\ mem \in [Addr -> Word]
    BY DEF IInv, TypeOK
  <1>2. CASE BFreeLoop
    <2>1. CASE bfree_pops /\ last_back' = last_back + IntSize + SizeOf(mem[last_back])
      <3>1. SizeOf(mem[last_back]) \in Nat
        BY <1>1, <2>1, SizeOfWord, SizesAssumption DEF bfree_pops, Addr
      <3> QED
        BY <1>1, <1>2, <2>1, <3>1, SizesAssumption DEF BFreeLoop, bfree_loop, Releases
    <2>2. CASE UNCHANGED last_back
      BY <1>1, <1>2, <2>2 DEF BFreeLoop, bfree_loop, Releases
    <2> QED
      BY <1>2, <2>1, <2>2 DEF BFreeLoop, bfree_loop
  <1>3. ASSUME NEW b \in bblk, BFree(b)
        PROVE  Releases
    <2> DEFINE ptr == b.at + IntSize
               at == ptr - IntSize
               size == SizeOf(mem[at])
    <2>1. at = b.at /\ size = b.size /\ b.at \in Nat /\ b.size \in Nat /\ last_back <= b.at
      BY BackBlock, SizesAssumption DEF IInv, Addr
    <2>2. /\ UNCHANGED <<next_front, maxused>>
          /\ last_back' = last_back \/ last_back' = ptr + size
      BY <1>3 DEF BFree, db_qmm_bfree, Fail
    <2>3. last_back <= ptr + size
      <3> HIDE DEF at, size
      <3> QED
        BY <1>1, <2>1, SizesAssumption
    <2> HIDE DEF ptr, size
    <2> QED
      BY <1>1, <2>2, <2>3 DEF Releases
  <1> QED
    BY <1>2, <1>3

\* In a profiling build maxused is a bound on the space in use: no call takes
\* space without raising it, and the frees only give space back.
THEOREM PeakRecorded == Spec => []MaxUsedCoversUse
  <1>1. Init => MaxUsedCoversUse
    BY SizesAssumption DEF Init, init_query_mm, MaxUsedCoversUse, Used
  <1>2. ASSUME IInv, MaxUsedCoversUse, [Next]_vars
        PROVE  MaxUsedCoversUse'
    <2>1. /\ next_front \in Nat /\ last_back \in Nat /\ maxused \in Nat
          /\ next_front' \in Nat /\ last_back' \in Nat
      BY <1>2, NextIInv DEF IInv, TypeOK
    <2>2. CASE Releases
      <3>1. /\ Used(next_front', last_back') \in Int
            /\ Used(next_front, last_back) \in Int
            /\ Used(next_front', last_back') <= Used(next_front, last_back)
        BY <2>1, <2>2, UsedMonotone DEF Releases
      <3>2. SUFFICES ASSUME Profiled
                     PROVE  Used(next_front', last_back') <= maxused
        BY <2>2 DEF MaxUsedCoversUse, Releases
      <3>3. Used(next_front, last_back) <= maxused
        BY <1>2, <3>2 DEF MaxUsedCoversUse
      <3> QED
        BY <2>1, <3>1, <3>3
    <2>3. ASSUME NEW f, NEW l, Move(f, l)
          PROVE  MaxUsedCoversUse'
      <3>1. f \in Nat /\ l \in Nat /\ Used(f, l) \in Int
        BY <2>1, <2>3, SizesAssumption DEF Move, Used
      <3>2. Used(next_front, last_back)' = Used(f, l)
        BY <2>3 DEF Move, Used
      <3> QED
        BY <2>1, <2>3, <3>1, <3>2 DEF Move, MaxUsedCoversUse
    <2>4. CASE UNCHANGED <<next_front, last_back, maxused>>
      BY <2>1, <2>2, <2>4 DEF Releases
    <2>5. ASSUME NEW n \in Requests, FAlloc(n) \/ BAlloc(n) \/ FExtend(n) \/ BExtend(n)
          PROVE  MaxUsedCoversUse'
      <3>1. \/ UNCHANGED <<next_front, last_back, maxused>>
            \/ \E f, l : Move(f, l)
        BY <2>5 DEF FAlloc, db_qmm_falloc, BAlloc, db_qmm_balloc,
                    FExtend, db_qmm_fextend, BExtend, db_qmm_bextend, Fail
      <3> QED
        BY <2>3, <2>4, <3>1
    <2>6. CASE FFreeLoop \/ BFreeLoop \/ (\E b \in fblk : FFree(b)) \/ \E b \in bblk : BFree(b)
      BY <1>2, <2>2, <2>6, FrontReleases, BackReleases
    <2>7. CASE \E at \in Strays : FFreeStray(at) \/ BFreeStray(at)
      BY <1>2, <2>4, <2>7, FFreeStrayKeeps, BFreeStrayKeeps DEF Fail
    <2>8. CASE FClear \/ BClear
      <3>1. Releases
        BY <1>2, <2>1, <2>8
           DEF FClear, db_qmm_fclear, BClear, db_qmm_bclear, Releases, IInv, TypeOK
      <3> QED
        BY <2>2, <3>1
    <2>9. CASE UNCHANGED vars \/ \E b \in fblk \cup bblk, w \in Data : Fill(b, w)
      BY <2>4, <2>9 DEF vars, Fill
    <2> QED
      BY <1>2, <2>5, <2>6, <2>7, <2>8, <2>9 DEF Next, Call, Loop
  <1> QED
    BY <1>1, <1>2, SpecIInv, PTL DEF Spec

(***************************************************************************)
(* The data of the client.                                                 *)
(***************************************************************************)
\* The addresses the manager may write to: a size word or link of a block, or
\* the space from the link of the top block to the back stack.
Bookkeeping(a) ==
  \/ \E c \in fblk : a = c.at \/ a = LinkAt(c.at, c.size)
  \/ \E c \in bblk : a = c.at
  \/ next_front - PtrSize <= a /\ a < last_back

\* A step that writes only there leaves every payload alone.
LEMMA PayloadSpared ==
  ASSUME IInv, NEW b \in fblk \cup bblk,
         \A a \in Addr : Bookkeeping(a) \/ mem'[a] = mem[a]
  PROVE  \A a \in Payload(b) : mem'[a] = mem[a]
  <1> SUFFICES ASSUME NEW a \in Payload(b)
               PROVE  a \in Addr /\ ~Bookkeeping(a)
    OBVIOUS
  <1>1. /\ b.at \in Nat /\ b.size \in Nat /\ next_front \in Nat /\ last_back \in Nat
        /\ a \in Int /\ b.at + IntSize <= a /\ a < b.at + IntSize + b.size
    BY SizesAssumption DEF IInv, TypeOK, Block, Addr, Payload
  <1>2. a \in Addr
    <2>1. CASE b \in fblk
      BY <1>1, <2>1, FrontBlock, SizesAssumption DEF IInv, TypeOK, FEnd, Addr
    <2>2. CASE b \in bblk
      BY <1>1, <2>2, BackBlock, SizesAssumption DEF IInv, BEnd, Addr
    <2> QED
      BY <2>1, <2>2
  <1>3. a < next_front - PtrSize \/ last_back <= a
    <2>1. CASE b \in fblk
      <3>1. b.at + IntSize + b.size + PtrSize <= next_front
        BY <2>1, FrontBlock DEF IInv, FEnd
      <3> QED
        BY <1>1, <3>1, SizesAssumption
    <2>2. CASE b \in bblk
      <3>1. last_back <= b.at
        BY <2>2, BackBlock DEF IInv
      <3> QED
        BY <1>1, <3>1, SizesAssumption
    <2> QED
      BY <2>1, <2>2
  <1>4. ~(next_front - PtrSize <= a /\ a < last_back)
    BY <1>1, <1>3, SizesAssumption
  <1> QED
    BY <1>2, <1>4, WordsOutsidePayloads DEF Bookkeeping

\* db_qmm_falloc and db_qmm_balloc write in the gap between the stacks.
LEMMA AllocWrites ==
  ASSUME IInv, NEW n \in Requests, FAlloc(n) \/ BAlloc(n),
         NEW a \in Addr
  PROVE  Bookkeeping(a) \/ mem'[a] = mem[a]
  <1>1. /\ next_front \in Nat /\ last_back \in Nat /\ n \in Nat /\ a \in Nat
        /\ mem \in [Addr -> Word]
    BY ClientAssumption DEF IInv, TypeOK, Addr
  <1>2. CASE mem' = mem
    BY <1>2
  <1>3. CASE /\ ~falloc_collides(n)
             /\ mem' = [mem EXCEPT ![next_front] = n,
                                   ![LinkAt(next_front, n)] = next_front]
    <2>1. next_front + n + IntSize + PtrSize <= last_back
      BY <1>1, <1>3, SizesAssumption DEF falloc_collides
    <2>2. a = next_front \/ a = next_front + IntSize + n \/ mem'[a] = mem[a]
      BY <1>1, <1>3 DEF LinkAt
    <2>3. a = next_front \/ a = next_front + IntSize + n
            => next_front - PtrSize <= a /\ a < last_back
      BY <1>1, <2>1, SizesAssumption
    <2> QED
      BY <2>2, <2>3 DEF Bookkeeping
  <1>4. CASE /\ ~balloc_collides(n)
             /\ mem' = [mem EXCEPT ![last_back - (n + IntSize)] = n]
    <2>1. next_front + n + IntSize <= last_back
      BY <1>1, <1>4, SizesAssumption DEF balloc_collides
    <2>2. a = last_back - (n + IntSize) \/ mem'[a] = mem[a]
      BY <1>1, <1>4
    <2>3. a = last_back - (n + IntSize) => next_front - PtrSize <= a /\ a < last_back
      BY <1>1, <2>1, SizesAssumption
    <2> QED
      BY <2>2, <2>3 DEF Bookkeeping
  <1> QED
    BY <1>2, <1>3, <1>4 DEF FAlloc, db_qmm_falloc, BAlloc, db_qmm_balloc, Fail

\* db_qmm_ffree writes the size word and the link of the block above the one
\* freed, db_qmm_bfree the size word of the block itself.
LEMMA FreeWrites ==
  ASSUME IInv, (\E b \in fblk : FFree(b)) \/ \E b \in bblk : BFree(b),
         NEW a \in Addr
  PROVE  Bookkeeping(a) \/ mem'[a] = mem[a]
  <1>1. mem \in [Addr -> Word] /\ next_front \in Nat
    BY DEF IInv, TypeOK
  <1>2. ASSUME NEW b \in fblk, FFree(b)
        PROVE  Bookkeeping(a) \/ mem'[a] = mem[a]
    <2> DEFINE ptr == b.at + IntSize
               at == ptr - IntSize
               next == ptr + SizeOf(mem[at]) + PtrSize
    <2>1. at = b.at /\ next = FEnd(b)
      <3>1. at = b.at
        BY FrontBlock, SizesAssumption DEF IInv, Addr
      <3> HIDE DEF at
      <3> QED
        BY <3>1, FrontBlock DEF IInv, FEnd
    <2>2. \/ mem' = mem
          \/ /\ next < next_front /\ ~Flagged(mem[next])
             /\ \E v, w : mem' = [mem EXCEPT ![next] = v, ![LinkAt(next, mem[next])] = w]
      BY <1>2 DEF FFree, db_qmm_ffree, Fail
    <2> HIDE DEF at, next
    <2>3. CASE FEnd(b) < next_front /\ ~Flagged(mem[FEnd(b)])
      <3>1. PICK c \in fblk : c.at = FEnd(b)
        BY <1>1, <2>3, FrontBlock DEF IInv, FrontInv, FrontShape
      <3>2. mem[FEnd(b)] = c.size
        BY <2>3, <3>1, FrontBlock DEF IInv, FrontInv, FrontShape
      <3>3. a = c.at \/ a = LinkAt(c.at, c.size) \/ mem'[a] = mem[a]
        BY <1>1, <2>1, <2>2, <3>1, <3>2
      <3> QED
        BY <3>3 DEF Bookkeeping
    <2> QED
      BY <2>1, <2>2, <2>3
  <1>3. ASSUME NEW b \in bblk, BFree(b)
        PROVE  Bookkeeping(a) \/ mem'[a] = mem[a]
    <2> DEFINE ptr == b.at + IntSize
               at == ptr - IntSize
    <2>1. at = b.at
      BY BackBlock, SizesAssumption DEF IInv, Addr
    <2>2. mem' = mem \/ \E v : mem' = [mem EXCEPT ![at] = v]
      BY <1>3 DEF BFree, db_qmm_bfree, Fail
    <2> HIDE DEF at
    <2>3. a = b.at \/ mem'[a] = mem[a]
      BY <1>1, <2>1, <2>2
    <2> QED
      BY <2>3 DEF Bookkeeping
  <1> QED
    BY <1>2, <1>3

\* The extends write the size word of the outermost block and, beyond it, in
\* the gap.
LEMMA ExtendWrites ==
  ASSUME IInv, NEW n \in Requests, NEW a \in Addr,
         (FExtendRule /\ FExtend(n)) \/ (BExtendRule(n) /\ BExtend(n))
  PROVE  Bookkeeping(a) \/ mem'[a] = mem[a]
  <1>1. /\ next_front \in Nat /\ last_back \in Nat /\ n \in Nat /\ a \in Nat
        /\ mem \in [Addr -> Word]
    BY ClientAssumption DEF IInv, TypeOK, Addr
  <1>2. CASE mem' = mem
    BY <1>2
  <1>3. ASSUME FExtendRule, FExtend(n), mem' # mem
        PROVE  Bookkeeping(a) \/ mem'[a] = mem[a]
    <2> DEFINE at == mem[next_front - PtrSize]
               size == SizeOf(mem[at]) + n
    <2>1. /\ next_front > 0 /\ next_front + n <= last_back
          /\ Move(next_front + n, last_back)
          /\ mem' = [mem EXCEPT
                       ![at] = grown(@, n),
                       ![next_front + n - PtrSize] =
                         next_front + n - (size + IntSize + PtrSize)]
          /\ ret' = 1
          /\ UNCHANGED <<errcode, pc>>
      <3>1. db_qmm_fextend(n)
        BY <1>3 DEF FExtend
      <3>2. ~Fail(-2, -1) /\ ~Fail(-7, -1) /\ ~Fail(-4, -1)
        BY <1>3 DEF Fail
      <3> QED
        BY <3>1, <3>2 DEF db_qmm_fextend
    <2>2. PICK b \in fblk : FEnd(b) = next_front
      BY <1>3, <2>1 DEF FExtend
    <2>3. at = b.at
      <3>1. ~FreedBelow(b.at)
        BY <1>3, <2>2 DEF FExtendRule, FreedBelow
      <3>2. next_front - PtrSize = LinkAt(b.at, b.size)
        BY <2>2, FrontBlock, FrontTypes DEF IInv
      <3> QED
        BY <3>1, <3>2 DEF IInv, FrontInv, FrontShape
    <2>4. a = b.at \/ a = next_front + n - PtrSize \/ mem'[a] = mem[a]
      <3> HIDE DEF at, size
      <3> QED
        BY <1>1, <2>1, <2>3
    <2>5. a = next_front + n - PtrSize => next_front - PtrSize <= a /\ a < last_back
      BY <1>1, <2>1, SizesAssumption
    <2> QED
      BY <2>4, <2>5 DEF Bookkeeping
  <1>4. ASSUME BExtendRule(n), BExtend(n), mem' # mem
        PROVE  Bookkeeping(a) \/ mem'[a] = mem[a]
    <2>1. /\ n <= last_back /\ ret' = last_back - n + IntSize
          /\ \E v : mem' = [mem EXCEPT ![last_back - n] = v]
      BY <1>4 DEF BExtend, db_qmm_bextend, Fail
    <2>2. PICK b \in bblk : b.at = last_back
      <3>1. ret' # NULL
        BY <1>1, <2>1, SizesAssumption DEF NULL
      <3> QED
        BY <1>4, <3>1 DEF BExtend
    <2>3. a = last_back - n \/ mem'[a] = mem[a]
      BY <1>1, <2>1
    <2>4. a = last_back - n => a = b.at \/ (next_front - PtrSize <= a /\ a < last_back)
      BY <1>1, <1>4, <2>1, <2>2, SizesAssumption DEF BExtendRule
    <2> QED
      BY <2>3, <2>4 DEF Bookkeeping
  <1> QED
    BY <1>2, <1>3, <1>4

\* No call changes the data of a block the client holds, whatever the other
\* blocks go through.
THEOREM ClientDataKept == Spec => DataKept
  <1>1. ASSUME IInv, [Next]_vars
        PROVE  \/ UNCHANGED vars
               \/ \A b \in fblk \cup bblk : b.live => \A a \in Payload(b) : mem'[a] = mem[a]
               \/ \E b \in fblk \cup bblk, w \in Data : Fill(b, w)
    <2>1. CASE \A a \in Addr : Bookkeeping(a) \/ mem'[a] = mem[a]
      BY <1>1, <2>1, PayloadSpared
    <2>2. CASE mem' = mem
      BY <2>2
    <2>3. ASSUME NEW n \in Requests, FAlloc(n) \/ BAlloc(n)
          PROVE  \A a \in Addr : Bookkeeping(a) \/ mem'[a] = mem[a]
      BY <1>1, <2>3, AllocWrites
    <2>4. ASSUME NEW n \in Requests,
                 (FExtendRule /\ FExtend(n)) \/ (BExtendRule(n) /\ BExtend(n))
          PROVE  \A a \in Addr : Bookkeeping(a) \/ mem'[a] = mem[a]
      BY <1>1, <2>4, ExtendWrites
    <2>5. ASSUME (\E b \in fblk : FFree(b)) \/ \E b \in bblk : BFree(b)
          PROVE  \A a \in Addr : Bookkeeping(a) \/ mem'[a] = mem[a]
      BY <1>1, <2>5, FreeWrites
    <2>6. ASSUME \E at \in Strays : FFreeStray(at) \/ BFreeStray(at)
          PROVE  mem' = mem
      BY <1>1, <2>6, FFreeStrayKeeps, BFreeStrayKeeps DEF Fail
    <2>7. ASSUME FClear \/ BClear \/ Loop
          PROVE  mem' = mem
      BY <2>7 DEF FClear, db_qmm_fclear, BClear, db_qmm_bclear,
                  Loop, FFreeLoop, ffree_loop, BFreeLoop, bfree_loop
    <2> QED
      BY <1>1, <2>1, <2>2, <2>3, <2>4, <2>5, <2>6, <2>7 DEF Next, Call
  <1> QED
    BY <1>1, SpecIInv, PTL DEF Spec, DataKept

(***************************************************************************)
(* Freeing twice.                                                          *)
(***************************************************************************)
\* db_qmm_bfree frees no block whose payload starts at the end of the segment,
\* so none is among the fragmented ones: a second bfree passes its range check.
FreedInRange == \A b \in bblk : ~b.live => b.at + IntSize < SegSize

\* Every step keeps FreedInRange: only bfree adds a freed block.
LEMMA FreedInRangeKept ==
  ASSUME IInv, FreedInRange, [Next]_vars
  PROVE  FreedInRange'
  <1>1. CASE \A b \in bblk' : b \in bblk \/ b.live
    BY <1>1 DEF FreedInRange
  <1>2. ASSUME NEW n \in Requests, BExtend(n)
        PROVE  \A b \in bblk' : b \in bblk \/ b.live
    <2>1. ASSUME NEW b \in bblk, b.at = last_back
          PROVE  b.live
      BY <1>2, <2>1, IdleTops DEF BExtend
    <2> QED
      BY <1>2, <2>1 DEF BExtend
  <1>3. ASSUME NEW b \in bblk, BFree(b)
        PROVE  FreedInRange'
    <2>1. CASE ret' = -1
      <3>1. \A c \in bblk' : c \in bblk
        BY <1>3, <2>1 DEF BFree, BKeep, LetGo
      <3> QED
        BY <3>1 DEF FreedInRange
    <2>2. CASE ret' # -1
      <3> DEFINE d == [b EXCEPT !.live = FALSE]
      <3>1. b.at + IntSize < SegSize
        BY <1>3, <2>2 DEF BFree, db_qmm_bfree, Fail
      <3>2. d.at = b.at
        BY BackBlock DEF IInv, Block
      <3>3. \A c \in bblk' : c \in bblk \/ c = d
        BY <1>3, <2>2 DEF BFree, BKeep, LetGo
      <3> HIDE DEF d
      <3> QED
        BY <3>1, <3>2, <3>3 DEF FreedInRange
    <2> QED
      BY <2>1, <2>2
  <1>4. ASSUME NEW n \in Requests, BAlloc(n)
        PROVE  \A b \in bblk' : b \in bblk \/ b.live
    BY <1>4 DEF BAlloc
  <1>5. ASSUME BFreeLoop \/ BClear
        PROVE  \A b \in bblk' : b \in bblk
    BY <1>5 DEF BFreeLoop, BKeep, BClear
  <1>6. CASE UNCHANGED bblk
    BY <1>1, <1>6
  <1>7. ASSUME NEW n \in Requests, FAlloc(n) \/ FExtend(n)
        PROVE  UNCHANGED bblk
    BY <1>7 DEF FAlloc, FExtend
  <1>8. ASSUME \/ FFreeLoop \/ FClear \/ UNCHANGED vars
               \/ \E b \in fblk : FFree(b)
               \/ \E at \in Strays : FFreeStray(at) \/ BFreeStray(at)
               \/ \E b \in fblk \cup bblk, w \in Data : Fill(b, w)
        PROVE  UNCHANGED bblk
    BY <1>8 DEF FFreeLoop, FClear, vars, FFree, FFreeStray, BFreeStray, Fill
  <1> QED
    BY <1>1, <1>2, <1>3, <1>4, <1>5, <1>6, <1>7, <1>8 DEF Next, Call, Loop

\* A second ffree of a fragmented block is refused: the block above is flagged.
LEMMA FFreeTwice ==
  ASSUME IInv, NEW b \in fblk, ~b.live, FFree(b)
  PROVE  ret' = -1 /\ UNCHANGED <<mem, next_front, last_back>>
  <1> DEFINE ptr == b.at + IntSize
             at == ptr - IntSize
             size == SizeOf(mem[at])
             next == ptr + size + PtrSize
  <1>1. at = b.at
    BY FrontBlock, SizesAssumption DEF IInv, Addr
  <1>2. next = FEnd(b)
    <2> HIDE DEF at
    <2> QED
      BY <1>1, FrontBlock DEF IInv, FEnd
  <1>3. FEnd(b) # next_front
    BY IdleTops DEF FreedBelow, FFree
  <1>4. Flagged(mem[FEnd(b)])
    <2>1. PICK c \in fblk : c.at = FEnd(b)
      BY <1>3 DEF IInv, FrontInv, FrontShape
    <2> QED
      BY <2>1, FrontBlock DEF IInv, FreedBelow
  <1>5. Fail(-6, -1) \/ Fail(-5, -1) \/ next = next_front \/ ~Flagged(mem[next])
    BY DEF FFree, db_qmm_ffree
  <1> HIDE DEF next
  <1>6. Fail(-6, -1) \/ Fail(-5, -1)
    BY <1>2, <1>3, <1>4, <1>5
  <1> QED
    BY <1>6 DEF Fail

\* A second bfree of a fragmented block flags it once more.
LEMMA BFreeTwice ==
  ASSUME IInv, FreedInRange, NEW b \in bblk, ~b.live, BFree(b)
  PROVE  ret' = 0 /\ UNCHANGED <<mem, next_front, last_back>>
  <1> DEFINE ptr == b.at + IntSize
             at == ptr - IntSize
  <1>1. at = b.at /\ ptr < SegSize
    BY BackBlock, SizesAssumption DEF IInv, Addr, FreedInRange
  <1>2. b.at > last_back
    <2>1. b.at # last_back
      BY IdleTops DEF BFree
    <2> QED
      BY <2>1, BackBlock DEF IInv, TypeOK, Addr
  <1>3. SetFlag(mem[b.at]) = mem[b.at]
    BY BackBlock DEF IInv, BackInv, BackShape
  <1>4. \/ ptr >= SegSize \/ at < last_back \/ at = last_back
        \/ /\ mem' = [mem EXCEPT ![at] = SetFlag(@)]
           /\ ret' = 0 /\ UNCHANGED <<next_front, last_back>>
    BY DEF BFree, db_qmm_bfree
  <1>5. /\ b.at \in Addr /\ b.at \in Nat /\ last_back \in Nat /\ ptr \in Nat
        /\ mem \in [Addr -> Word] /\ SegSize \in Nat
    BY BackBlock, SizesAssumption DEF IInv, TypeOK, Addr
  <1> HIDE DEF at, ptr
  <1>6. /\ mem' = [mem EXCEPT ![b.at] = SetFlag(@)]
        /\ ret' = 0 /\ UNCHANGED <<next_front, last_back>>
    BY <1>1, <1>2, <1>4, <1>5
  <1>7. mem' = mem
    BY <1>3, <1>5, <1>6
  <1> QED
    BY <1>6, <1>7

\* Freeing a block twice, or a pointer the stack does not reach, changes neither
\* the stacks nor the segment, and the answer is the same every time.
THEOREM DoubleFreeHarmless == Spec => FreedOnce
  <1>1. Init => FreedInRange
    BY DEF Init, FreedInRange
  <1>2. IInv /\ FreedInRange /\ [Next]_vars => FreedInRange'
    BY FreedInRangeKept
  <1>3. ASSUME IInv, FreedInRange
        PROVE  /\ (\/ \E b \in fblk : ~b.live /\ FFree(b)
                   \/ \E at \in Strays : FFreeStray(at) \/ BFreeStray(at))
                    => ret' = -1 /\ UNCHANGED <<mem, next_front, last_back>>
               /\ (\E b \in bblk : ~b.live /\ BFree(b))
                    => ret' = 0 /\ UNCHANGED <<mem, next_front, last_back>>
    BY <1>3, FFreeTwice, BFreeTwice, FFreeStrayKeeps, BFreeStrayKeeps DEF Fail
  <1> QED
    BY <1>1, <1>2, <1>3, SpecIInv, PTL DEF Spec, FreedOnce
------------------------------------------------------------------------------
(***************************************************************************)
(* StackMemory implements TwoStacks, for every value of the constants.     *)
(*                                                                         *)
(* Between calls the two stack pointers are the tops TwoStacks computes    *)
(* from the held blocks (FTopIs, BTopIs): this is where the invariant is   *)
(* needed.  Every call is then the call of the same name of TwoStacks on   *)
(* the held blocks, or a free of a block that is not held, and the loops   *)
(* of the free functions are stuttering steps.                             *)
(***************************************************************************)
\* The block b as TwoStacks knows it.
View(b) == [ptr |-> b.at + IntSize, size |-> b.size]

\* Held, element by element.
LEMMA HeldIs ==
  ASSUME NEW S
  PROVE  Held(S) = {View(b) : b \in {c \in S : c.live}}
  BY DEF Held, View

\* Blocks in different places look different to TwoStacks.
LEMMA ViewTells ==
  ASSUME NEW b \in Block, NEW c \in Block, View(b) = View(c), b.live, c.live
  PROVE  b = c
  <1>1. b.at + IntSize = c.at + IntSize /\ b.size = c.size
    BY DEF View
  <1>2. b.at \in Int /\ c.at \in Int /\ IntSize \in Int
    BY SizesAssumption DEF Block, Addr
  <1>3. b.at = c.at
    BY <1>1, <1>2
  <1> QED
    BY <1>1, <1>3 DEF Block

\* A new held block is one more held block.
LEMMA HeldAdd ==
  ASSUME NEW S, NEW b, b.live
  PROVE  Held(S \cup {b}) = Held(S) \cup {View(b)}
  BY HeldIs

\* Exchanging a held block exchanges its view.
LEMMA HeldSwap ==
  ASSUME NEW S, S \subseteq Block, NEW b \in S, b.live, NEW d, d.live
  PROVE  Held((S \ {b}) \cup {d}) = (Held(S) \ {View(b)}) \cup {View(d)}
  <1>1. Held(S \ {b}) = Held(S) \ {View(b)}
    BY HeldIs, ViewTells
  <1> QED
    BY <1>1, HeldAdd

\* Letting go of a held block removes its view, of a freed one nothing.
LEMMA HeldLetGo ==
  ASSUME NEW S, S \subseteq Block, NEW b \in S, ret' # -1
  PROVE  Held(LetGo(S, b)) = IF b.live THEN Held(S) \ {View(b)} ELSE Held(S)
  <1> DEFINE d == [b EXCEPT !.live = FALSE]
  <1>1. LetGo(S, b) = (S \ {b}) \cup {d} /\ ~d.live
    BY DEF LetGo, Block
  <1> HIDE DEF d
  <1>2. Held(LetGo(S, b)) = Held(S \ {b})
    BY <1>1, HeldIs
  <1>3. CASE b.live
    BY <1>2, <1>3, HeldIs, ViewTells
  <1>4. CASE ~b.live
    BY <1>2, <1>4, HeldIs
  <1> QED
    BY <1>3, <1>4

\* Reclaiming freed blocks does not change what is held.
LEMMA HeldKeep ==
  ASSUME NEW S, NEW t
  PROVE  Held(FKeep(S, t)) = Held(S) /\ Held(BKeep(S, t)) = Held(S)
  BY HeldIs DEF FKeep, BKeep

\* Between calls the front stack of TwoStacks ends at next_front.
LEMMA FTopIs ==
  ASSUME IInv, pc = "idle"
  PROVE  Stacks!FTop = next_front
  <1>1. /\ next_front \in Nat /\ fblk \subseteq Block
        /\ next_front = 0 \/ \E b \in fblk : b.live /\ FEnd(b) = next_front
        /\ \A b \in fblk : FEnd(b) \in Nat /\ FEnd(b) <= next_front
    BY IdleTops, FrontBlock DEF IInv, TypeOK, FrontInv, FrontShape, FreedBelow
  <1>2. \A b \in fblk : Stacks!FEnd(View(b)) = FEnd(b)
    BY DEF Stacks!FEnd, View, FEnd
  <1> DEFINE Ends == {0} \cup {Stacks!FEnd(h) : h \in Held(fblk)}
  <1>3. /\ next_front \in Ends /\ \A t \in Ends : t \in Nat
        /\ \A h \in Held(fblk) : Stacks!FEnd(h) <= next_front
    BY <1>1, <1>2, HeldIs
  <1>4. ASSUME NEW t \in Ends, \A h \in Held(fblk) : Stacks!FEnd(h) <= t
        PROVE  t = next_front
    <2>1. t \in Nat /\ t <= next_front
      BY <1>1, <1>3, <1>4
    <2>2. next_front <= t
      BY <1>1, <1>2, <1>4, <2>1, HeldIs
    <2> QED
      BY <1>1, <2>1, <2>2
  <1> QED
    BY <1>3, <1>4 DEF Stacks!FTop

\* Between calls the back stack of TwoStacks ends at last_back.
LEMMA BTopIs ==
  ASSUME IInv, pc = "idle"
  PROVE  Stacks!BTop = last_back
  <1>1. /\ last_back \in 0 .. SegSize /\ bblk \subseteq Block
        /\ last_back = SegSize \/ \E b \in bblk : b.live /\ b.at = last_back
        /\ \A b \in bblk : b.at \in Nat /\ last_back <= b.at /\ b.at < SegSize
    <2>1. last_back \in 0 .. SegSize /\ bblk \subseteq Block
      BY DEF IInv, TypeOK
    <2>2. last_back = SegSize \/ \E b \in bblk : b.live /\ b.at = last_back
      BY IdleTops DEF IInv, BackInv, BackShape
    <2>3. \A b \in bblk : b.at \in Nat /\ last_back <= b.at /\ b.at < SegSize
      BY BackBlock, SizesAssumption DEF IInv, Addr
    <2> QED
      BY <2>1, <2>2, <2>3
  <1>2. \A b \in bblk : Stacks!BStart(View(b)) = b.at
    BY <1>1, SizesAssumption DEF Stacks!BStart, View
  <1> DEFINE Starts == {SegSize} \cup {Stacks!BStart(h) : h \in Held(bblk)}
  <1>3. /\ last_back \in Starts /\ \A t \in Starts : t \in Nat
        /\ \A h \in Held(bblk) : last_back <= Stacks!BStart(h)
    BY <1>1, <1>2, HeldIs, SizesAssumption
  <1>4. ASSUME NEW t \in Starts, \A h \in Held(bblk) : t <= Stacks!BStart(h)
        PROVE  t = last_back
    <2>1. t \in Nat /\ last_back <= t
      BY <1>1, <1>3, <1>4, <1>2, HeldIs
    <2>2. t <= last_back
      BY <1>1, <1>2, <1>4, <2>1, HeldIs, SizesAssumption
    <2> QED
      BY <1>1, <2>1, <2>2
  <1> QED
    BY <1>3, <1>4 DEF Stacks!BTop

\* falloc is FAlloc of TwoStacks.
LEMMA FAllocRefines ==
  ASSUME IInv, NEW n \in Requests, FAlloc(n)
  PROVE  Stacks!FAlloc(n)
  <1>1. /\ pc = "idle" /\ n \in Nat /\ next_front \in Nat /\ last_back \in Nat
        /\ last_back <= SegSize
        /\ call' = <<"falloc", n>> /\ bblk' = bblk
    BY ClientAssumption DEF FAlloc, IInv, TypeOK
  <1> DEFINE nb == [at |-> next_front, size |-> n, live |-> TRUE]
             h == [ptr |-> next_front + IntSize, size |-> n]
  <1>2. Stacks!FEnd(h) = next_front + IntSize + n + PtrSize
    BY DEF Stacks!FEnd
  <1>3. CASE n > SegSize \/ falloc_collides(n)
    <2>1. ret' = NULL /\ fblk' = fblk
      BY <1>1, <1>3, SizesAssumption DEF FAlloc, db_qmm_falloc, Fail
    <2>2. ~(Stacks!FEnd(h) <= last_back)
      BY <1>1, <1>2, <1>3, SizesAssumption DEF falloc_collides
    <2> QED
      BY <1>1, <2>1, <2>2, FTopIs, BTopIs DEF Stacks!FAlloc, Stacks!NULL, NULL
  <1>4. CASE n <= SegSize /\ ~falloc_collides(n)
    <2>1. ret' = next_front + IntSize /\ ret' # NULL
      BY <1>1, <1>4, SizesAssumption DEF FAlloc, db_qmm_falloc, NULL
    <2>2. fblk' = fblk \cup {nb} /\ View(nb) = h
      BY <2>1 DEF FAlloc, View
    <2>3. Held(fblk)' = Held(fblk) \cup {h} /\ Held(bblk)' = Held(bblk)
      <3>1. Held(fblk)' = Held(fblk')
        BY DEF Held
      <3>2. Held(fblk \cup {nb}) = Held(fblk) \cup {View(nb)}
        BY HeldAdd
      <3> QED
        BY <1>1, <2>2, <3>1, <3>2 DEF Held
    <2>4. Stacks!FEnd(h) <= last_back
      BY <1>1, <1>2, <1>4, SizesAssumption DEF falloc_collides
    <2> QED
      BY <1>1, <2>1, <2>3, <2>4, FTopIs, BTopIs DEF Stacks!FAlloc
  <1> QED
    BY <1>1, <1>3, <1>4, SizesAssumption

\* balloc is BAlloc of TwoStacks.
LEMMA BAllocRefines ==
  ASSUME IInv, NEW n \in Requests, BAlloc(n)
  PROVE  Stacks!BAlloc(n)
  <1>1. /\ pc = "idle" /\ n \in Nat /\ next_front \in Nat /\ last_back \in Nat
        /\ last_back <= SegSize
        /\ call' = <<"balloc", n>> /\ fblk' = fblk
    BY ClientAssumption DEF BAlloc, IInv, TypeOK
  <1> DEFINE nb == [at |-> last_back', size |-> n, live |-> TRUE]
             h == [ptr |-> last_back - n, size |-> n]
  <1>2. Stacks!BStart(h) = last_back - n - IntSize
    BY DEF Stacks!BStart
  <1>3. CASE n > SegSize \/ balloc_collides(n)
    <2>1. ret' = NULL /\ bblk' = bblk
      BY <1>1, <1>3, SizesAssumption DEF BAlloc, db_qmm_balloc, Fail
    <2>2. ~(next_front <= Stacks!BStart(h))
      BY <1>1, <1>2, <1>3, SizesAssumption DEF balloc_collides
    <2> QED
      BY <1>1, <2>1, <2>2, FTopIs, BTopIs DEF Stacks!BAlloc, Stacks!NULL, NULL
  <1>4. CASE n <= SegSize /\ ~balloc_collides(n)
    <2>1. ret' = last_back - n /\ last_back' = last_back - (n + IntSize) /\ ret' # NULL
      BY <1>1, <1>4, SizesAssumption DEF BAlloc, db_qmm_balloc, balloc_collides, Move, NULL
    <2>2. bblk' = bblk \cup {nb} /\ View(nb) = h
      BY <1>1, <2>1, SizesAssumption DEF BAlloc, View
    <2>3. Held(fblk)' = Held(fblk) /\ Held(bblk)' = Held(bblk) \cup {h}
      <3>1. Held(bblk)' = Held(bblk')
        BY DEF Held
      <3>2. Held(bblk \cup {nb}) = Held(bblk) \cup {View(nb)}
        BY HeldAdd
      <3> QED
        BY <1>1, <2>2, <3>1, <3>2 DEF Held
    <2>4. next_front <= Stacks!BStart(h)
      BY <1>1, <1>2, <1>4, SizesAssumption DEF balloc_collides
    <2> QED
      BY <1>1, <2>1, <2>3, <2>4, FTopIs, BTopIs DEF Stacks!BAlloc
  <1> QED
    BY <1>1, <1>3, <1>4, SizesAssumption

\* A pointer is held by one block only.
LEMMA NotHeld ==
  ASSUME NEW S, S \subseteq Block, NEW a \in Int, \A c \in S : c.live => c.at # a
  PROVE  a + IntSize \notin {h.ptr : h \in Held(S)}
  <1>1. ASSUME NEW c \in S, c.live
        PROVE  View(c).ptr # a + IntSize
    <2>1. c.at # a /\ c.at \in Int /\ IntSize \in Int
      BY <1>1, SizesAssumption DEF Block, Addr
    <2> QED
      BY <2>1 DEF View
  <1> QED
    BY <1>1, HeldIs

\* What a call of ffree finds and answers, with its local variables named.
LEMMA FFreeCases ==
  ASSUME NEW ptr \in Int, db_qmm_ffree(ptr),
         NEW at, at = ptr - IntSize,
         NEW next, next = ptr + SizeOf(mem[at]) + PtrSize
  PROVE  \/ (at < 0 \/ next > next_front) /\ Fail(-6, -1)
         \/ at >= 0 /\ next = next_front /\ ret' = 1
         \/ at >= 0 /\ next < next_front /\ Flagged(mem[next]) /\ Fail(-5, -1)
         \/ at >= 0 /\ next < next_front /\ ~Flagged(mem[next]) /\ ret' = 0
  BY DEF db_qmm_ffree

\* The same of bfree.
LEMMA BFreeCases ==
  ASSUME NEW ptr \in Int, db_qmm_bfree(ptr), NEW at, at = ptr - IntSize
  PROVE  \/ (ptr >= SegSize \/ at < last_back) /\ Fail(-6, -1)
         \/ ptr < SegSize /\ at = last_back /\ ret' = 1
         \/ ptr < SegSize /\ at > last_back /\ ret' = 0
  BY DEF db_qmm_bfree

\* ffree of a held block is FFree of TwoStacks; of a block freed before, it is
\* a free of what is not held.
LEMMA FFreeRefines ==
  ASSUME IInv, NEW b \in fblk, FFree(b)
  PROVE  Stacks!Next
  <1>1. /\ pc = "idle" /\ call' = <<"ffree", b.at + IntSize>> /\ bblk' = bblk
        /\ fblk' = FKeep(LetGo(fblk, b), next_front')
        /\ db_qmm_ffree(b.at + IntSize) /\ fblk \subseteq Block
    BY DEF FFree, IInv, TypeOK
  <1>2. /\ b \in Block /\ b.at \in 0 .. SegSize - 1 /\ FEnd(b) \in Nat
        /\ next_front \in Nat /\ FEnd(b) <= next_front
        /\ b.at + IntSize - IntSize = b.at
        /\ b.at + IntSize + SizeOf(mem[b.at]) + PtrSize = FEnd(b)
    BY FrontBlock, SizesAssumption DEF IInv, TypeOK, Addr, FEnd
  <1>3. \A c \in fblk : c.at = b.at => c = b
    BY <1>2, FrontBlock DEF IInv, FrontInv, Addr
  <1>4. Held(fblk)' = Held(LetGo(fblk, b)) /\ Held(bblk)' = Held(bblk)
    BY <1>1, HeldKeep DEF Held
  <1>5. CASE ~b.live
    <2>1. ret' = -1
      BY <1>5, FFreeTwice
    <2>2. Held(fblk)' = Held(fblk)
      BY <1>4, <2>1 DEF LetGo
    <2>3. b.at + IntSize \notin {h.ptr : h \in Held(fblk)}
      BY <1>1, <1>2, <1>3, <1>5, NotHeld
    <2>4. b.at + IntSize \in Stacks!Ptr
      BY <1>2, SizesAssumption DEF Stacks!Ptr
    <2>5. Stacks!FFreeNotHeld(b.at + IntSize)
      BY <1>1, <1>4, <2>1, <2>2, <2>3 DEF Stacks!FFreeNotHeld
    <2> QED
      BY <2>4, <2>5 DEF Stacks!Next
  <1>6. CASE b.live
    <2>1. /\ View(b) \in Held(fblk) /\ View(b).ptr = b.at + IntSize
          /\ Stacks!FEnd(View(b)) = FEnd(b)
      BY <1>6, HeldIs DEF View, Stacks!FEnd, FEnd
    <2>2. ret' = IF FEnd(b) = next_front THEN 1 ELSE 0
      <3>1. \/ (b.at < 0 \/ FEnd(b) > next_front) /\ Fail(-6, -1)
            \/ b.at >= 0 /\ FEnd(b) = next_front /\ ret' = 1
            \/ b.at >= 0 /\ FEnd(b) < next_front /\ Flagged(mem[FEnd(b)]) /\ Fail(-5, -1)
            \/ b.at >= 0 /\ FEnd(b) < next_front /\ ~Flagged(mem[FEnd(b)]) /\ ret' = 0
        <4> DEFINE ptr == b.at + IntSize
        <4>1. /\ ptr \in Int /\ db_qmm_ffree(ptr) /\ b.at = ptr - IntSize
              /\ FEnd(b) = ptr + SizeOf(mem[b.at]) + PtrSize
          BY <1>1, <1>2, SizesAssumption
        <4> HIDE DEF ptr
        <4> QED
          BY <4>1, FFreeCases
      <3>3. ASSUME FEnd(b) < next_front, Flagged(mem[FEnd(b)])
            PROVE  FALSE
        <4>1. PICK c \in fblk : c.at = FEnd(b)
          BY <1>2, <3>3 DEF IInv, FrontInv, FrontShape
        <4>2. PICK d \in fblk : FEnd(d) = FEnd(b) /\ ~d.live
          BY <3>3, <4>1, FrontBlock DEF IInv, FreedBelow
        <4>3. d # b
          BY <1>6, <4>2
        <4> QED
          BY <1>2, <4>2, <4>3, FrontBlock DEF IInv, FrontInv, Addr
      <3> QED
        BY <1>2, <3>1, <3>3
    <2>3. Held(fblk)' = Held(fblk) \ {View(b)}
      BY <1>1, <1>4, <1>6, <2>2, HeldLetGo
    <2>4. Stacks!FFree(View(b))
      BY <1>1, <1>4, <2>1, <2>2, <2>3, FTopIs DEF Stacks!FFree
    <2> QED
      BY <2>1, <2>4 DEF Stacks!Next
  <1> QED
    BY <1>2, <1>5, <1>6 DEF Block

\* bfree of a held block is BFree of TwoStacks; of a block freed before, it is
\* a free of what is not held.
LEMMA BFreeRefines ==
  ASSUME IInv, NEW b \in bblk, BFree(b)
  PROVE  Stacks!Next
  <1>1. /\ pc = "idle" /\ call' = <<"bfree", b.at + IntSize>> /\ fblk' = fblk
        /\ bblk' = BKeep(LetGo(bblk, b), last_back')
        /\ db_qmm_bfree(b.at + IntSize) /\ bblk \subseteq Block
    BY DEF BFree, IInv, TypeOK
  <1>2. /\ b \in Block /\ b.at \in 0 .. SegSize - 1 /\ last_back \in Nat
        /\ last_back <= b.at /\ b.at + IntSize - IntSize = b.at
        /\ b.at + IntSize \in Int
    BY BackBlock, SizesAssumption DEF IInv, TypeOK, Addr
  <1>3. \A c \in bblk : c.at = b.at => c = b
    BY <1>2, BackBlock DEF IInv, BackInv, Addr
  <1>4. Held(bblk)' = Held(LetGo(bblk, b)) /\ Held(fblk)' = Held(fblk)
    BY <1>1, HeldKeep DEF Held
  <1>5. \/ b.at + IntSize >= SegSize /\ ret' = -1
        \/ b.at + IntSize < SegSize /\ b.at = last_back /\ ret' = 1
        \/ b.at + IntSize < SegSize /\ b.at # last_back /\ ret' = 0
    <2> DEFINE ptr == b.at + IntSize
    <2>1. ptr \in Int /\ db_qmm_bfree(ptr) /\ b.at = ptr - IntSize
      BY <1>1, <1>2, SizesAssumption
    <2> HIDE DEF ptr
    <2>2. \/ (ptr >= SegSize \/ b.at < last_back) /\ ret' = -1
          \/ ptr < SegSize /\ b.at = last_back /\ ret' = 1
          \/ ptr < SegSize /\ b.at > last_back /\ ret' = 0
      BY <2>1, BFreeCases DEF Fail
    <2> QED
      BY <1>2, <2>2 DEF ptr
  <1>6. CASE ~b.live
    <2>1. ret' \in {-1, 0}
      BY <1>1, <1>5, <1>6, IdleTops
    <2>2. Held(bblk)' = Held(bblk)
      BY <1>1, <1>4, <1>6, HeldLetGo DEF LetGo
    <2>3. b.at + IntSize \notin {h.ptr : h \in Held(bblk)}
      BY <1>1, <1>2, <1>3, <1>6, NotHeld
    <2>4. b.at + IntSize \in Stacks!Ptr
      BY <1>2, SizesAssumption DEF Stacks!Ptr
    <2>5. Stacks!BFreeNotHeld(b.at + IntSize)
      BY <1>1, <1>4, <2>1, <2>2, <2>3 DEF Stacks!BFreeNotHeld
    <2> QED
      BY <2>4, <2>5 DEF Stacks!Next
  <1>7. CASE b.live
    <2>1. /\ View(b) \in Held(bblk) /\ View(b).ptr = b.at + IntSize
          /\ Stacks!BStart(View(b)) = b.at
      BY <1>2, <1>7, HeldIs, SizesAssumption DEF View, Stacks!BStart
    <2>2. CASE b.at + IntSize >= SegSize
      <3>1. ret' = -1 /\ ~(b.at + IntSize < SegSize)
        BY <1>2, <1>5, <2>2, SizesAssumption
      <3>2. Held(bblk)' = Held(bblk)
        BY <1>4, <3>1 DEF LetGo
      <3> QED
        BY <1>1, <1>4, <2>1, <3>1, <3>2 DEF Stacks!BFree, Stacks!Next
    <2>3. CASE b.at + IntSize < SegSize
      <3>1. ret' = (IF b.at = last_back THEN 1 ELSE 0) /\ ret' # -1
        BY <1>2, <1>5, <2>3, SizesAssumption
      <3>2. Held(bblk)' = Held(bblk) \ {View(b)}
        BY <1>1, <1>4, <1>7, <3>1, HeldLetGo
      <3>3. Stacks!BFree(View(b))
        BY <1>1, <1>4, <2>1, <2>3, <3>1, <3>2, BTopIs DEF Stacks!BFree
      <3> QED
        BY <2>1, <3>3 DEF Stacks!Next
    <2> QED
      BY <1>2, <2>2, <2>3, SizesAssumption
  <1> QED
    BY <1>2, <1>6, <1>7 DEF Block

\* A free of a pointer that the stack does not reach is a free of what is not
\* held.
LEMMA StraysRefine ==
  ASSUME IInv, NEW at \in Strays, FFreeStray(at) \/ BFreeStray(at)
  PROVE  Stacks!Next
  <1>1. /\ at \in 0 .. SegSize - 1 /\ fblk \subseteq Block /\ bblk \subseteq Block
        /\ at + IntSize \in Stacks!Ptr
    BY ClientAssumption, SizesAssumption DEF Addr, Stacks!Ptr, IInv, TypeOK
  <1>2. ret' = -1 /\ Held(fblk)' = Held(fblk) /\ Held(bblk)' = Held(bblk)
    BY FFreeStrayKeeps, BFreeStrayKeeps DEF FFreeStray, BFreeStray, Fail, Held
  <1>3. CASE FFreeStray(at)
    <2>1. \A c \in fblk : c.at # at
      BY <1>1, <1>3, FrontBlock DEF FFreeStray, IInv, TypeOK, Addr
    <2>2. at + IntSize \notin {h.ptr : h \in Held(fblk)}
      BY <1>1, <2>1, NotHeld
    <2>3. Stacks!FFreeNotHeld(at + IntSize)
      BY <1>2, <1>3, <2>2 DEF FFreeStray, Stacks!FFreeNotHeld
    <2> QED
      BY <1>1, <2>3 DEF Stacks!Next
  <1>4. CASE BFreeStray(at)
    <2>1. \A c \in bblk : c.at # at
      BY <1>1, <1>4, BackBlock DEF BFreeStray, IInv, TypeOK, Addr
    <2>2. at + IntSize \notin {h.ptr : h \in Held(bblk)}
      BY <1>1, <2>1, NotHeld
    <2>3. Stacks!BFreeNotHeld(at + IntSize)
      BY <1>2, <1>4, <2>2 DEF BFreeStray, Stacks!BFreeNotHeld
    <2> QED
      BY <1>1, <2>3 DEF Stacks!Next
  <1> QED
    BY <1>3, <1>4

\* fextend is FExtend of TwoStacks: the top block is held.
LEMMA FExtendRefines ==
  ASSUME IInv, NEW n \in Requests, FExtend(n)
  PROVE  Stacks!FExtend(n)
  <1>1. /\ pc = "idle" /\ n \in Nat /\ next_front \in Nat /\ last_back \in 0 .. SegSize
        /\ call' = <<"fextend", n>> /\ bblk' = bblk /\ fblk \subseteq Block
        /\ SegSize \in Nat
    BY ClientAssumption, SizesAssumption DEF FExtend, IInv, TypeOK
  <1>2. Stacks!FTop = next_front /\ Stacks!BTop = last_back
    BY <1>1, FTopIs, BTopIs
  <1>3. \/ ret' = -1 /\ (n > SegSize \/ next_front = 0 \/ next_front + n > last_back)
        \/ ret' = 1 /\ next_front + n <= last_back
    BY DEF FExtend, db_qmm_fextend, Fail
  <1>4. CASE ret' = -1
    <2>1. fblk' = fblk /\ Held(fblk)' = Held(fblk) /\ Held(bblk)' = Held(bblk)
      BY <1>1, <1>4 DEF FExtend, Held
    <2>2. next_front = 0 => Held(fblk) = {}
      <3>1. next_front = 0 => fblk = {}
        BY <1>1, FrontBlock DEF IInv, Addr
      <3> QED
        BY <3>1, HeldIs
    <2>3. n > SegSize => next_front + n > last_back
      BY <1>1
    <2> QED
      BY <1>1, <1>2, <1>3, <1>4, <2>1, <2>2, <2>3 DEF Stacks!FExtend
  <1>5. CASE ret' # -1
    <2>1. ret' = 1 /\ next_front + n <= last_back
      BY <1>3, <1>5
    <2>2. PICK b \in fblk : /\ FEnd(b) = next_front
                            /\ fblk' = (fblk \ {b}) \cup {[b EXCEPT !.size = @ + n]}
      BY <1>5 DEF FExtend
    <2> DEFINE d == [b EXCEPT !.size = @ + n]
    <2>3. b \in Block /\ b.live
      BY <1>1, <2>2, IdleTops DEF FreedBelow, Block
    <2>4. d.live /\ View(d) = [View(b) EXCEPT !.size = @ + n]
      BY <2>3 DEF Block, View
    <2>5. Held(fblk)' = Held(fblk') /\ Held(bblk)' = Held(bblk)
      BY <1>1 DEF Held
    <2>6. fblk' = (fblk \ {b}) \cup {d}
      BY <2>2
    <2> HIDE DEF d
    <2>7. Held(fblk') = (Held(fblk) \ {View(b)}) \cup {View(d)}
      BY <1>1, <2>3, <2>4, <2>6, HeldSwap
    <2>8. View(b) \in Held(fblk) /\ Stacks!FEnd(View(b)) = next_front
      BY <2>2, <2>3, HeldIs DEF View, Stacks!FEnd, FEnd
    <2> QED
      BY <1>1, <1>2, <2>1, <2>4, <2>5, <2>7, <2>8 DEF Stacks!FExtend
  <1> QED
    BY <1>4, <1>5

\* bextend is BExtend of TwoStacks, for a client that keeps to BExtendRule.
LEMMA BExtendRefines ==
  ASSUME IInv, NEW n \in Requests, BExtendRule(n), BExtend(n)
  PROVE  Stacks!BExtend(n)
  <1>1. /\ pc = "idle" /\ n \in Nat /\ next_front \in Nat /\ last_back \in 0 .. SegSize
        /\ call' = <<"bextend", n>> /\ fblk' = fblk /\ bblk \subseteq Block
        /\ SegSize \in Nat /\ IntSize \in Nat
    BY ClientAssumption, SizesAssumption DEF BExtend, IInv, TypeOK
  <1>2. Stacks!FTop = next_front /\ Stacks!BTop = last_back
    BY <1>1, FTopIs, BTopIs
  <1>3. \/ ret' = NULL /\ (n > SegSize \/ last_back < n \/ last_back = SegSize)
        \/ ret' = last_back - n + IntSize /\ n <= last_back
    BY <1>1 DEF BExtend, db_qmm_bextend, Fail
  <1>4. CASE ret' = NULL
    <2>1. bblk' = bblk /\ Held(fblk)' = Held(fblk) /\ Held(bblk)' = Held(bblk)
      BY <1>1, <1>4 DEF BExtend, Held
    <2>2. last_back = SegSize => Held(bblk) = {}
      <3>1. last_back = SegSize => bblk = {}
        BY <1>1, BackBlock DEF IInv, Addr
      <3> QED
        BY <3>1, HeldIs
    <2>3. n > SegSize \/ last_back < n => next_front > last_back - n
      BY <1>1
    <2>4. ret' # last_back - n + IntSize \/ n > last_back
      BY <1>1, <1>4, SizesAssumption DEF NULL
    <2> QED
      BY <1>1, <1>2, <1>3, <1>4, <2>1, <2>2, <2>3, <2>4
         DEF Stacks!BExtend, Stacks!NULL, NULL
  <1>5. CASE ret' # NULL
    <2>1. ret' = last_back - n + IntSize /\ n <= last_back /\ next_front <= last_back - n
      BY <1>1, <1>3, <1>5 DEF BExtendRule
    <2> DEFINE D(b) == [at |-> b.at - n, size |-> b.size + n, live |-> b.live]
    <2>2. PICK b \in bblk : b.at = last_back /\ bblk' = (bblk \ {b}) \cup {D(b)}
      BY <1>5 DEF BExtend
    <2>3. b \in Block /\ b.live /\ b.at \in Int
      BY <1>1, <2>2, IdleTops DEF Block
    <2>4. /\ D(b).live
          /\ View(D(b)) = [ptr |-> View(b).ptr - n, size |-> View(b).size + n]
          /\ View(b).ptr = last_back + IntSize
      BY <1>1, <2>2, <2>3 DEF View
    <2>5. Held(bblk)' = Held(bblk') /\ Held(fblk)' = Held(fblk)
      BY <1>1 DEF Held
    <2> HIDE DEF D
    <2>6. Held(bblk') = (Held(bblk) \ {View(b)}) \cup {View(D(b))}
      BY <1>1, <2>2, <2>3, <2>4, HeldSwap
    <2>7. View(b) \in Held(bblk) /\ Stacks!BStart(View(b)) = last_back
      BY <1>1, <2>3, <2>4, HeldIs DEF Stacks!BStart
    <2>8. ret' = View(b).ptr - n
      BY <1>1, <2>1, <2>4
    <2> QED
      BY <1>1, <1>2, <2>1, <2>4, <2>5, <2>6, <2>7, <2>8 DEF Stacks!BExtend
  <1> QED
    BY <1>4, <1>5

\* The loops and the client's stores are stuttering steps of TwoStacks.
LEMMA SilentSteps ==
  ASSUME Loop \/ (\E b \in fblk \cup bblk, w \in Data : Fill(b, w)) \/ UNCHANGED vars
  PROVE  UNCHANGED Stacks!avars
  <1>1. CASE FFreeLoop
    BY <1>1, HeldKeep DEF FFreeLoop, ffree_loop, Stacks!avars, Held
  <1>2. CASE BFreeLoop
    BY <1>2, HeldKeep DEF BFreeLoop, bfree_loop, Stacks!avars, Held
  <1>3. CASE UNCHANGED <<fblk, bblk, ret, call>>
    BY <1>3 DEF Stacks!avars, Held
  <1> QED
    BY <1>1, <1>2, <1>3 DEF Loop, Fill, vars

\* The memory manager implements two stacks of held blocks.  The answers of all
\* calls, and the space they take and give back, are those of two plain stacks:
\* headers, links, flags and the order of the frees do not show.
THEOREM ManagerImplementsTwoStacks == Spec => ImplementsTwoStacks
  <1>1. Init => Stacks!Init
    BY DEF Init, init_query_mm, Stacks!Init, Held
  <1>2. ASSUME IInv, [Next]_vars
        PROVE  [Stacks!Next]_(Stacks!avars)
    <2>1. CASE \E n \in Requests : FAlloc(n) \/ BAlloc(n)
      BY <1>2, <2>1, FAllocRefines, BAllocRefines DEF Stacks!Next
    <2>2. CASE \E n \in Requests : FExtendRule /\ FExtend(n)
      BY <1>2, <2>2, FExtendRefines DEF Stacks!Next
    <2>3. CASE \E n \in Requests : BExtendRule(n) /\ BExtend(n)
      BY <1>2, <2>3, BExtendRefines DEF Stacks!Next
    <2>4. CASE (\E b \in fblk : FFree(b)) \/ \E b \in bblk : BFree(b)
      BY <1>2, <2>4, FFreeRefines, BFreeRefines
    <2>5. CASE \E at \in Strays : FFreeStray(at) \/ BFreeStray(at)
      BY <1>2, <2>5, StraysRefine
    <2>6. CASE FClear
      <3>1. Stacks!FClear
        BY <2>6 DEF FClear, db_qmm_fclear, Held, Stacks!FClear
      <3> QED
        BY <3>1 DEF Stacks!Next
    <2>7. CASE BClear
      <3>1. Stacks!BClear
        BY <2>7 DEF BClear, db_qmm_bclear, Held, Stacks!BClear
      <3> QED
        BY <3>1 DEF Stacks!Next
    <2>8. CASE Loop \/ (\E b \in fblk \cup bblk, w \in Data : Fill(b, w)) \/ UNCHANGED vars
      BY <2>8, SilentSteps
    <2> QED
      BY <1>2, <2>1, <2>2, <2>3, <2>4, <2>5, <2>6, <2>7, <2>8 DEF Next, Call
  <1> QED
    BY <1>1, <1>2, SpecIInv, PTL DEF Spec, ImplementsTwoStacks, Stacks!Spec
=============================================================================
