----------------------------- MODULE StackMemory -----------------------------
(***************************************************************************)
(* The stack memory manager of src/src/stack_memory_manager.c, word for    *)
(* word: one segment, two stacks that grow towards each other, and all of  *)
(* the bookkeeping kept inside the segment.                                *)
(*                                                                         *)
(*   front block:  | size | payload ... | link |     grows up from 0       *)
(*   back block:   | size | payload ... |            grows down from end   *)
(*                                                                         *)
(* The sign bit of a size word is a flag.  On the front stack it says that *)
(* the block BELOW has been freed, and the link then points to that        *)
(* block; on the back stack it says that the block itself has been freed.  *)
(*                                                                         *)
(* A handler of the code is the operator of the same name.  The loops of   *)
(* the two free functions are steps of their own (pc), during which no     *)
(* other call runs: the code is single threaded.  fblk, bblk and call are  *)
(* history variables, which no handler reads: the blocks the client holds  *)
(* and those it has freed that are not reclaimed yet, and the last call.   *)
(***************************************************************************)
EXTENDS Integers

CONSTANTS
  SegSize,    \* mmp->size: bytes in the segment, which starts at address 0
  IntSize,    \* sizeof(db_int)
  PtrSize,    \* sizeof(void *)
  FlagBit,    \* 1 << (8 * sizeof(db_int) - 1)
  Profiled,   \* whether DB_CTCONF_PROFILE_MAXMEM is 1 in the build
  Requests,   \* the sizes a client asks for
  Data,       \* the words a client stores in its blocks
  Strays      \* the addresses where a client wrongly believes it has a block

ASSUME SizesAssumption ==
  /\ SegSize \in Nat \ {0} /\ IntSize \in Nat \ {0} /\ PtrSize \in Nat \ {0}
  /\ FlagBit \in Nat /\ SegSize < FlagBit /\ Profiled \in BOOLEAN

Word == -FlagBit .. FlagBit - 1     \* the values of a db_int
Addr == 0 .. SegSize - 1

ASSUME ClientAssumption ==
  Requests \subseteq Nat /\ Data \subseteq Word /\ Strays \subseteq Addr

VARIABLES
  mem,          \* the segment: the word that starts at each address
  next_front,   \* mmp->next_front
  last_back,    \* mmp->last_back
  errcode,      \* mmp->errcode, a uint8_t
  maxused,      \* mmp->maxused, 0 forever in a build that does not profile
  ret,          \* what the last call returned
  pc,           \* "idle", or the free function whose loop is running
  fblk, bblk,   \* the blocks of each stack, as [at, size, live]
  call          \* the last call, as <<name, argument>>

mm == <<mem, next_front, last_back, errcode, maxused>>
vars == <<mem, next_front, last_back, errcode, maxused, ret, pc, fblk, bblk, call>>

NULL == -1
Block == [at : Addr, size : Nat, live : BOOLEAN]

(***************************************************************************)
(* Size words.  A flagged size is negative in the two's complement db_int. *)
(***************************************************************************)
Flagged(w) == w < 0
SizeOf(w) == IF Flagged(w) THEN w + FlagBit ELSE w

SetFlagLost(w) == w                       \* mutant: the flag is never stored
SetFlag(w) == IF Flagged(w) THEN w ELSE w - FlagBit

\* Where the link of the front block at address at lies.
LinkAtNoHeader(at, size) == at + size     \* mutant: forgets the size word
LinkAt(at, size) == at + IntSize + size

\* The codes the source assigns to errcode are negative; a uint8_t wraps them.
CodeSigned(e) == e                        \* mutant: a signed errcode
Code(e) == e % 256

Used(front, back) == SegSize - (back - front)

\* The stacks move to front and back: the peak of the space in use follows.
MoveProfilesOld(front, back) ==           \* mutant: measured before the move
  /\ next_front' = front /\ last_back' = back
  /\ maxused' = IF Profiled /\ Used(next_front, last_back) > maxused
                  THEN Used(next_front, last_back) ELSE maxused
Move(front, back) ==
  /\ next_front' = front /\ last_back' = back
  /\ maxused' = IF Profiled /\ Used(front, back) > maxused
                  THEN Used(front, back) ELSE maxused

Fail(e, r) ==
  /\ errcode' = Code(e) /\ ret' = r
  /\ UNCHANGED <<mem, next_front, last_back, maxused, pc>>
------------------------------------------------------------------------------
(***************************************************************************)
(* The handlers: what each call does to the control structure and to the   *)
(* segment.                                                                *)
(***************************************************************************)
init_query_mm ==
  /\ mem \in {[a \in Addr |-> w] : w \in Data}
  /\ next_front = 0 /\ last_back = SegSize
  /\ errcode = 0 /\ maxused = 0 /\ ret = 1 /\ pc = "idle"

falloc_collides_no_link(n) ==             \* mutant: no room for the link
  next_front + n + IntSize > last_back
falloc_collides(n) == next_front + n + IntSize + PtrSize > last_back

db_qmm_falloc(n) ==
  \/ n > SegSize /\ Fail(-2, NULL)
  \/ n <= SegSize /\ falloc_collides(n) /\ Fail(-1, NULL)
  \/ /\ n <= SegSize /\ ~falloc_collides(n)
     /\ mem' = [mem EXCEPT ![next_front] = n,
                           ![LinkAt(next_front, n)] = next_front]
     /\ Move(next_front + IntSize + n + PtrSize, last_back)
     /\ ret' = next_front + IntSize
     /\ UNCHANGED <<errcode, pc>>

balloc_collides_exact(n) ==               \* mutant: refuses the exact fit
  next_front + n + IntSize >= last_back
balloc_collides(n) == next_front + n + IntSize > last_back

db_qmm_balloc(n) ==
  \/ n > SegSize /\ Fail(-2, NULL)
  \/ n <= SegSize /\ balloc_collides(n) /\ Fail(-1, NULL)
  \/ /\ n <= SegSize /\ ~balloc_collides(n)
     /\ Move(next_front, last_back - (n + IntSize))
     /\ mem' = [mem EXCEPT ![last_back - (n + IntSize)] = n]
     /\ ret' = last_back - n
     /\ UNCHANGED <<errcode, pc>>

\* Free a block of the front stack: pop it if it is the top one, otherwise
\* leave word of it in the block above.
db_qmm_ffree(ptr) ==
  LET at == ptr - IntSize
      size == SizeOf(mem[at])
      next == ptr + size + PtrSize IN
  \/ (at < 0 \/ next > next_front) /\ Fail(-6, -1)
  \/ /\ at >= 0 /\ next = next_front
     /\ next_front' = mem[LinkAt(at, size)]
     /\ ret' = 1 /\ pc' = "ffree"
     /\ UNCHANGED <<mem, last_back, errcode, maxused>>
  \/ /\ at >= 0 /\ next < next_front
     /\ \/ Flagged(mem[next]) /\ Fail(-5, -1)
        \/ /\ ~Flagged(mem[next])
           /\ mem' = [mem EXCEPT ![next] = SetFlag(@),
                                 ![LinkAt(next, mem[next])] = at]
           /\ errcode' = Code(-3) /\ ret' = 0
           /\ UNCHANGED <<next_front, last_back, maxused, pc>>

\* The loop of db_qmm_ffree: pop the fragmented blocks now on top.
ffree_pops_empty ==                       \* mutant: == flag, not & flag
  mem[next_front] = -FlagBit /\ next_front > 0
ffree_pops == Flagged(mem[next_front]) /\ next_front > 0

ffree_next_stuck == next_front            \* mutant: the loop does not move
ffree_next == mem[next_front - PtrSize]

ffree_loop ==
  /\ pc = "ffree"
  /\ \/ /\ ffree_pops
        /\ next_front' = ffree_next
        /\ UNCHANGED pc
     \/ ~ffree_pops /\ pc' = "idle" /\ UNCHANGED next_front
  /\ UNCHANGED <<mem, last_back, errcode, maxused, ret>>

db_qmm_bfree(ptr) ==
  LET at == ptr - IntSize
      size == SizeOf(mem[at]) IN
  \/ (ptr >= SegSize \/ at < last_back) /\ Fail(-6, -1)
  \/ /\ ptr < SegSize /\ at = last_back
     /\ last_back' = ptr + size
     /\ ret' = 1 /\ pc' = "bfree"
     /\ UNCHANGED <<mem, next_front, errcode, maxused>>
  \/ /\ ptr < SegSize /\ at > last_back
     /\ mem' = [mem EXCEPT ![at] = SetFlag(@)]
     /\ errcode' = Code(-4) /\ ret' = 0
     /\ UNCHANGED <<next_front, last_back, maxused, pc>>

\* The do-while loop of db_qmm_bfree after its first round.
bfree_pops_empty ==                       \* mutant: == flag, not & flag
  last_back < SegSize /\ mem[last_back] = -FlagBit
bfree_pops_all == last_back < SegSize     \* mutant: the flag is not tested
bfree_pops == last_back < SegSize /\ Flagged(mem[last_back])

bfree_loop ==
  /\ pc = "bfree"
  /\ \/ /\ bfree_pops
        /\ last_back' = last_back + IntSize + SizeOf(mem[last_back])
        /\ UNCHANGED pc
     \/ ~bfree_pops /\ pc' = "idle" /\ UNCHANGED last_back
  /\ UNCHANGED <<mem, next_front, errcode, maxused, ret>>

\* The size word w of the top block grows by n and keeps its flag.
grown_not(w, n) == w                      \* mutant: the new size is not written
grown(w, n) ==
  IF Flagged(w) THEN SetFlag(SizeOf(w) + n) ELSE w + n

\* The size word to change is found through the link of the top block.
db_qmm_fextend(n) ==
  LET at == mem[next_front - PtrSize]
      size == SizeOf(mem[at]) + n IN
  \/ n > SegSize /\ Fail(-2, -1)
  \/ n <= SegSize /\ next_front = 0 /\ Fail(-7, -1)
  \/ n <= SegSize /\ next_front > 0 /\ next_front + n > last_back /\ Fail(-4, -1)
  \/ /\ n <= SegSize /\ next_front > 0 /\ next_front + n <= last_back
     /\ Move(next_front + n, last_back)
     /\ mem' = [mem EXCEPT
                  ![at] = grown(@, n),
                  ![next_front + n - PtrSize] =
                    next_front + n - (size + IntSize + PtrSize)]
     /\ ret' = 1
     /\ UNCHANGED <<errcode, pc>>

\* The room is measured to the start of the segment, not to the front stack.
db_qmm_bextend(n) ==
  \/ n > SegSize /\ Fail(-2, NULL)
  \/ n <= SegSize /\ last_back < n /\ Fail(-1, NULL)
  \/ n <= SegSize /\ last_back >= n /\ last_back = SegSize /\ Fail(-7, NULL)
  \/ /\ n <= SegSize /\ last_back >= n /\ last_back < SegSize
     /\ Move(next_front, last_back - n)
     /\ mem' = [mem EXCEPT ![last_back - n] = mem[last_back] + n]
     /\ ret' = last_back - n + IntSize
     /\ UNCHANGED <<errcode, pc>>

db_qmm_fclear ==
  next_front' = 0 /\ UNCHANGED <<mem, last_back, errcode, maxused, ret, pc>>

db_qmm_bclear ==
  last_back' = SegSize /\ UNCHANGED <<mem, next_front, errcode, maxused, ret, pc>>

\* The macros of the header that read a size: the word as it is, flag included;
\* the size word of the top front block is found through its link.
DB_QMM_SIZEOF_BTOP == mem[last_back]
DB_QMM_SIZEOF_BCHUNK(ptr) == mem[ptr - IntSize]
DB_QMM_SIZEOF_FTOP == mem[mem[next_front - PtrSize]]
------------------------------------------------------------------------------
(***************************************************************************)
(* The client: it calls a handler when none is running and keeps track of  *)
(* what it was given.                                                      *)
(***************************************************************************)
FEnd(b) == b.at + IntSize + b.size + PtrSize
BEnd(b) == b.at + IntSize + b.size
Payload(b) == b.at + IntSize .. b.at + IntSize + b.size - 1

FAlloc(n) ==
  /\ pc = "idle" /\ db_qmm_falloc(n)
  /\ fblk' = IF ret' = NULL THEN fblk
             ELSE fblk \cup {[at |-> next_front, size |-> n, live |-> TRUE]}
  /\ call' = <<"falloc", n>> /\ UNCHANGED bblk

BAlloc(n) ==
  /\ pc = "idle" /\ db_qmm_balloc(n)
  /\ bblk' = IF ret' = NULL THEN bblk
             ELSE bblk \cup {[at |-> last_back', size |-> n, live |-> TRUE]}
  /\ call' = <<"balloc", n>> /\ UNCHANGED fblk

\* The client lets go of b, unless the call refused it.
LetGo(blk, b) ==
  IF ret' = -1 THEN blk ELSE (blk \ {b}) \cup {[b EXCEPT !.live = FALSE]}

\* The stack now ends at t: of the blocks beyond, those that were freed are
\* reclaimed.  A block the client holds stays, whatever became of its space.
FKeep(blk, t) == {c \in blk : c.live \/ c.at < t}
BKeep(blk, t) == {c \in blk : c.live \/ c.at >= t}

\* Free a block of the stack, held or already freed once.
FFree(b) ==
  /\ pc = "idle" /\ db_qmm_ffree(b.at + IntSize)
  /\ fblk' = FKeep(LetGo(fblk, b), next_front')
  /\ call' = <<"ffree", b.at + IntSize>> /\ UNCHANGED bblk

BFree(b) ==
  /\ pc = "idle" /\ db_qmm_bfree(b.at + IntSize)
  /\ bblk' = BKeep(LetGo(bblk, b), last_back')
  /\ call' = <<"bfree", b.at + IntSize>> /\ UNCHANGED fblk

\* Free a pointer outside the stack: reclaimed already, never allocated, or
\* taken from the other stack.
FFreeStray(at) ==
  /\ pc = "idle" /\ at >= next_front /\ db_qmm_ffree(at + IntSize)
  /\ call' = <<"ffree", at + IntSize>> /\ UNCHANGED <<fblk, bblk>>

BFreeStray(at) ==
  /\ pc = "idle" /\ at < last_back /\ db_qmm_bfree(at + IntSize)
  /\ call' = <<"bfree", at + IntSize>> /\ UNCHANGED <<fblk, bblk>>

FFreeLoop ==
  /\ ffree_loop
  /\ fblk' = FKeep(fblk, next_front')
  /\ UNCHANGED <<bblk, call>>

BFreeLoop ==
  /\ bfree_loop
  /\ bblk' = BKeep(bblk, last_back')
  /\ UNCHANGED <<fblk, call>>

FExtend(n) ==
  /\ pc = "idle" /\ db_qmm_fextend(n)
  /\ IF ret' = -1 THEN fblk' = fblk
     ELSE \E b \in fblk :
            /\ FEnd(b) = next_front
            /\ fblk' = (fblk \ {b}) \cup {[b EXCEPT !.size = @ + n]}
  /\ call' = <<"fextend", n>> /\ UNCHANGED bblk

BExtend(n) ==
  /\ pc = "idle" /\ db_qmm_bextend(n)
  /\ IF ret' = NULL THEN bblk' = bblk
     ELSE \E b \in bblk :
            /\ b.at = last_back
            /\ bblk' = (bblk \ {b})
                         \cup {[at |-> b.at - n, size |-> b.size + n, live |-> b.live]}
  /\ call' = <<"bextend", n>> /\ UNCHANGED fblk

FClear ==
  /\ pc = "idle" /\ db_qmm_fclear /\ fblk' = {}
  /\ call' = <<"fclear", 0>> /\ UNCHANGED bblk

BClear ==
  /\ pc = "idle" /\ db_qmm_bclear /\ bblk' = {}
  /\ call' = <<"bclear", 0>> /\ UNCHANGED fblk

\* The client stores data in a block it holds.
Fill(b, w) ==
  /\ pc = "idle" /\ b.live
  /\ mem' = [a \in Addr |-> IF a \in Payload(b) THEN w ELSE mem[a]]
  /\ UNCHANGED <<next_front, last_back, errcode, maxused, ret, pc, fblk, bblk, call>>

(***************************************************************************)
(* The rules a client has to keep beyond what the handlers check.  What    *)
(* happens to one that does not is shown in MCStackMemoryMisuse.           *)
(*   - extend the back stack only into the gap between the stacks;         *)
(*   - extend the front stack only while the block under its top is held.  *)
(***************************************************************************)
BExtendRule(n) == n <= last_back => next_front + n <= last_back

FExtendRule ==
  \A b, c \in fblk : FEnd(c) = next_front /\ FEnd(b) = c.at => b.live

Init == init_query_mm /\ fblk = {} /\ bblk = {} /\ call = <<"init", SegSize>>

Call ==
  \/ \E n \in Requests : FAlloc(n) \/ BAlloc(n)
  \/ \E n \in Requests : FExtendRule /\ FExtend(n)
  \/ \E n \in Requests : BExtendRule(n) /\ BExtend(n)
  \/ \E b \in fblk : FFree(b)
  \/ \E b \in bblk : BFree(b)
  \/ \E at \in Strays : FFreeStray(at) \/ BFreeStray(at)
  \/ FClear \/ BClear

Loop == FFreeLoop \/ BFreeLoop

Next == Call \/ Loop \/ \E b \in fblk \cup bblk, w \in Data : Fill(b, w)

\* A call that has started runs to its end: nothing else is scheduled.
Spec == Init /\ [][Next]_vars /\ WF_vars(Loop)
------------------------------------------------------------------------------
(***************************************************************************)
(* Properties.                                                             *)
(***************************************************************************)
\* Every variable keeps its type: the stack pointers stay inside the segment
\* and errcode inside a byte.
TypeOK ==
  /\ mem \in [Addr -> Word]
  /\ next_front \in 0 .. SegSize /\ last_back \in 0 .. SegSize
  /\ errcode \in 0 .. 255 /\ maxused \in Nat
  /\ ret \in -1 .. SegSize
  /\ pc \in {"idle", "ffree", "bfree"}
  /\ fblk \subseteq Block /\ bblk \subseteq Block

\* The two stacks never collide, and no two blocks, header and link included,
\* share a byte of the segment (falloc, balloc and fextend check for it); no free
\* takes back the space of a block that is still held.
BlocksDisjoint ==
  /\ next_front <= last_back
  /\ \A b \in fblk : FEnd(b) <= next_front
  /\ \A b \in bblk : last_back <= b.at /\ BEnd(b) <= SegSize
  /\ \A b, c \in fblk : b # c => FEnd(b) <= c.at \/ FEnd(c) <= b.at
  /\ \A b, c \in bblk : b # c => BEnd(b) <= c.at \/ BEnd(c) <= b.at

\* When no call is running the front stack ends where its topmost held block
\* ends, whatever the order of the frees: ffree and its loop give back all of
\* the space that a fragmented block above a held one does not pin.
FrontTight ==
  pc = "idle" =>
    \/ next_front = 0 /\ \A b \in fblk : ~b.live
    \/ \E b \in fblk : b.live /\ FEnd(b) = next_front

\* The same of the back stack and the loop of bfree.
BackTight ==
  pc = "idle" =>
    \/ last_back = SegSize /\ \A b \in bblk : ~b.live
    \/ \E b \in bblk : b.live /\ b.at = last_back

\* The manager finds back the size it gave a block: the size word of a held
\* block survives everything clients and handlers write in the segment.
SizesIntact ==
  \A b \in fblk \cup bblk : b.live => SizeOf(mem[b.at]) = b.size

\* The size macros give the size of the block they are asked about, whatever was
\* freed and extended before: of a held back block always, of the held top front
\* block as long as the block under it is held (its link leads there otherwise).
TopSizes ==
  pc = "idle" =>
    /\ \A b \in bblk : b.live =>
         /\ DB_QMM_SIZEOF_BCHUNK(b.at + IntSize) = b.size
         /\ b.at = last_back => DB_QMM_SIZEOF_BTOP = b.size
    /\ FExtendRule =>
         \A b \in fblk : b.live /\ FEnd(b) = next_front => DB_QMM_SIZEOF_FTOP = b.size

\* In a profiling build maxused is never below the space in use.
MaxUsedCoversUse == Profiled => Used(next_front, last_back) <= maxused

(***************************************************************************)
(* The shape of the segment: why the frees find their way back.  Every     *)
(* front block ends where the next one starts; its size word is flagged    *)
(* iff the block below it has been freed, and its link then leads to that  *)
(* block, otherwise to itself.  While ffree loops, the word at next_front  *)
(* is the size word of the last block popped, so its flag still tells      *)
(* whether the block now on top has been freed.  A back block is flagged   *)
(* iff it has been freed itself.                                           *)
(***************************************************************************)
FreedBelow(a) == \E c \in fblk : FEnd(c) = a /\ ~c.live

FrontShape ==
  /\ next_front = 0 \/ \E b \in fblk : FEnd(b) = next_front
  /\ \A b \in fblk :
       /\ b.at = 0 \/ \E c \in fblk : FEnd(c) = b.at
       /\ FEnd(b) = next_front \/ \E c \in fblk : c.at = FEnd(b)
       /\ mem[b.at] = IF FreedBelow(b.at) THEN b.size - FlagBit ELSE b.size
       /\ ~FreedBelow(b.at) => mem[LinkAt(b.at, b.size)] = b.at
       /\ \A c \in fblk : FEnd(c) = b.at /\ ~c.live
                            => mem[LinkAt(b.at, b.size)] = c.at
  /\ IF pc = "ffree"
       THEN /\ next_front < last_back
            /\ Flagged(mem[next_front]) <=> FreedBelow(next_front)
       ELSE ~FreedBelow(next_front)

BackShape ==
  /\ last_back = SegSize \/ \E b \in bblk : b.at = last_back
  /\ \A b \in bblk :
       /\ BEnd(b) = SegSize \/ \E c \in bblk : c.at = BEnd(b)
       /\ mem[b.at] = IF b.live THEN b.size ELSE b.size - FlagBit
       /\ pc # "bfree" /\ b.at = last_back => b.live

\* The headers and links in the segment describe exactly the blocks handed out,
\* in every order of allocations, extensions and frees.
SegmentShape == FrontShape /\ BackShape

\* No handler touches the data of a block the client holds: the payload only
\* changes when the client stores in it.
DataKept ==
  [][\/ \A b \in fblk \cup bblk :
          b.live => \A a \in Payload(b) : mem'[a] = mem[a]
     \/ \E b \in fblk \cup bblk, w \in Data : Fill(b, w)]_vars

\* Freeing twice is harmless: a second ffree of a fragmented block, or a free of
\* a pointer the stack does not reach, is refused, a second bfree is answered 0
\* again, and none of them changes the stacks or the segment.
FreedOnce ==
  [][/\ (\/ \E b \in fblk : ~b.live /\ FFree(b)
         \/ \E at \in Strays : FFreeStray(at) \/ BFreeStray(at))
          => ret' = -1 /\ UNCHANGED <<mem, next_front, last_back>>
     /\ (\E b \in bblk : ~b.live /\ BFree(b))
          => ret' = 0 /\ UNCHANGED <<mem, next_front, last_back>>]_vars

\* Both free functions return: their loops over the fragmented blocks end.
FreesReturn == pc # "idle" ~> pc = "idle"

\* The manager implements the two stacks of module TwoStacks: the results of
\* all calls, and the space they use, depend only on the blocks still held.
Held(blk) == {[ptr |-> b.at + IntSize, size |-> b.size] : b \in {c \in blk : c.live}}

Stacks == INSTANCE TwoStacks WITH flive <- Held(fblk), blive <- Held(bblk)

ImplementsTwoStacks == Stacks!Spec
==============================================================================
