------------------------------ MODULE TwoStacks ------------------------------
(***************************************************************************)
(* What the stack memory manager promises, without headers, links or flag  *)
(* bits: a segment shared by a front stack growing up and a back stack     *)
(* growing down.  The state is the set of blocks the client still holds on *)
(* each stack.  The promise is about space: a stack reaches exactly as far *)
(* as its outermost held block, however the frees were ordered, and an     *)
(* allocation is refused exactly when it would make the stacks collide.    *)
(***************************************************************************)
EXTENDS Integers

CONSTANTS
  SegSize,    \* bytes in the segment
  IntSize,    \* sizeof(db_int): the size word before every block
  PtrSize,    \* sizeof(void *): the link word after every front block
  Requests    \* the sizes a client may ask for

VARIABLES
  flive,      \* the blocks held on the front stack, as [ptr, size]
  blive,      \* the blocks held on the back stack
  ret,        \* what the last call returned
  call        \* the last call, as <<name, argument>>

avars == <<flive, blive, ret, call>>

NULL == -1    \* no address: the segment starts at address 0
Ptr == 0 .. SegSize + IntSize

FEnd(b) == b.ptr + b.size + PtrSize     \* first byte above a front block
BStart(b) == b.ptr - IntSize            \* first byte of a back block

\* How far each stack reaches: to its outermost held block.
FTop == CHOOSE t \in {0} \cup {FEnd(b) : b \in flive} :
          \A b \in flive : FEnd(b) <= t
BTop == CHOOSE t \in {SegSize} \cup {BStart(b) : b \in blive} :
          \A b \in blive : t <= BStart(b)

Init == flive = {} /\ blive = {} /\ ret = 1 /\ call = <<"init", SegSize>>

FAlloc(n) ==
  LET b == [ptr |-> FTop + IntSize, size |-> n] IN
  /\ call' = <<"falloc", n>>
  /\ IF FEnd(b) <= BTop
       THEN flive' = flive \cup {b} /\ ret' = b.ptr
       ELSE flive' = flive /\ ret' = NULL
  /\ UNCHANGED blive

BAlloc(n) ==
  LET b == [ptr |-> BTop - n, size |-> n] IN
  /\ call' = <<"balloc", n>>
  /\ IF FTop <= BStart(b)
       THEN blive' = blive \cup {b} /\ ret' = b.ptr
       ELSE blive' = blive /\ ret' = NULL
  /\ UNCHANGED flive

(***************************************************************************)
(* Freeing answers 1 when the stack shrinks and 0 when the block lies      *)
(* under a held one and its space has to wait.  The one block the back     *)
(* stack refuses to free is the empty one at the very end of the segment.  *)
(***************************************************************************)
FFree(b) ==
  /\ call' = <<"ffree", b.ptr>>
  /\ flive' = flive \ {b}
  /\ ret' = IF FEnd(b) = FTop THEN 1 ELSE 0
  /\ UNCHANGED blive

BFree(b) ==
  /\ call' = <<"bfree", b.ptr>>
  /\ IF b.ptr < SegSize
       THEN blive' = blive \ {b} /\ ret' = IF BStart(b) = BTop THEN 1 ELSE 0
       ELSE blive' = blive /\ ret' = -1
  /\ UNCHANGED flive

\* Freeing what is not held changes nothing.  The front stack refuses it, the
\* back stack may answer 0 again while the space still waits.
FFreeNotHeld(p) ==
  /\ p \notin {b.ptr : b \in flive}
  /\ call' = <<"ffree", p>> /\ ret' = -1
  /\ UNCHANGED <<flive, blive>>

BFreeNotHeld(p) ==
  /\ p \notin {b.ptr : b \in blive}
  /\ call' = <<"bfree", p>> /\ ret' \in {-1, 0}
  /\ UNCHANGED <<flive, blive>>

FExtend(n) ==
  /\ call' = <<"fextend", n>>
  /\ \/ /\ FTop + n <= BTop
        /\ \E b \in flive :
             /\ FEnd(b) = FTop
             /\ flive' = (flive \ {b}) \cup {[b EXCEPT !.size = @ + n]}
        /\ ret' = 1
     \/ /\ flive = {} \/ FTop + n > BTop
        /\ ret' = -1
        /\ UNCHANGED flive
  /\ UNCHANGED blive

BExtend(n) ==
  /\ call' = <<"bextend", n>>
  /\ \/ /\ FTop <= BTop - n
        /\ \E b \in blive :
             /\ BStart(b) = BTop
             /\ blive' = (blive \ {b}) \cup {[ptr |-> b.ptr - n, size |-> b.size + n]}
             /\ ret' = b.ptr - n
     \/ /\ blive = {} \/ FTop > BTop - n
        /\ ret' = NULL
        /\ UNCHANGED blive
  /\ UNCHANGED flive

FClear == flive' = {} /\ call' = <<"fclear", 0>> /\ UNCHANGED <<blive, ret>>
BClear == blive' = {} /\ call' = <<"bclear", 0>> /\ UNCHANGED <<flive, ret>>

Next ==
  \/ \E n \in Requests : FAlloc(n) \/ BAlloc(n) \/ FExtend(n) \/ BExtend(n)
  \/ \E b \in flive : FFree(b)
  \/ \E b \in blive : BFree(b)
  \/ \E p \in Ptr : FFreeNotHeld(p) \/ BFreeNotHeld(p)
  \/ FClear \/ BClear

Spec == Init /\ [][Next]_avars
==============================================================================
