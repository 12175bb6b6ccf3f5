------------------------------ MODULE BackStack -------------------------------
(***************************************************************************)
(* Lemmas about the back stack of TwoStacks when nothing is held on the    *)
(* front stack, as the schema store and the executor use it: what a call   *)
(* does to the blocks held, and that they stay apart.                      *)
(***************************************************************************)
EXTENDS TwoStacks, WellFoundedInduction, TLAPS

Apart(b, c) ==
  b.ptr + b.size + IntSize <= c.ptr \/ c.ptr + c.size + IntSize <= b.ptr

\* Every block lies in the segment with its size word, and no two overlap.
BackOK ==
  /\ blive \subseteq [ptr : Nat, size : Nat]
  /\ \A b \in blive : IntSize <= b.ptr /\ b.ptr + b.size <= SegSize
  /\ \A b, c \in blive : b # c => Apart(b, c)

Sizes == SegSize \in Nat \ {0} /\ IntSize \in Nat \ {0} /\ flive = {}

Topmost(b) == b \in blive /\ \A c \in blive : b.ptr <= c.ptr

\* A non-empty set of natural numbers has a least element.
LEMMA LeastNat ==
  ASSUME NEW T, T \subseteq Nat, T # {}
  PROVE  \E x \in T : \A y \in T : x <= y
  <1> DEFINE R == OpToRel(<, Nat)
  <1>1. IsWellFoundedOn(R, Nat)
    BY NatLessThanWellFounded
  <1>2. \A x, y \in Nat : y < x => <<y, x>> \in R
    BY DEF OpToRel
  <1> HIDE DEF R
  <1>3. PICK x \in T : \A y \in T : <<y, x>> \notin R
    BY <1>1, WFMin, Zenon
  <1>4. ASSUME NEW y \in T PROVE x <= y
    <2>1. x \in Nat /\ y \in Nat /\ ~(y < x)
      BY <1>2, <1>3
    <2> QED
      BY <2>1
  <1> QED
    BY <1>4

\* BTop is where the topmost block starts, or the end of the segment.
LEMMA Tops ==
  ASSUME Sizes, BackOK
  PROVE  /\ FTop = 0
         /\ BTop \in 0 .. SegSize
         /\ BTop = SegSize \/ \E b \in blive : BTop = BStart(b)
         /\ \A b \in blive : BTop <= BStart(b)
  <1>1. FTop = 0
    BY DEF FTop, Sizes
  <1> DEFINE T == {SegSize} \cup {BStart(b) : b \in blive}
  <1>2. T \subseteq 0 .. SegSize /\ T \subseteq Nat /\ T # {}
    BY DEF BackOK, BStart, Sizes
  <1>3. \E t \in T : \A y \in T : t <= y
    <2> HIDE DEF T
    <2> QED BY <1>2, LeastNat
  <1>4. \E t \in T : \A b \in blive : t <= BStart(b)
    BY <1>3
  <1>5. BTop \in T /\ \A b \in blive : BTop <= BStart(b)
    BY <1>4 DEF BTop
  <1> QED
    BY <1>1, <1>2, <1>5

\* A block starts where the stack ends exactly when it is the topmost one.
LEMMA TopmostIs ==
  ASSUME Sizes, BackOK, NEW b \in blive
  PROVE  BStart(b) = BTop <=> Topmost(b)
  BY Tops DEF Sizes, BackOK, Topmost, BStart

\* Only one block starts at an address, and only one block is the topmost one.
LEMMA OneBlock ==
  ASSUME Sizes, BackOK, NEW b \in blive, NEW c \in blive,
         b.ptr <= c.ptr, c.ptr < b.ptr + b.size \/ c.ptr = b.ptr
  PROVE  b = c
  BY DEF Sizes, BackOK, Apart

\* An allocation is refused, or adds a block below all others.
LEMMA AllocStep ==
  ASSUME Sizes, BackOK, NEW n \in Nat, BAlloc(n)
  PROVE  /\ BackOK'
         /\ \/ ret' = NULL /\ blive' = blive
            \/ LET b == [ptr |-> ret', size |-> n] IN
               /\ ret' \in IntSize .. SegSize - n /\ b \notin blive
               /\ blive' = blive \cup {b}
               /\ \A c \in blive : b.ptr + b.size + IntSize <= c.ptr
  <1> DEFINE b == [ptr |-> BTop - n, size |-> n]
  <1>1. FTop = 0 /\ BTop \in 0 .. SegSize /\ \A c \in blive : BTop <= c.ptr - IntSize
    BY Tops DEF BStart
  <1>2. CASE 0 <= BTop - n - IntSize
    <2>1. blive' = blive \cup {b} /\ ret' = b.ptr
      BY <1>1, <1>2 DEF BAlloc, BStart
    <2>2. b.ptr \in IntSize .. SegSize - n /\ b \in [ptr : Nat, size : Nat]
      BY <1>1, <1>2 DEF Sizes
    <2>3. \A c \in blive : b.ptr + b.size + IntSize <= c.ptr
      BY <1>1, <2>2 DEF Sizes, BackOK
    <2>4. b \notin blive
      BY <2>2, <2>3 DEF Sizes
    <2>5. BackOK'
      BY <2>1, <2>2, <2>3 DEF Sizes, BackOK, Apart
    <2> QED
      BY <2>1, <2>2, <2>3, <2>4, <2>5
  <1>3. CASE ~(0 <= BTop - n - IntSize)
    BY <1>1, <1>3 DEF BAlloc, BStart, BackOK, Apart
  <1> QED
    BY <1>2, <1>3

\* A free takes away the block; it answers 1 exactly when that was the topmost one.
\* The empty block at the end of the segment is not freed.
LEMMA FreeStep ==
  ASSUME Sizes, BackOK, NEW b \in blive, BFree(b)
  PROVE  /\ BackOK'
         /\ \/ blive' = blive \ {b} /\ (ret' = 1 <=> Topmost(b)) /\ ret' \in {0, 1}
            \/ blive' = blive /\ ret' = -1 /\ b.ptr = SegSize
  BY TopmostIs DEF BFree, Sizes, BackOK, Apart

\* Whatever is freed, the blocks that are left are apart.
LEMMA FreeKeeps ==
  ASSUME BackOK, NEW b, BFree(b)
  PROVE  BackOK'
  BY DEF BFree, BackOK, Apart

\* Freeing what is not held changes nothing.
LEMMA FreeNotHeldStep ==
  ASSUME BackOK, NEW p, BFreeNotHeld(p)
  PROVE  /\ BackOK'
         /\ blive' = blive /\ ret' # 1 /\ \A b \in blive : b.ptr # p
  BY DEF BFreeNotHeld, BackOK, Apart

\* An extension is refused, or moves the start of the topmost block down.
LEMMA ExtendStep ==
  ASSUME Sizes, BackOK, NEW n \in Nat, BExtend(n)
  PROVE  /\ BackOK'
         /\ \/ ret' = NULL /\ blive' = blive
            \/ \E b \in blive :
                 LET c == [ptr |-> ret', size |-> b.size + n] IN
                 /\ Topmost(b) /\ ret' = b.ptr - n /\ ret' >= IntSize
                 /\ blive' = (blive \ {b}) \cup {c}
  <1>1. FTop = 0 /\ BTop \in 0 .. SegSize
    BY Tops
  <1>2. ASSUME NEW b \in blive, BStart(b) = BTop, 0 <= BTop - n,
               blive' = (blive \ {b}) \cup {[ptr |-> b.ptr - n, size |-> b.size + n]},
               ret' = b.ptr - n
        PROVE  BackOK' /\ Topmost(b) /\ ret' = b.ptr - n /\ ret' >= IntSize
    <2> DEFINE c == [ptr |-> b.ptr - n, size |-> b.size + n]
    <2>1. Topmost(b) /\ b \in [ptr : Nat, size : Nat] /\ b.ptr + b.size <= SegSize
      BY <1>2, TopmostIs DEF BackOK
    <2>2. c.ptr >= IntSize /\ c \in [ptr : Nat, size : Nat]
          /\ c.ptr + c.size = b.ptr + b.size
      BY <1>2, <2>1 DEF Sizes, BStart
    <2>3. \A d \in blive \ {b} : c.ptr + c.size + IntSize <= d.ptr
      BY <2>1, <2>2 DEF Sizes, BackOK, Apart, Topmost
    <2>4. BackOK'
      BY <1>2, <2>1, <2>2, <2>3 DEF Sizes, BackOK, Apart
    <2> QED
      BY <1>2, <2>1, <2>2, <2>4
  <1>3. ASSUME blive' = blive PROVE BackOK'
    BY <1>3 DEF BackOK, Apart
  <1> QED
    BY <1>1, <1>2, <1>3 DEF BExtend
=============================================================================
