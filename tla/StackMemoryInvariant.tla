------------------------- MODULE StackMemoryInvariant -------------------------
(***************************************************************************)
(* The inductive invariant of StackMemory, for every size of the segment,  *)
(* of its words and of the requests, and the proof that every step keeps   *)
(* it.                                                                     *)
(*                                                                         *)
(* IInv says what TypeOK, BlocksDisjoint and SegmentShape of StackMemory   *)
(* say together, with the parts about one stack put together: a call on    *)
(* one stack changes only the words of that stack, so its proof is the     *)
(* pushing, popping or fragmenting of one stack and the frame of the       *)
(* other.  Disjointness alone is not inductive: where a pop takes the      *)
(* stack depends on the link and the flag of a block, so the invariant has *)
(* to say what every word the manager will read contains.                  *)
(***************************************************************************)
EXTENDS StackMemory, TLAPS

\* The front stack: below the back stack, disjoint and in shape.
FrontInv ==
  /\ next_front <= last_back
  /\ \A b \in fblk : FEnd(b) <= next_front
  /\ \A b, c \in fblk : b # c => FEnd(b) <= c.at \/ FEnd(c) <= b.at
  /\ FrontShape

\* The back stack: inside the segment, disjoint and in shape.
BackInv ==
  /\ \A b \in bblk : last_back <= b.at /\ BEnd(b) <= SegSize
  /\ \A b, c \in bblk : b # c => BEnd(b) <= c.at \/ BEnd(c) <= b.at
  /\ BackShape

\* The inductive invariant.
IInv == TypeOK /\ FrontInv /\ BackInv

USE DEF Addr, Block

\* The codes the source assigns to the uint8_t errcode end up inside a byte.
LEMMA CodeType == \A e \in -7 .. 0 : Code(e) \in 0 .. 255
  BY DEF Code

\* Flagging a size that fits in the segment loses nothing: SizeOf finds the
\* size back, and the flag tells the two words apart.
LEMMA SizeOfFlagged ==
  ASSUME NEW n \in 0 .. SegSize
  PROVE  /\ n \in Word /\ n - FlagBit \in Word
         /\ SizeOf(n) = n /\ SizeOf(n - FlagBit) = n
         /\ ~Flagged(n) /\ Flagged(n - FlagBit)
         /\ SetFlag(n) = n - FlagBit /\ SetFlag(n - FlagBit) = n - FlagBit
  BY SizesAssumption DEF SizeOf, Flagged, SetFlag, Word

\* Whatever word a free reads before its pointer, the size it makes of it is
\* not negative.
LEMMA SizeOfWord ==
  ASSUME NEW w \in Word
  PROVE  SizeOf(w) \in Nat
  BY SizesAssumption DEF SizeOf, Flagged, Word

\* Where the parts of a block lie: header first, link last.
LEMMA FrontTypes ==
  ASSUME NEW b \in Block
  PROVE  /\ b.at \in Nat /\ b.size \in Nat /\ b.live \in BOOLEAN
         /\ FEnd(b) \in Nat /\ BEnd(b) \in Nat
         /\ LinkAt(b.at, b.size) = FEnd(b) - PtrSize
         /\ LinkAt(b.at, b.size) \in Nat
         /\ b.at < LinkAt(b.at, b.size) /\ LinkAt(b.at, b.size) < FEnd(b)
         /\ b.at < FEnd(b) /\ b.at < BEnd(b)
  BY SizesAssumption DEF FEnd, BEnd, LinkAt

\* What the invariant says of one block of the front stack.
LEMMA FrontBlock ==
  ASSUME TypeOK, FrontInv, NEW b \in fblk
  PROVE  /\ b \in Block /\ b.size \in 0 .. SegSize
         /\ b.at < FEnd(b) /\ FEnd(b) <= next_front /\ FEnd(b) \in Nat
         /\ b.at \in Addr /\ LinkAt(b.at, b.size) \in Addr
         /\ SizeOf(mem[b.at]) = b.size
         /\ Flagged(mem[b.at]) <=> FreedBelow(b.at)
  <1>1. b \in Block /\ b.at < FEnd(b) /\ FEnd(b) <= next_front /\ FEnd(b) \in Nat
    BY FrontTypes DEF TypeOK, FrontInv
  <1>2. b.size \in 0 .. SegSize
    BY <1>1, SizesAssumption DEF TypeOK, FEnd
  <1>3. mem[b.at] = IF FreedBelow(b.at) THEN b.size - FlagBit ELSE b.size
    BY DEF FrontInv, FrontShape
  <1>4. b.at \in Addr /\ LinkAt(b.at, b.size) \in Addr
    BY <1>1, FrontTypes, SizesAssumption DEF TypeOK
  <1> QED
    BY <1>1, <1>2, <1>3, <1>4, SizeOfFlagged


\* A boundary of the front stack is its end or the start of a block: the blocks
\* below it fill the segment up to it.
LEMMA FrontBoundary ==
  ASSUME TypeOK, FrontInv, NEW t,
         t = next_front \/ \E e \in fblk : e.at = t
  PROVE  /\ t \in Nat /\ t <= next_front
         /\ t = 0 \/ \E c \in fblk : FEnd(c) = t
         /\ \A c \in fblk : c.at < t <=> FEnd(c) <= t
         /\ \A b \in fblk : b.at < t => FEnd(b) = t \/ \E c \in fblk : c.at = FEnd(b) /\ c.at < t
  <1>1. t \in Nat /\ t <= next_front
    BY FrontBlock DEF TypeOK
  <1>2. t = 0 \/ \E c \in fblk : FEnd(c) = t
    BY DEF FrontInv, FrontShape
  <1>3. ASSUME NEW c \in fblk
        PROVE  c.at < t <=> FEnd(c) <= t
    BY <1>1, FrontBlock DEF FrontInv
  <1>4. ASSUME NEW b \in fblk, b.at < t
        PROVE  FEnd(b) = t \/ \E c \in fblk : c.at = FEnd(b) /\ c.at < t
    <2>1. FEnd(b) <= t /\ FEnd(b) \in Nat
      BY <1>3, <1>4, FrontBlock
    <2>2. CASE FEnd(b) = next_front
      BY <2>1, <2>2, <1>1 DEF TypeOK
    <2>3. CASE \E c \in fblk : c.at = FEnd(b)
      BY <2>1, <2>3, <1>1
    <2> QED
      BY <2>2, <2>3 DEF FrontInv, FrontShape
  <1> QED
    BY <1>1, <1>2, <1>3, <1>4

\* The blocks below t make up a well-shaped front stack that ends at t.
FrontKeptBelow(t) ==
  /\ \A a \in Nat : a <= t => (FreedBelow(a)' <=> FreedBelow(a))
  /\ t = 0 \/ \E c \in fblk' : FEnd(c) = t
  /\ \A b \in fblk' : b.at < t =>
       /\ b \in fblk
       /\ b.at = 0 \/ \E c \in fblk' : FEnd(c) = b.at
       /\ FEnd(b) <= t
       /\ FEnd(b) = t \/ \E c \in fblk' : c.at = FEnd(b)
       /\ mem'[b.at] = IF FreedBelow(b.at)' THEN b.size - FlagBit ELSE b.size
       /\ ~FreedBelow(b.at)' => mem'[LinkAt(b.at, b.size)] = b.at
       /\ \A c \in fblk' : FEnd(c) = b.at /\ ~c.live
                     => mem'[LinkAt(b.at, b.size)] = c.at

\* A step that leaves the blocks below a boundary of the front stack, and their
\* words, as they are keeps the shape of that part of the stack.
LEMMA FrontKept ==
  ASSUME TypeOK, FrontInv, NEW t,
         t = next_front \/ \E e \in fblk : e.at = t,
         fblk' \subseteq Block,
         {c \in fblk' : c.at < t} = {c \in fblk : c.at < t},
         \A a \in Addr : a < t => mem'[a] = mem[a]
  PROVE  FrontKeptBelow(t)
  <1>1. t \in Nat /\ t <= next_front
    BY FrontBoundary
  <1>2. ASSUME NEW c, NEW a \in Nat, a <= t, FEnd(c) = a
        PROVE  c \in fblk' <=> c \in fblk
    <2>1. ASSUME c \in Block PROVE c.at < t
      BY <1>1, <1>2, <2>1, FrontTypes
    <2> QED
      BY <2>1 DEF TypeOK
  <1>3. ASSUME NEW a \in Nat, a <= t
        PROVE  FreedBelow(a)' <=> FreedBelow(a)
    BY <1>2, <1>3 DEF FreedBelow, FEnd
  <1>4. t = 0 \/ \E c \in fblk' : FEnd(c) = t
    BY <1>1, <1>2, FrontBoundary
  <1>5. ASSUME NEW b \in fblk', b.at < t
        PROVE  /\ b \in fblk
               /\ b.at = 0 \/ \E c \in fblk' : FEnd(c) = b.at
               /\ FEnd(b) <= t
               /\ FEnd(b) = t \/ \E c \in fblk' : c.at = FEnd(b)
               /\ mem'[b.at] = IF FreedBelow(b.at)' THEN b.size - FlagBit ELSE b.size
               /\ ~FreedBelow(b.at)' => mem'[LinkAt(b.at, b.size)] = b.at
               /\ \A c \in fblk' : FEnd(c) = b.at /\ ~c.live
                             => mem'[LinkAt(b.at, b.size)] = c.at
    <2>1. b \in fblk
      BY <1>5
    <2>2. FEnd(b) <= t /\ b \in Block /\ b.at \in Nat /\ b.at <= t
      <3>1. b \in Block /\ b.at \in Nat
        BY <2>1 DEF TypeOK
      <3> QED
        BY <2>1, <3>1, <1>1, <1>5, FrontBoundary
    <2>3. b.at = 0 \/ \E c \in fblk' : FEnd(c) = b.at
      BY <2>1, <2>2, <1>2, <1>5 DEF FrontInv, FrontShape
    <2>4. FEnd(b) = t \/ \E c \in fblk' : c.at = FEnd(b)
      BY <2>1, <1>5, FrontBoundary
    <2>5. FreedBelow(b.at)' <=> FreedBelow(b.at)
      BY <1>3, <1>5, <2>2
    <2>6. mem'[b.at] = mem[b.at] /\ mem'[LinkAt(b.at, b.size)] = mem[LinkAt(b.at, b.size)]
      BY <1>1, <2>2, FrontTypes, SizesAssumption DEF TypeOK
    <2>7. \A c \in fblk' : FEnd(c) = b.at => c \in fblk
      BY <1>2, <1>5, <2>2
    <2> QED
      BY <2>1, <2>2, <2>3, <2>4, <2>5, <2>6, <2>7 DEF FrontInv, FrontShape
  <1> QED
    BY <1>3, <1>4, <1>5 DEF FrontKeptBelow

\* Popping: ffree and its loop cut the front stack down to the start of a block.
LEMMA PopFront ==
  ASSUME TypeOK, FrontInv, NEW e \in fblk,
         next_front' = e.at, fblk' = {c \in fblk : c.at < e.at},
         pc' = "ffree", UNCHANGED <<mem, last_back>>
  PROVE  FrontInv'
  <1>0. fblk' \subseteq Block /\ \A b \in fblk' : b \in fblk /\ b.at < e.at
    BY DEF TypeOK
  <1>1. e.at < next_front /\ e.at \in Nat
    BY FrontBlock DEF TypeOK
  <1>2. /\ next_front' < last_back'
        /\ \A b \in fblk' : FEnd(b) <= next_front'
        /\ \A b, c \in fblk' : b # c => FEnd(b) <= c.at \/ FEnd(c) <= b.at
    BY <1>0, <1>1, FrontBoundary DEF FrontInv, TypeOK
  <1>3. {c \in fblk' : c.at < e.at} = {c \in fblk : c.at < e.at}
    OBVIOUS
  <1>4. \A a \in Addr : a < e.at => mem'[a] = mem[a]
    OBVIOUS
  <1>5. FrontKeptBelow(e.at)
    BY <1>0, <1>3, <1>4, FrontKept
  <1>6. Flagged(mem'[next_front']) <=> FreedBelow(next_front)'
    <2>1. FreedBelow(next_front)' <=> FreedBelow(e.at)'
      BY DEF FreedBelow
    <2> QED
      BY <2>1, <1>1, <1>5, FrontBlock DEF FrontKeptBelow
  <1> QED
    BY <1>0, <1>2, <1>5, <1>6 DEF FrontInv, FrontShape, FrontKeptBelow, TypeOK

\* Pushing: a held block nb placed at a boundary becomes the top of the front
\* stack (falloc, and fextend in place of the old top).
LEMMA PutFront ==
  ASSUME TypeOK, FrontInv, NEW nb \in Block,
         nb.at = next_front \/ \E e \in fblk : e.at = nb.at,
         nb.live, ~FreedBelow(nb.at),
         fblk' = {c \in fblk : c.at < nb.at} \cup {nb},
         next_front' = FEnd(nb), FEnd(nb) <= last_back', pc' # "ffree",
         \A a \in Addr : a < nb.at => mem'[a] = mem[a],
         mem'[nb.at] = nb.size, mem'[LinkAt(nb.at, nb.size)] = nb.at
  PROVE  FrontInv'
  <1>0. /\ fblk' \subseteq Block
        /\ \A b \in fblk' : b = nb \/ (b \in fblk /\ b.at < nb.at)
        /\ {c \in fblk' : c.at < nb.at} = {c \in fblk : c.at < nb.at}
    <2>1. nb.at \in Nat
      BY FrontTypes
    <2>2. fblk' \subseteq Block
      BY DEF TypeOK
    <2>3. \A b \in fblk' : b = nb \/ (b \in fblk /\ b.at < nb.at)
      OBVIOUS
    <2>4. {c \in fblk' : c.at < nb.at} = {c \in fblk : c.at < nb.at}
      BY <2>1
    <2> QED
      BY <2>2, <2>3, <2>4
  <1>1. nb.at \in Nat /\ nb.at < FEnd(nb) /\ FEnd(nb) \in Nat
    BY FrontTypes
  <1>2. \A b \in fblk' : b = nb \/ (FEnd(b) <= nb.at /\ FEnd(b) \in Nat)
    BY <1>0, FrontBoundary, FrontBlock
  <1>3. /\ next_front' <= last_back'
        /\ \A b \in fblk' : FEnd(b) <= next_front'
        /\ \A b, c \in fblk' : b # c => FEnd(b) <= c.at \/ FEnd(c) <= b.at
    BY <1>0, <1>1, <1>2 DEF FrontInv
  <1>4. ~FreedBelow(next_front)'
    BY <1>1, <1>2 DEF FreedBelow, FEnd
  <1>k. FrontKeptBelow(nb.at)
    BY <1>0, FrontKept
  <1>5. ~FreedBelow(nb.at)'
    BY <1>k, <1>1 DEF FrontKeptBelow
  <1>6. \A c \in fblk' : FEnd(c) = nb.at => c.live
    BY <1>5 DEF FreedBelow, FEnd
  <1>7. ASSUME NEW b \in fblk'
        PROVE  /\ b.at = 0 \/ \E c \in fblk' : FEnd(c) = b.at
               /\ FEnd(b) = next_front' \/ \E c \in fblk' : c.at = FEnd(b)
               /\ mem'[b.at] = IF FreedBelow(b.at)' THEN b.size - FlagBit ELSE b.size
               /\ ~FreedBelow(b.at)' => mem'[LinkAt(b.at, b.size)] = b.at
               /\ \A c \in fblk' : FEnd(c) = b.at /\ ~c.live
                             => mem'[LinkAt(b.at, b.size)] = c.at
    <2>1. CASE b = nb
      BY <2>1, <1>k, <1>5, <1>6 DEF FrontKeptBelow
    <2>2. CASE b.at < nb.at
      BY <2>2, <1>k DEF FrontKeptBelow
    <2> QED
      BY <2>1, <2>2, <1>0
  <1> QED
    BY <1>3, <1>4, <1>7 DEF FrontInv, FrontShape

\* A step that changes no word below next_front leaves the front stack intact.
LEMMA FrontFrame ==
  ASSUME TypeOK, FrontInv, ~FreedBelow(next_front), pc' # "ffree",
         UNCHANGED <<next_front, fblk>>, next_front <= last_back',
         \A a \in Addr : a < next_front => mem'[a] = mem[a]
  PROVE  FrontInv'
  <1>1. fblk' \subseteq Block /\ \A b \in fblk' : b \in fblk /\ b.at < next_front
    BY FrontBlock DEF TypeOK
  <1>2. ~FreedBelow(next_front)'
    BY DEF FreedBelow, FEnd
  <1>3. {c \in fblk' : c.at < next_front} = {c \in fblk : c.at < next_front}
    OBVIOUS
  <1>4. FrontKeptBelow(next_front)
    BY <1>1, <1>3, FrontKept
  <1> QED
    BY <1>1, <1>2, <1>4 DEF FrontInv, FrontShape, FrontKeptBelow

\* Fragmenting: a block b under another one, c, is freed.  The flag of c is set
\* and its link leads to b; the next pop of c continues there.
LEMMA MarkFront ==
  ASSUME TypeOK, FrontInv, pc = "idle", NEW b \in fblk, NEW c \in fblk,
         c.at = FEnd(b), ~FreedBelow(c.at),
         mem' = [mem EXCEPT ![c.at] = c.size - FlagBit,
                            ![LinkAt(c.at, c.size)] = b.at],
         fblk' = (fblk \ {b}) \cup {[b EXCEPT !.live = FALSE]},
         UNCHANGED <<next_front, last_back, pc>>
  PROVE  FrontInv'
  <1> DEFINE d == [b EXCEPT !.live = FALSE]
  <1>1. b.live /\ b # c /\ b \in Block /\ c \in Block
    BY FrontBlock DEF FreedBelow
  <1>2. /\ d \in Block /\ d.at = b.at /\ d.size = b.size /\ ~d.live
        /\ FEnd(d) = FEnd(b) /\ d \in fblk' /\ fblk' = (fblk \ {b}) \cup {d}
    BY <1>1 DEF FEnd
  <1> HIDE DEF d
  <1>3. ASSUME NEW x \in fblk'
        PROVE  \E y \in fblk : /\ y.at = x.at /\ y.size = x.size /\ FEnd(y) = FEnd(x)
                               /\ y = b \/ (x.live <=> y.live)
                               /\ y = b => x = d
    BY <1>2
  <1>4. ASSUME NEW y \in fblk
        PROVE  \E x \in fblk' : x.at = y.at /\ FEnd(x) = FEnd(y)
    BY <1>2
  <1>5. ASSUME NEW a
        PROVE  FreedBelow(a)' <=> (FreedBelow(a) \/ a = c.at)
    <2>1. FreedBelow(a)' <=> \E x \in fblk' : FEnd(x) = a /\ ~x.live
      BY DEF FreedBelow, FEnd
    <2> QED
      BY <2>1, <1>1, <1>2 DEF FreedBelow
  <1>6. ASSUME NEW x \in fblk, x # c
        PROVE  /\ x.at # c.at
               /\ mem'[x.at] = mem[x.at]
               /\ mem'[LinkAt(x.at, x.size)] = mem[LinkAt(x.at, x.size)]
    <2>1. FEnd(x) <= c.at \/ FEnd(c) <= x.at
      BY <1>6 DEF FrontInv
    <2>2. /\ x.at < LinkAt(x.at, x.size) /\ LinkAt(x.at, x.size) < FEnd(x)
          /\ c.at < LinkAt(c.at, c.size) /\ LinkAt(c.at, c.size) < FEnd(c)
          /\ x.at \in Nat /\ FEnd(x) \in Nat /\ c.at \in Nat /\ FEnd(c) \in Nat
          /\ x.at \in Addr /\ LinkAt(x.at, x.size) \in Addr
          /\ c.at \in Addr /\ LinkAt(c.at, c.size) \in Addr
      BY FrontBlock, FrontTypes
    <2>3. /\ x.at \notin {c.at, LinkAt(c.at, c.size)}
          /\ LinkAt(x.at, x.size) \notin {c.at, LinkAt(c.at, c.size)}
      BY <2>1, <2>2
    <2> QED
      BY <2>2, <2>3 DEF TypeOK
  <1>7. mem'[c.at] = c.size - FlagBit /\ mem'[LinkAt(c.at, c.size)] = b.at
    <2>1. /\ c.at \in Addr /\ LinkAt(c.at, c.size) \in Addr
          /\ c.at # LinkAt(c.at, c.size)
      BY FrontBlock, FrontTypes
    <2> QED
      BY <2>1 DEF TypeOK
  <1>8. /\ \A x \in fblk' : FEnd(x) <= next_front
        /\ \A x, y \in fblk' : x # y => FEnd(x) <= y.at \/ FEnd(y) <= x.at
    BY <1>2, <1>3 DEF FrontInv
  <1>9. ~FreedBelow(next_front)'
    <2>1. c.at < next_front /\ c.at \in Nat
      BY FrontBlock DEF TypeOK
    <2>2. FreedBelow(next_front)' <=> (FreedBelow(next_front) \/ next_front = c.at)
      <3>1. FreedBelow(next_front)' <=> \E x \in fblk' : FEnd(x) = next_front /\ ~x.live
        BY DEF FreedBelow, FEnd
      <3> QED
        BY <3>1, <1>1, <1>2 DEF FreedBelow
    <2> QED
      BY <2>1, <2>2 DEF FrontInv, FrontShape, TypeOK
  <1>10. ASSUME NEW x \in fblk'
         PROVE  /\ x.at = 0 \/ \E z \in fblk' : FEnd(z) = x.at
                /\ FEnd(x) = next_front \/ \E z \in fblk' : z.at = FEnd(x)
                /\ mem'[x.at] = IF FreedBelow(x.at)' THEN x.size - FlagBit ELSE x.size
                /\ ~FreedBelow(x.at)' => mem'[LinkAt(x.at, x.size)] = x.at
                /\ \A z \in fblk' : FEnd(z) = x.at /\ ~z.live
                              => mem'[LinkAt(x.at, x.size)] = z.at
    <2>1. PICK y \in fblk : /\ y.at = x.at /\ y.size = x.size /\ FEnd(y) = FEnd(x)
                            /\ y = b => x = d
      BY <1>3
    <2>2. y.at = 0 \/ \E z \in fblk' : FEnd(z) = y.at
      BY <1>4 DEF FrontInv, FrontShape
    <2>3. FEnd(y) = next_front \/ \E z \in fblk' : z.at = FEnd(y)
      BY <1>4 DEF FrontInv, FrontShape
    <2>4. CASE y = c
      <3>1. FreedBelow(c.at)'
        BY <1>2 DEF FreedBelow, FEnd
      <3>2. \A z \in fblk' : FEnd(z) = c.at => z.at = b.at
        <4>1. \A z \in fblk : FEnd(z) = FEnd(b) => z = b
          BY FrontBlock DEF FrontInv
        <4> QED
          BY <4>1, <1>3
      <3> QED
        BY <2>1, <2>2, <2>3, <2>4, <3>1, <3>2, <1>7
    <2>5. CASE y # c
      <3>1. FreedBelow(y.at)' <=> FreedBelow(y.at)
        BY <2>5, <1>5, <1>6
      <3>2. \A z \in fblk' : FEnd(z) = y.at /\ ~z.live =>
              \E w \in fblk : w.at = z.at /\ FEnd(w) = y.at /\ ~w.live
        BY <2>5, <1>2, <1>3, <1>6
      <3>3. FreedBelow(x.at)' <=> FreedBelow(y.at)
        BY <2>1, <3>1
      <3>0. /\ mem[y.at] = IF FreedBelow(y.at) THEN y.size - FlagBit ELSE y.size
            /\ ~FreedBelow(y.at) => mem[LinkAt(y.at, y.size)] = y.at
            /\ \A w \in fblk : FEnd(w) = y.at /\ ~w.live
                                  => mem[LinkAt(y.at, y.size)] = w.at
        BY DEF FrontInv, FrontShape
      <3>a. mem'[x.at] = mem[y.at] /\ mem'[LinkAt(x.at, x.size)] = mem[LinkAt(y.at, y.size)]
        BY <2>1, <2>5, <1>6
      <3>4. /\ mem'[x.at] = IF FreedBelow(x.at)' THEN x.size - FlagBit ELSE x.size
            /\ ~FreedBelow(x.at)' => mem'[LinkAt(x.at, x.size)] = x.at
        BY <2>1, <3>0, <3>3, <3>a
      <3>5. \A z \in fblk' : FEnd(z) = x.at /\ ~z.live
                              => mem'[LinkAt(x.at, x.size)] = z.at
        BY <2>1, <3>0, <3>2, <3>a
      <3> QED
        BY <2>1, <2>2, <2>3, <3>4, <3>5
    <2> QED
      BY <2>4, <2>5
  <1>11. next_front = 0 \/ \E x \in fblk' : FEnd(x) = next_front
    BY <1>4 DEF FrontInv, FrontShape
  <1> QED
    BY <1>8, <1>9, <1>10, <1>11 DEF FrontInv, FrontShape

\* What the invariant says of one block of the back stack.
LEMMA BackBlock ==
  ASSUME TypeOK, BackInv, NEW b \in bblk
  PROVE  /\ b \in Block /\ b.size \in 0 .. SegSize
         /\ b.at \in Addr /\ b.at < BEnd(b) /\ BEnd(b) \in 0 .. SegSize
         /\ last_back <= b.at
         /\ mem[b.at] \in {b.size, b.size - FlagBit}
         /\ SizeOf(mem[b.at]) = b.size
         /\ Flagged(mem[b.at]) <=> ~b.live
         /\ SetFlag(mem[b.at]) = b.size - FlagBit
  <1>1. /\ b \in Block /\ b.at \in Addr /\ b.at < BEnd(b)
        /\ BEnd(b) \in 0 .. SegSize /\ last_back <= b.at
    BY FrontTypes DEF TypeOK, BackInv
  <1>2. b.size \in 0 .. SegSize
    BY <1>1, SizesAssumption DEF TypeOK, BEnd
  <1>3. mem[b.at] = IF b.live THEN b.size ELSE b.size - FlagBit
    BY DEF BackInv, BackShape
  <1> QED
    BY <1>1, <1>2, <1>3, SizeOfFlagged

\* Popping: bfree and its loop cut the back stack down by its outermost block.
LEMMA PopBack ==
  ASSUME TypeOK, BackInv, NEW e \in bblk, e.at = last_back,
         last_back' = BEnd(e), bblk' = {c \in bblk : c.at >= BEnd(e)},
         pc' = "bfree", UNCHANGED mem
  PROVE  BackInv'
  <1>1. \A b \in bblk' : b \in bblk /\ BEnd(e) <= b.at /\ BEnd(b) <= SegSize
    BY DEF BackInv
  <1>2. \A b \in bblk : b = e \/ b.at >= BEnd(e)
    BY BackBlock DEF BackInv, TypeOK
  <1>3. BEnd(e) = SegSize \/ \E b \in bblk' : b.at = BEnd(e)
    <2>1. ASSUME NEW b \in bblk, b.at = BEnd(e)
          PROVE  b \in bblk'
      BY <2>1, BackBlock
    <2> QED
      BY <2>1 DEF BackInv, BackShape
  <1>4. ASSUME NEW b \in bblk'
        PROVE  BEnd(b) = SegSize \/ \E c \in bblk' : c.at = BEnd(b)
    <2>1. ASSUME NEW c \in bblk, c.at = BEnd(b)
          PROVE  c \in bblk'
      BY <1>1, <2>1, BackBlock
    <2> QED
      BY <1>1, <2>1 DEF BackInv, BackShape
  <1> QED
    BY <1>1, <1>3, <1>4 DEF BackInv, BackShape

\* Pushing: a held block nb that ends at a boundary t becomes the outermost one
\* (balloc, and bextend in place of the old one).
LEMMA PutBack ==
  ASSUME TypeOK, BackInv, NEW nb \in Block, NEW t \in 0 .. SegSize,
         t = SegSize \/ \E e \in bblk : e.at = t,
         last_back <= t, BEnd(nb) = t, nb.live,
         bblk' = {c \in bblk : c.at >= t} \cup {nb},
         last_back' = nb.at,
         \A a \in Addr : a >= t => mem'[a] = mem[a],
         mem'[nb.at] = nb.size
  PROVE  BackInv'
  <1>0. \A b \in bblk' : b = nb \/ (b \in bblk /\ t <= b.at /\ BEnd(b) <= SegSize)
    BY BackBlock
  <1>1. nb.at \in Nat /\ nb.at < t /\ nb \in bblk'
    BY FrontTypes
  <1>2. /\ \A b \in bblk' : nb.at <= b.at /\ BEnd(b) <= SegSize
        /\ \A b, c \in bblk' : b # c => BEnd(b) <= c.at \/ BEnd(c) <= b.at
    BY <1>0, <1>1, BackBlock DEF BackInv
  <1>3. ASSUME NEW c \in bblk, c.at >= t
        PROVE  c \in bblk'
    BY <1>3
  <1>4. ASSUME NEW b \in bblk'
        PROVE  /\ BEnd(b) = SegSize \/ \E c \in bblk' : c.at = BEnd(b)
               /\ mem'[b.at] = IF b.live THEN b.size ELSE b.size - FlagBit
               /\ b.at = nb.at => b.live
    <2>1. CASE b = nb
      BY <2>1, <1>3
    <2>2. CASE b \in bblk /\ t <= b.at
      <3>1. b.at \in Addr /\ b.at # nb.at /\ BEnd(b) \in Nat /\ b.at < BEnd(b)
        BY <2>2, <1>1, BackBlock
      <3>2. \A c \in bblk : c.at = BEnd(b) => c \in bblk'
        BY <2>2, <3>1, <1>3
      <3> QED
        BY <2>2, <3>1, <3>2 DEF BackInv, BackShape
    <2> QED
      BY <2>1, <2>2, <1>0
  <1> QED
    BY <1>1, <1>2, <1>4 DEF BackInv, BackShape

\* A step that changes no word from last_back on leaves the back stack intact.
LEMMA BackFrame ==
  ASSUME TypeOK, BackInv, UNCHANGED <<last_back, bblk>>,
         \A a \in Addr : a >= last_back => mem'[a] = mem[a],
         pc' # "bfree" => \A b \in bblk : b.at = last_back => b.live
  PROVE  BackInv'
  <1>1. \A b \in bblk : b.at \in Addr /\ b.at >= last_back
    BY BackBlock
  <1> QED
    BY <1>1 DEF BackInv, BackShape

\* Fragmenting: a block under the outermost one is flagged as freed.
LEMMA MarkBack ==
  ASSUME TypeOK, BackInv, pc = "idle", NEW b \in bblk, b.at > last_back,
         mem' = [mem EXCEPT ![b.at] = b.size - FlagBit],
         bblk' = (bblk \ {b}) \cup {[b EXCEPT !.live = FALSE]},
         UNCHANGED <<last_back, pc>>
  PROVE  BackInv'
  <1> DEFINE d == [b EXCEPT !.live = FALSE]
  <1>1. /\ b \in Block /\ d \in Block /\ d.at = b.at /\ d.size = b.size /\ ~d.live
        /\ BEnd(d) = BEnd(b) /\ d \in bblk' /\ bblk' = (bblk \ {b}) \cup {d}
    BY BackBlock DEF BEnd
  <1> HIDE DEF d
  <1>2. ASSUME NEW y \in bblk
        PROVE  \E x \in bblk' : x.at = y.at
    BY <1>1
  <1>3. /\ \A x \in bblk' : last_back <= x.at /\ BEnd(x) <= SegSize
        /\ \A x, y \in bblk' : x # y => BEnd(x) <= y.at \/ BEnd(y) <= x.at
    BY <1>1 DEF BackInv
  <1>4. ASSUME NEW x \in bblk'
        PROVE  /\ BEnd(x) = SegSize \/ \E c \in bblk' : c.at = BEnd(x)
               /\ mem'[x.at] = IF x.live THEN x.size ELSE x.size - FlagBit
               /\ x.at = last_back => x.live
    <2>1. CASE x = d
      <3>1. mem'[b.at] = b.size - FlagBit
        BY BackBlock DEF TypeOK
      <3> QED
        BY <2>1, <3>1, <1>1, <1>2, BackBlock DEF BackInv, BackShape, TypeOK
    <2>2. CASE x \in bblk /\ x # b
      <3>1. x.at # b.at /\ x.at \in Addr
        BY <2>2, BackBlock DEF BackInv
      <3>2. mem'[x.at] = mem[x.at]
        BY <3>1 DEF TypeOK
      <3> QED
        BY <2>2, <3>2, <1>2 DEF BackInv, BackShape
    <2> QED
      BY <2>1, <2>2, <1>1
  <1>5. last_back = SegSize \/ \E x \in bblk' : x.at = last_back
    BY <1>2 DEF BackInv, BackShape
  <1> QED
    BY <1>3, <1>4, <1>5 DEF BackInv, BackShape

\* A refused call changes nothing but errcode and the result.
LEMMA RefusedKeeps ==
  ASSUME IInv, pc = "idle", NEW e \in -7 .. 0, Fail(e, -1),
         UNCHANGED <<fblk, bblk>>
  PROVE  IInv'
  <1>1. errcode' \in 0 .. 255
    BY CodeType DEF Fail
  <1>2. TypeOK'
    BY <1>1, SizesAssumption DEF IInv, TypeOK, Fail
  <1>3. ~FreedBelow(next_front) /\ \A b \in bblk : b.at = last_back => b.live
    BY DEF IInv, FrontInv, FrontShape, BackInv, BackShape
  <1>4. FrontInv'
    BY <1>3, FrontFrame DEF IInv, FrontInv, Fail
  <1>5. BackInv'
    BY <1>3, BackFrame DEF IInv, Fail
  <1> QED
    BY <1>2, <1>4, <1>5 DEF IInv

\* Between calls the outermost block of each stack is held.
LEMMA IdleTops ==
  ASSUME IInv, pc = "idle"
  PROVE  ~FreedBelow(next_front) /\ \A b \in bblk : b.at = last_back => b.live
  BY DEF IInv, FrontInv, FrontShape, BackInv, BackShape

\* db_qmm_falloc keeps the invariant.
LEMMA FAllocKeeps ==
  ASSUME IInv, NEW n \in Requests, FAlloc(n)
  PROVE  IInv'
  <1>0. n \in Nat /\ pc = "idle" /\ db_qmm_falloc(n) /\ bblk' = bblk
    BY ClientAssumption DEF FAlloc
  <1>1. CASE Fail(-2, NULL) \/ Fail(-1, NULL)
    <2>1. fblk' = fblk
      BY <1>1 DEF FAlloc, Fail, NULL
    <2> QED
      BY <1>0, <1>1, <2>1, RefusedKeeps DEF NULL
  <1>2. CASE /\ n <= SegSize /\ ~falloc_collides(n)
             /\ mem' = [mem EXCEPT ![next_front] = n,
                                   ![LinkAt(next_front, n)] = next_front]
             /\ Move(next_front + IntSize + n + PtrSize, last_back)
             /\ ret' = next_front + IntSize
             /\ UNCHANGED <<errcode, pc>>
    <2> DEFINE nb == [at |-> next_front, size |-> n, live |-> TRUE]
    <2>1. /\ next_front \in 0 .. SegSize /\ last_back \in 0 .. SegSize
          /\ maxused \in Nat /\ mem \in [Addr -> Word]
      BY DEF IInv, TypeOK
    <2>2. next_front + IntSize + n + PtrSize <= last_back
      BY <1>0, <1>2, <2>1, SizesAssumption DEF falloc_collides
    <2>3. /\ nb \in Block /\ nb.at = next_front /\ nb.size = n /\ nb.live
          /\ FEnd(nb) = next_front + IntSize + n + PtrSize
          /\ LinkAt(nb.at, nb.size) \in Addr /\ nb.at # LinkAt(nb.at, nb.size)
          /\ next_front <= LinkAt(nb.at, nb.size) /\ LinkAt(nb.at, nb.size) < last_back
      BY <1>0, <2>1, <2>2, SizesAssumption DEF FEnd, LinkAt
    <2>4. next_front' = FEnd(nb) /\ last_back' = last_back /\ maxused' \in Nat
      BY <1>2, <2>1, <2>2, <2>3, SizesAssumption DEF Move, Used
    <2>5. fblk' = fblk \cup {nb}
      BY <1>2, <2>1, SizesAssumption DEF FAlloc, NULL
    <2>6. /\ mem' \in [Addr -> Word]
          /\ \A a \in Addr : a < next_front \/ a >= last_back => mem'[a] = mem[a]
          /\ mem'[nb.at] = nb.size /\ mem'[LinkAt(nb.at, nb.size)] = nb.at
      BY <1>0, <1>2, <2>1, <2>3, SizeOfFlagged
    <2> HIDE DEF nb
    <2>7. TypeOK'
      <3>1. next_front' \in 0 .. SegSize /\ last_back' \in 0 .. SegSize /\ ret' \in -1 .. SegSize
        BY <1>0, <1>2, <2>1, <2>2, <2>3, <2>4, SizesAssumption
      <3>2. UNCHANGED <<errcode, pc, bblk>>
        BY <1>0, <1>2
      <3>3. fblk' \subseteq Block
        BY <2>3, <2>5 DEF IInv, TypeOK
      <3> QED
        BY <2>4, <2>6, <3>1, <3>2, <3>3 DEF IInv, TypeOK
    <2>8. FrontInv'
      <3>1. {c \in fblk : c.at < nb.at} = fblk
        BY <2>1, <2>3, FrontBlock DEF IInv
      <3> QED
        BY <1>0, <1>2, <2>2, <2>3, <2>4, <2>5, <2>6, <3>1, IdleTops, PutFront DEF IInv
    <2>9. BackInv'
      BY <1>0, <2>4, <2>6, IdleTops, BackFrame DEF IInv
    <2> QED
      BY <2>7, <2>8, <2>9 DEF IInv
  <1> QED
    BY <1>0, <1>1, <1>2 DEF db_qmm_falloc

\* db_qmm_balloc keeps the invariant.
LEMMA BAllocKeeps ==
  ASSUME IInv, NEW n \in Requests, BAlloc(n)
  PROVE  IInv'
  <1>0. n \in Nat /\ pc = "idle" /\ db_qmm_balloc(n) /\ fblk' = fblk
    BY ClientAssumption DEF BAlloc
  <1>1. CASE Fail(-2, NULL) \/ Fail(-1, NULL)
    <2>1. bblk' = bblk
      BY <1>1 DEF BAlloc, Fail, NULL
    <2> QED
      BY <1>0, <1>1, <2>1, RefusedKeeps DEF NULL
  <1>2. CASE /\ n <= SegSize /\ ~balloc_collides(n)
             /\ Move(next_front, last_back - (n + IntSize))
             /\ mem' = [mem EXCEPT ![last_back - (n + IntSize)] = n]
             /\ ret' = last_back - n
             /\ UNCHANGED <<errcode, pc>>
    <2> DEFINE nb == [at |-> last_back', size |-> n, live |-> TRUE]
    <2>1. /\ next_front \in 0 .. SegSize /\ last_back \in 0 .. SegSize
          /\ maxused \in Nat /\ mem \in [Addr -> Word]
      BY DEF IInv, TypeOK
    <2>2. next_front + n + IntSize <= last_back
      BY <1>0, <1>2, <2>1, SizesAssumption DEF balloc_collides
    <2>3. /\ next_front' = next_front /\ last_back' = last_back - (n + IntSize)
          /\ maxused' \in Nat
      BY <1>0, <1>2, <2>1, <2>2, SizesAssumption DEF Move, Used
    <2>4. /\ nb \in Block /\ nb.at = last_back' /\ nb.size = n /\ nb.live
          /\ BEnd(nb) = last_back
          /\ next_front <= nb.at /\ nb.at < last_back
      BY <1>0, <2>1, <2>2, <2>3, SizesAssumption DEF BEnd
    <2>5. bblk' = bblk \cup {nb}
      BY <1>0, <1>2, <2>1, <2>2, SizesAssumption DEF BAlloc, NULL
    <2>6. /\ mem' \in [Addr -> Word]
          /\ \A a \in Addr : a < next_front \/ a >= last_back => mem'[a] = mem[a]
          /\ mem'[nb.at] = nb.size
      BY <1>0, <1>2, <2>1, <2>3, <2>4, SizeOfFlagged
    <2> HIDE DEF nb
    <2>7. TypeOK'
      <3>1. next_front' \in 0 .. SegSize /\ last_back' \in 0 .. SegSize /\ ret' \in -1 .. SegSize
        BY <1>0, <1>2, <2>1, <2>2, <2>3, SizesAssumption
      <3>2. UNCHANGED <<errcode, pc, fblk>>
        BY <1>0, <1>2
      <3>3. bblk' \subseteq Block
        BY <2>4, <2>5 DEF IInv, TypeOK
      <3> QED
        BY <2>3, <2>6, <3>1, <3>2, <3>3 DEF IInv, TypeOK
    <2>8. FrontInv'
      BY <1>0, <1>2, <2>3, <2>4, <2>6, IdleTops, FrontFrame DEF IInv
    <2>9. BackInv'
      <3>1. {c \in bblk : c.at >= last_back} = bblk
        BY BackBlock DEF IInv
      <3>2. last_back = SegSize \/ \E e \in bblk : e.at = last_back
        BY DEF IInv, BackInv, BackShape
      <3> QED
        BY <2>1, <2>4, <2>5, <2>6, <3>1, <3>2, PutBack DEF IInv
    <2> QED
      BY <2>7, <2>8, <2>9 DEF IInv
  <1> QED
    BY <1>0, <1>1, <1>2 DEF db_qmm_balloc

\* The link of the top front block leads to a block, and between that block and
\* the top of the stack no other block is held: popping through the link takes
\* no space from anyone.
LEMMA PopTakesFreed ==
  ASSUME TypeOK, FrontInv, NEW b \in fblk, FEnd(b) = next_front
  PROVE  \E e \in fblk : /\ mem[LinkAt(b.at, b.size)] = e.at /\ e.at <= b.at
                        /\ \A c \in fblk : c.live /\ c.at >= e.at => c = b
  <1>1. ASSUME NEW c \in fblk, c # b
        PROVE  FEnd(c) <= b.at /\ c.at < b.at
    BY <1>1, FrontBlock DEF FrontInv, TypeOK
  <1>2. CASE FreedBelow(b.at)
    <2>1. PICK e \in fblk : FEnd(e) = b.at /\ ~e.live /\ mem[LinkAt(b.at, b.size)] = e.at
      BY <1>2 DEF FrontInv, FrontShape, FreedBelow
    <2>2. ASSUME NEW c \in fblk, c.live, c # b
          PROVE  c.at < e.at
      BY <1>1, <2>1, <2>2, FrontBlock DEF FrontInv
    <2> QED
      BY <2>1, <2>2, FrontBlock
  <1>3. CASE ~FreedBelow(b.at)
    BY <1>1, <1>3, FrontBlock DEF FrontInv, FrontShape
  <1> QED
    BY <1>2, <1>3

\* After a free that pops the front stack down to t, below or at the freed
\* block b, the blocks left are those that lie below t.
LEMMA LetGoBelow ==
  ASSUME NEW b \in fblk, NEW t \in Int, fblk \subseteq Block, b.at >= t, ret' # -1,
         \A c \in fblk : c.live /\ c.at >= t => c = b
  PROVE  FKeep(LetGo(fblk, b), t) = {c \in fblk : c.at < t}
  <1> DEFINE d == [b EXCEPT !.live = FALSE]
  <1>1. d.at = b.at /\ b.at \in Nat /\ d.live = FALSE
    BY FrontTypes
  <1>2. LetGo(fblk, b) = (fblk \ {b}) \cup {d}
    BY DEF LetGo
  <1>3. \A c \in fblk : c.at \in Nat
    BY FrontTypes
  <1> QED
    BY <1>1, <1>2, <1>3 DEF FKeep

\* db_qmm_ffree, up to its loop, keeps the invariant.
LEMMA FFreeKeeps ==
  ASSUME IInv, NEW b \in fblk, FFree(b)
  PROVE  IInv'
  <1> DEFINE ptr == b.at + IntSize
             at == ptr - IntSize
             size == SizeOf(mem[at])
             next == ptr + size + PtrSize
  <1>0. /\ b.at \in Addr /\ b.size \in Nat /\ FEnd(b) <= next_front /\ b.at < FEnd(b)
        /\ FEnd(b) \in Nat /\ b \in Block
        /\ next_front \in 0 .. SegSize /\ last_back \in 0 .. SegSize
        /\ mem \in [Addr -> Word]
    BY FrontBlock, FrontTypes DEF IInv, TypeOK
  <1>1. at = b.at /\ size = b.size /\ next = FEnd(b) /\ at >= 0
    BY <1>0, FrontBlock, SizesAssumption DEF FEnd, IInv
  <1>2. /\ pc = "idle" /\ bblk' = bblk /\ db_qmm_ffree(ptr)
        /\ fblk' = FKeep(LetGo(fblk, b), next_front')
    BY DEF FFree
  <1>3. ~FreedBelow(next_front)
    BY <1>2, IdleTops
  <1>4. ASSUME NEW e \in -7 .. 0, Fail(e, -1)
        PROVE  IInv'
    <2>1. fblk' = FKeep(fblk, next_front)
      BY <1>2, <1>4 DEF LetGo, Fail
    <2>2. \A c \in fblk : c.at < next_front
      BY <1>0, FrontBlock DEF IInv, TypeOK
    <2>3. fblk' = fblk
      BY <2>1, <2>2 DEF FKeep
    <2> QED
      BY <1>2, <1>4, <2>3, RefusedKeeps
  <1>5. CASE /\ FEnd(b) = next_front
             /\ next_front' = mem[LinkAt(b.at, b.size)]
             /\ ret' = 1 /\ pc' = "ffree"
             /\ UNCHANGED <<mem, last_back, errcode, maxused>>
    <2>1. PICK e \in fblk : /\ next_front' = e.at /\ e.at <= b.at
                           /\ \A c \in fblk : c.live /\ c.at >= e.at => c = b
      BY <1>5, PopTakesFreed DEF IInv
    <2>2. fblk' = {c \in fblk : c.at < e.at}
      <3>1. fblk \subseteq Block /\ e.at \in Int
        BY FrontBlock DEF IInv, TypeOK
      <3>2. fblk' = FKeep(LetGo(fblk, b), e.at) /\ b.at >= e.at /\ ret' # -1
        BY <1>0, <1>2, <1>5, <2>1, <3>1
      <3> QED
        BY <2>1, <3>1, <3>2, LetGoBelow
    <2>3. TypeOK'
      BY <1>0, <1>2, <1>5, <2>1, <2>2, FrontBlock, SizesAssumption DEF IInv, TypeOK
    <2>4. FrontInv'
      BY <1>5, <2>1, <2>2, PopFront DEF IInv
    <2>5. BackInv'
      BY <1>2, <1>5, IdleTops, BackFrame DEF IInv
    <2> QED
      BY <2>3, <2>4, <2>5 DEF IInv
  <1>6. CASE /\ FEnd(b) < next_front /\ ~Flagged(mem[FEnd(b)])
             /\ mem' = [mem EXCEPT ![FEnd(b)] = SetFlag(@),
                                   ![LinkAt(FEnd(b), mem[FEnd(b)])] = b.at]
             /\ errcode' = Code(-3) /\ ret' = 0
             /\ UNCHANGED <<next_front, last_back, maxused, pc>>
    <2>1. PICK c \in fblk : c.at = FEnd(b)
      BY <1>0, <1>6 DEF IInv, FrontInv, FrontShape
    <2>2. ~FreedBelow(c.at) /\ c.size \in 0 .. SegSize /\ c \in Block
      BY <1>6, <2>1, FrontBlock DEF IInv
    <2>3. mem[c.at] = c.size
      BY <2>2 DEF IInv, FrontInv, FrontShape
    <2>4. mem' = [mem EXCEPT ![c.at] = c.size - FlagBit,
                             ![LinkAt(c.at, c.size)] = b.at]
      BY <1>6, <2>1, <2>2, <2>3, SizeOfFlagged
    <2>5. fblk' = (fblk \ {b}) \cup {[b EXCEPT !.live = FALSE]}
      <3>1. LetGo(fblk, b) = (fblk \ {b}) \cup {[b EXCEPT !.live = FALSE]}
        BY <1>6 DEF LetGo
      <3>2. [b EXCEPT !.live = FALSE].at = b.at
        BY <1>0
      <3> QED
        BY <1>0, <1>2, <1>6, <3>1, <3>2, FrontBlock DEF IInv, FKeep
    <2>6. FrontInv'
      BY <1>2, <1>6, <2>1, <2>2, <2>4, <2>5, MarkFront DEF IInv
    <2>7. TypeOK'
      <3>1. mem' \in [Addr -> Word]
        <4>1. b.at \in Word /\ c.size - FlagBit \in Word
          BY <1>0, <2>2, SizesAssumption DEF Word
        <4> QED
          BY <1>0, <2>4, <4>1
      <3>2. fblk' \subseteq Block
        BY <1>0, <2>5 DEF IInv, TypeOK
      <3>3. errcode' \in 0 .. 255 /\ ret' \in -1 .. SegSize
        BY <1>6, CodeType, SizesAssumption
      <3> QED
        BY <1>2, <1>6, <3>1, <3>2, <3>3 DEF IInv, TypeOK
    <2>8. BackInv'
      <3>1. \A a \in Addr : a >= last_back => mem'[a] = mem[a]
        <4>1. FEnd(c) <= last_back /\ c.at < FEnd(c) /\ LinkAt(c.at, c.size) < FEnd(c)
          BY <1>0, <2>2, FrontBlock, FrontTypes DEF IInv, FrontInv
        <4> QED
          BY <1>0, <2>2, <2>4, <4>1, FrontTypes
      <3> QED
        BY <1>2, <1>6, <3>1, IdleTops, BackFrame DEF IInv
    <2> QED
      BY <2>6, <2>7, <2>8 DEF IInv
  <1>7. \/ Fail(-6, -1) \/ Fail(-5, -1)
        \/ /\ next = next_front
           /\ next_front' = mem[LinkAt(at, size)]
           /\ ret' = 1 /\ pc' = "ffree"
           /\ UNCHANGED <<mem, last_back, errcode, maxused>>
        \/ /\ next < next_front /\ ~Flagged(mem[next])
           /\ mem' = [mem EXCEPT ![next] = SetFlag(@),
                                 ![LinkAt(next, mem[next])] = at]
           /\ errcode' = Code(-3) /\ ret' = 0
           /\ UNCHANGED <<next_front, last_back, maxused, pc>>
    BY <1>2 DEF db_qmm_ffree
  <1> HIDE DEF ptr, at, size, next
  <1> QED
    BY <1>1, <1>4, <1>5, <1>6, <1>7

\* db_qmm_ffree refuses every pointer above the front stack.
LEMMA FFreeStrayKeeps ==
  ASSUME IInv, NEW at \in Strays, FFreeStray(at)
  PROVE  IInv' /\ Fail(-6, -1)
  <1>1. /\ at \in Nat /\ at \in Addr /\ next_front \in Nat /\ at + IntSize - IntSize = at
        /\ SizeOf(mem[at]) \in Nat
    BY ClientAssumption, SizesAssumption, SizeOfWord DEF IInv, TypeOK
  <1>2. at >= next_front /\ pc = "idle" /\ UNCHANGED <<fblk, bblk>>
    BY DEF FFreeStray
  <1>3. at + IntSize + SizeOf(mem[at]) + PtrSize > next_front
    BY <1>1, <1>2, SizesAssumption
  <1> DEFINE ptr == at + IntSize
             next == ptr + SizeOf(mem[ptr - IntSize]) + PtrSize
  <1>4. Fail(-6, -1) \/ next = next_front \/ next < next_front
    BY DEF FFreeStray, db_qmm_ffree
  <1>5. next > next_front /\ next \in Int
    BY <1>1, <1>3, SizesAssumption
  <1> HIDE DEF next
  <1>6. Fail(-6, -1)
    BY <1>1, <1>4, <1>5
  <1> QED
    BY <1>2, <1>6, RefusedKeeps

\* db_qmm_bfree refuses every pointer below the back stack.
LEMMA BFreeStrayKeeps ==
  ASSUME IInv, NEW at \in Strays, BFreeStray(at)
  PROVE  IInv' /\ Fail(-6, -1)
  <1>1. at \in Nat /\ last_back \in Nat /\ at + IntSize - IntSize = at
    BY ClientAssumption, SizesAssumption DEF IInv, TypeOK
  <1>2. at < last_back /\ pc = "idle" /\ UNCHANGED <<fblk, bblk>>
    BY DEF BFreeStray
  <1> DEFINE ptr == at + IntSize
             start == ptr - IntSize
  <1>3. Fail(-6, -1) \/ start = last_back \/ start > last_back
    <2>1. db_qmm_bfree(ptr)
      BY DEF BFreeStray
    <2> QED
      BY <2>1 DEF db_qmm_bfree
  <1>4. start = at
    BY <1>1, SizesAssumption
  <1> HIDE DEF start
  <1>5. Fail(-6, -1)
    BY <1>1, <1>2, <1>3, <1>4
  <1> QED
    BY <1>2, <1>5, RefusedKeeps

\* A round of the loop of db_qmm_ffree keeps the invariant.
LEMMA FFreeLoopKeeps ==
  ASSUME IInv, FFreeLoop
  PROVE  IInv'
  <1>1. /\ pc = "ffree" /\ UNCHANGED <<mem, last_back, errcode, maxused, ret, bblk>>
        /\ fblk' = FKeep(fblk, next_front')
        /\ next_front \in 0 .. SegSize /\ fblk \subseteq Block
        /\ Flagged(mem[next_front]) <=> FreedBelow(next_front)
        /\ \A b \in bblk : b.at = last_back => b.live
    BY DEF FFreeLoop, ffree_loop, IInv, FrontInv, FrontShape, BackInv, BackShape, TypeOK
  <1>2. CASE ffree_pops /\ next_front' = ffree_next /\ UNCHANGED pc
    <2>1. PICK c \in fblk : FEnd(c) = next_front /\ ~c.live
      BY <1>1, <1>2 DEF ffree_pops, FreedBelow
    <2>2. ffree_next = mem[LinkAt(c.at, c.size)]
      BY <2>1, FrontBlock, FrontTypes DEF IInv, ffree_next
    <2>3. PICK e \in fblk : /\ next_front' = e.at
                           /\ \A d \in fblk : d.live /\ d.at >= e.at => d = c
      BY <1>2, <2>1, <2>2, PopTakesFreed DEF IInv
    <2>7. fblk' = {d \in fblk : d.at < e.at}
      BY <1>1, <2>1, <2>3, FrontBlock DEF IInv, FKeep
    <2>4. FrontInv'
      BY <1>1, <1>2, <2>3, <2>7, PopFront DEF IInv
    <2>5. BackInv'
      BY <1>1, <1>2, BackFrame DEF IInv
    <2>6. TypeOK'
      <3>1. next_front' \in 0 .. SegSize
        BY <2>3, FrontBlock, SizesAssumption DEF IInv
      <3>2. fblk' \subseteq Block
        BY <1>1, <2>7
      <3> QED
        BY <1>1, <1>2, <3>1, <3>2 DEF IInv, TypeOK
    <2> QED
      BY <2>4, <2>5, <2>6 DEF IInv
  <1>3. CASE ~ffree_pops /\ pc' = "idle" /\ UNCHANGED next_front
    <2>1. ~FreedBelow(next_front)
      <3>1. ASSUME NEW c \in fblk, FEnd(c) = 0
            PROVE  FALSE
        BY <1>1, <3>1, FrontBlock DEF IInv
      <3> QED
        BY <1>1, <1>3, <3>1 DEF ffree_pops, FreedBelow
    <2>2. fblk' = fblk
      <3>1. \A c \in fblk : c.at < next_front
        BY <1>1, FrontBlock DEF IInv, TypeOK
      <3> QED
        BY <1>1, <1>3, <3>1 DEF FKeep
    <2>3. FrontInv'
      BY <1>1, <1>3, <2>1, <2>2, FrontFrame DEF IInv, FrontInv
    <2>4. BackInv'
      BY <1>1, <1>3, BackFrame DEF IInv
    <2>5. TypeOK'
      <3>1. UNCHANGED <<mem, next_front, last_back, errcode, maxused, ret, fblk, bblk>>
        BY <1>1, <1>3, <2>2
      <3> QED
        BY <1>3, <3>1 DEF IInv, TypeOK
    <2> QED
      BY <2>3, <2>4, <2>5 DEF IInv
  <1> QED
    BY <1>2, <1>3 DEF FFreeLoop, ffree_loop

\* db_qmm_bfree, up to its second round, keeps the invariant.
LEMMA BFreeKeeps ==
  ASSUME IInv, NEW b \in bblk, BFree(b)
  PROVE  IInv'
  <1>0. /\ b \in Block /\ b.at \in Nat /\ b.at \in Addr /\ b.size \in Nat
        /\ last_back \in 0 .. SegSize /\ last_back <= b.at
        /\ BEnd(b) \in 0 .. SegSize
    BY BackBlock, FrontTypes DEF IInv, TypeOK
  <1>1. /\ pc = "idle" /\ fblk' = fblk /\ db_qmm_bfree(b.at + IntSize)
        /\ bblk' = BKeep(LetGo(bblk, b), last_back')
    BY DEF BFree
  <1>2. /\ b.at + IntSize - IntSize = b.at /\ SizeOf(mem[b.at]) = b.size
        /\ b.at + IntSize + b.size = BEnd(b)
    BY <1>0, BackBlock, SizesAssumption DEF IInv, BEnd
  <1>3. \/ Fail(-6, -1)
        \/ /\ b.at = last_back /\ last_back' = BEnd(b)
           /\ ret' = 1 /\ pc' = "bfree"
           /\ UNCHANGED <<mem, next_front, errcode, maxused>>
        \/ /\ b.at > last_back
           /\ mem' = [mem EXCEPT ![b.at] = SetFlag(@)]
           /\ errcode' = Code(-4) /\ ret' = 0
           /\ UNCHANGED <<next_front, last_back, maxused, pc>>
    <2> DEFINE ptr == b.at + IntSize
               at == ptr - IntSize
               size == SizeOf(mem[at])
    <2>1. \/ Fail(-6, -1)
          \/ /\ at = last_back /\ last_back' = ptr + size
             /\ ret' = 1 /\ pc' = "bfree"
             /\ UNCHANGED <<mem, next_front, errcode, maxused>>
          \/ /\ at > last_back
             /\ mem' = [mem EXCEPT ![at] = SetFlag(@)]
             /\ errcode' = Code(-4) /\ ret' = 0
             /\ UNCHANGED <<next_front, last_back, maxused, pc>>
      BY <1>1 DEF db_qmm_bfree
    <2>2. at = b.at
      BY <1>0, SizesAssumption
    <2> HIDE DEF at
    <2>3. size = b.size /\ ptr + size = BEnd(b)
      BY <1>2, <2>2
    <2> HIDE DEF ptr, size
    <2> QED
      BY <2>1, <2>2, <2>3
  <1>4. CASE Fail(-6, -1)
    <2>1. bblk' = BKeep(bblk, last_back)
      BY <1>1, <1>4 DEF LetGo, Fail
    <2>2. bblk' = bblk
      BY <2>1, BackBlock DEF IInv, BKeep
    <2> QED
      BY <1>1, <1>4, <2>2, RefusedKeeps
  <1>5. CASE /\ b.at = last_back /\ last_back' = BEnd(b)
             /\ ret' = 1 /\ pc' = "bfree"
             /\ UNCHANGED <<mem, next_front, errcode, maxused>>
    <2>1. bblk' = {c \in bblk : c.at >= BEnd(b)}
      <3> DEFINE d == [b EXCEPT !.live = FALSE]
      <3>1. d.at = b.at /\ b.at < BEnd(b) /\ d.live = FALSE
        BY <1>0, FrontTypes
      <3>2. LetGo(bblk, b) = (bblk \ {b}) \cup {d}
        BY <1>5 DEF LetGo
      <3>3. \A c \in bblk : c # b => BEnd(b) <= c.at
        BY <1>0, <1>5, BackBlock, FrontTypes DEF IInv, BackInv
      <3> QED
        BY <1>0, <1>1, <1>5, <3>1, <3>2, <3>3 DEF BKeep
    <2>2. BackInv'
      BY <1>5, <2>1, PopBack DEF IInv
    <2>3. FrontInv'
      <3>1. next_front <= last_back'
        BY <1>0, <1>5, FrontTypes DEF IInv, FrontInv, TypeOK
      <3> QED
        BY <1>1, <1>5, <3>1, IdleTops, FrontFrame DEF IInv
    <2>4. TypeOK'
      BY <1>0, <1>1, <1>5, <2>1, SizesAssumption DEF IInv, TypeOK
    <2> QED
      BY <2>2, <2>3, <2>4 DEF IInv
  <1>6. CASE /\ b.at > last_back
             /\ mem' = [mem EXCEPT ![b.at] = SetFlag(@)]
             /\ errcode' = Code(-4) /\ ret' = 0
             /\ UNCHANGED <<next_front, last_back, maxused, pc>>
    <2>1. mem' = [mem EXCEPT ![b.at] = b.size - FlagBit]
      BY <1>6, BackBlock DEF IInv
    <2>2. bblk' = (bblk \ {b}) \cup {[b EXCEPT !.live = FALSE]}
      <3> DEFINE d == [b EXCEPT !.live = FALSE]
      <3>1. d.at = b.at
        BY <1>0
      <3>2. LetGo(bblk, b) = (bblk \ {b}) \cup {d}
        BY <1>6 DEF LetGo
      <3> QED
        BY <1>0, <1>1, <1>6, <3>1, <3>2, BackBlock DEF IInv, BKeep
    <2>3. BackInv'
      BY <1>1, <1>6, <2>1, <2>2, MarkBack DEF IInv
    <2>4. FrontInv'
      <3>1. \A a \in Addr : a < next_front => mem'[a] = mem[a]
        BY <1>0, <2>1 DEF IInv, FrontInv, TypeOK
      <3> QED
        BY <1>1, <1>6, <3>1, IdleTops, FrontFrame DEF IInv, FrontInv
    <2>5. TypeOK'
      <3>1. mem' \in [Addr -> Word]
        BY <1>0, <2>1, BackBlock, SizeOfFlagged DEF IInv, TypeOK
      <3>2. bblk' \subseteq Block
        BY <1>0, <2>2 DEF IInv, TypeOK
      <3>3. errcode' \in 0 .. 255 /\ ret' \in -1 .. SegSize
        BY <1>6, CodeType, SizesAssumption
      <3> QED
        BY <1>1, <1>6, <3>1, <3>2, <3>3 DEF IInv, TypeOK
    <2> QED
      BY <2>3, <2>4, <2>5 DEF IInv
  <1> QED
    BY <1>3, <1>4, <1>5, <1>6

\* A round of the loop of db_qmm_bfree keeps the invariant.
LEMMA BFreeLoopKeeps ==
  ASSUME IInv, BFreeLoop
  PROVE  IInv'
  <1>1. /\ pc = "bfree" /\ UNCHANGED <<mem, next_front, errcode, maxused, ret, fblk>>
        /\ bblk' = BKeep(bblk, last_back')
        /\ next_front \in 0 .. SegSize /\ last_back \in 0 .. SegSize
        /\ next_front <= last_back /\ ~FreedBelow(next_front)
    BY DEF BFreeLoop, bfree_loop, IInv, FrontInv, FrontShape, TypeOK
  <1>2. CASE /\ bfree_pops
             /\ last_back' = last_back + IntSize + SizeOf(mem[last_back])
             /\ UNCHANGED pc
    <2>1. PICK e \in bblk : e.at = last_back
      BY <1>1, <1>2 DEF bfree_pops, IInv, BackInv, BackShape
    <2>2. last_back' = BEnd(e) /\ BEnd(e) \in 0 .. SegSize /\ e.at < BEnd(e)
      BY <1>2, <2>1, BackBlock DEF IInv, BEnd
    <2>6. bblk' = {c \in bblk : c.at >= BEnd(e)}
      <3>1. ~e.live
        BY <1>2, <2>1, BackBlock DEF IInv, bfree_pops
      <3>2. \A c \in bblk : c # e => BEnd(e) <= c.at
        BY <1>1, <2>1, BackBlock, FrontTypes DEF IInv, BackInv
      <3> QED
        BY <1>1, <2>2, <3>1, <3>2 DEF BKeep
    <2>3. BackInv'
      BY <1>1, <1>2, <2>1, <2>2, <2>6, PopBack DEF IInv
    <2>4. FrontInv'
      BY <1>1, <1>2, <2>1, <2>2, FrontFrame DEF IInv
    <2>5. TypeOK'
      BY <1>1, <1>2, <2>2, <2>6 DEF IInv, TypeOK
    <2> QED
      BY <2>3, <2>4, <2>5 DEF IInv
  <1>3. CASE ~bfree_pops /\ pc' = "idle" /\ UNCHANGED last_back
    <2>1. ASSUME NEW b \in bblk, b.at = last_back
          PROVE  b.live
      <3>1. last_back < SegSize
        BY <1>1, <2>1, BackBlock, SizesAssumption DEF IInv
      <3> QED
        BY <1>3, <2>1, <3>1, BackBlock DEF bfree_pops, IInv
    <2>2. bblk' = bblk
      BY <1>1, <1>3, BackBlock DEF IInv, BKeep
    <2>3. BackInv'
      BY <1>1, <1>3, <2>1, <2>2, BackFrame DEF IInv
    <2>4. FrontInv'
      BY <1>1, <1>3, FrontFrame DEF IInv
    <2>5. TypeOK'
      BY <1>1, <1>3, <2>2 DEF IInv, TypeOK
    <2> QED
      BY <2>3, <2>4, <2>5 DEF IInv
  <1> QED
    BY <1>2, <1>3 DEF BFreeLoop, bfree_loop

\* db_qmm_fextend keeps the invariant if the client keeps to FExtendRule: the
\* link of the top block then leads to its own size word.
LEMMA FExtendKeeps ==
  ASSUME IInv, NEW n \in Requests, FExtendRule, FExtend(n)
  PROVE  IInv'
  <1>0. /\ n \in Nat /\ pc = "idle" /\ db_qmm_fextend(n) /\ bblk' = bblk
        /\ next_front \in 0 .. SegSize /\ last_back \in 0 .. SegSize
        /\ maxused \in Nat /\ mem \in [Addr -> Word]
    BY ClientAssumption DEF FExtend, IInv, TypeOK
  <1>1. CASE Fail(-2, -1) \/ Fail(-7, -1) \/ Fail(-4, -1)
    <2>1. fblk' = fblk
      BY <1>1 DEF FExtend, Fail
    <2> QED
      BY <1>0, <1>1, <2>1, RefusedKeeps
  <1> DEFINE at == mem[next_front - PtrSize]
             size == SizeOf(mem[at]) + n
  <1>2. CASE /\ next_front > 0 /\ next_front + n <= last_back
             /\ Move(next_front + n, last_back)
             /\ mem' = [mem EXCEPT
                          ![at] = grown(@, n),
                          ![next_front + n - PtrSize] =
                            next_front + n - (size + IntSize + PtrSize)]
             /\ ret' = 1
             /\ UNCHANGED <<errcode, pc>>
    <2>1. PICK b \in fblk : /\ FEnd(b) = next_front
                            /\ fblk' = (fblk \ {b}) \cup {[b EXCEPT !.size = @ + n]}
      BY <1>2 DEF FExtend
    <2> DEFINE nb == [b EXCEPT !.size = @ + n]
    <2>2. /\ b \in Block /\ b.at \in Addr /\ b.size \in Nat /\ b.live
          /\ ~FreedBelow(b.at)
      <3>1. b.live
        BY <1>0, <2>1, IdleTops DEF FreedBelow
      <3>2. ~FreedBelow(b.at)
        BY <2>1 DEF FExtendRule, FreedBelow
      <3> QED
        BY <3>1, <3>2, FrontBlock DEF IInv
    <2>3. /\ nb \in Block /\ nb.at = b.at /\ nb.size = b.size + n /\ nb.live
          /\ FEnd(nb) = next_front + n
      <3>1. nb \in Block /\ nb.at = b.at /\ nb.size = b.size + n /\ nb.live
        BY <1>0, <2>2
      <3>2. FEnd(b) = b.at + IntSize + b.size + PtrSize /\ b.at \in Nat
        BY <2>2 DEF FEnd
      <3>3. FEnd(nb) = nb.at + IntSize + nb.size + PtrSize
        BY DEF FEnd
      <3> HIDE DEF nb
      <3> QED
        BY <1>0, <2>1, <2>2, <3>1, <3>2, <3>3, SizesAssumption
    <2>4. next_front - PtrSize = LinkAt(b.at, b.size)
      BY <2>1, <2>2, FrontTypes
    <2>5. at = b.at
      BY <2>2, <2>4 DEF IInv, FrontInv, FrontShape
    <2>6. mem[b.at] = b.size /\ b.size \in 0 .. SegSize
      BY <2>2, FrontBlock DEF IInv, FrontInv, FrontShape
    <2>7. size = b.size + n /\ grown(mem[b.at], n) = b.size + n
      BY <1>0, <2>5, <2>6, SizeOfFlagged DEF grown
    <2>8. next_front + n - (size + IntSize + PtrSize) = b.at
      <3>1. b.at \in Nat /\ next_front = b.at + IntSize + b.size + PtrSize
        BY <2>1, <2>2 DEF FEnd
      <3>2. n \in Nat /\ b.size \in Nat /\ IntSize \in Nat /\ PtrSize \in Nat
        BY <1>0, <2>6, SizesAssumption
      <3>3. size = b.size + n
        BY <2>7
      <3> HIDE DEF size, at, nb
      <3> QED
        BY <3>1, <3>2, <3>3
    <2>9. next_front + n - PtrSize = LinkAt(nb.at, nb.size)
      <3> HIDE DEF nb
      <3> QED
        BY <1>0, <2>3, FrontTypes, SizesAssumption
    <2> HIDE DEF nb, at, size
    <2>10. mem' = [mem EXCEPT ![b.at] = nb.size, ![LinkAt(nb.at, nb.size)] = b.at]
      BY <1>2, <2>3, <2>5, <2>7, <2>8, <2>9
    <2>11. /\ nb.at < LinkAt(nb.at, nb.size) /\ LinkAt(nb.at, nb.size) < FEnd(nb)
           /\ LinkAt(nb.at, nb.size) \in Addr /\ FEnd(nb) <= last_back
           /\ nb.size \in 0 .. SegSize
      <3>1. FEnd(nb) <= SegSize /\ FEnd(nb) \in Nat
        BY <1>0, <1>2, <2>3, SizesAssumption
      <3>2. nb.size < FEnd(nb) /\ nb.size \in Nat
        BY <2>3, SizesAssumption DEF FEnd
      <3> QED
        BY <1>0, <1>2, <2>3, <3>1, <3>2, FrontTypes, SizesAssumption
    <2>12. /\ mem' \in [Addr -> Word]
           /\ \A a \in Addr : a < nb.at \/ a >= last_back => mem'[a] = mem[a]
           /\ mem'[nb.at] = nb.size /\ mem'[LinkAt(nb.at, nb.size)] = nb.at
      <3>1. nb.size \in Word /\ b.at \in Word
        BY <2>2, <2>11, SizesAssumption DEF Word
      <3> QED
        BY <1>0, <2>2, <2>3, <2>10, <2>11, <3>1, FrontTypes
    <2>13. next_front' = FEnd(nb) /\ last_back' = last_back /\ maxused' \in Nat
      BY <1>0, <1>2, <2>3, SizesAssumption DEF Move, Used
    <2>14. fblk' = {c \in fblk : c.at < nb.at} \cup {nb}
      <3>1. fblk' = (fblk \ {b}) \cup {nb}
        BY <2>1 DEF nb
      <3>2. \A c \in fblk : c.at < b.at <=> c # b
        <4>1. ASSUME NEW c \in fblk, c # b
              PROVE  c.at < b.at
          <5>1. FEnd(c) <= b.at \/ FEnd(b) <= c.at
            BY <4>1 DEF IInv, FrontInv
          <5> QED
            BY <1>0, <2>1, <5>1, FrontBlock DEF IInv
        <4> QED
          BY <2>2, <4>1
      <3> QED
        BY <2>3, <3>1, <3>2
    <2>15. FrontInv'
      BY <1>0, <1>2, <2>2, <2>3, <2>11, <2>12, <2>13, <2>14, PutFront DEF IInv
    <2>16. BackInv'
      BY <1>0, <2>12, <2>13, IdleTops, BackFrame DEF IInv
    <2>17. TypeOK'
      <3>1. /\ next_front' \in 0 .. SegSize /\ last_back' \in 0 .. SegSize
            /\ ret' \in -1 .. SegSize
        BY <1>0, <1>2, <2>3, <2>13, SizesAssumption
      <3>2. UNCHANGED <<errcode, pc, bblk>>
        BY <1>0, <1>2
      <3>3. fblk' \subseteq Block
        BY <2>3, <2>14 DEF IInv, TypeOK
      <3> QED
        BY <2>12, <2>13, <3>1, <3>2, <3>3 DEF IInv, TypeOK
    <2> QED
      BY <2>15, <2>16, <2>17 DEF IInv
  <1> QED
    BY <1>0, <1>1, <1>2 DEF db_qmm_fextend

\* db_qmm_bextend keeps the invariant if the client keeps to BExtendRule: the
\* only thing that keeps it out of the front stack.
LEMMA BExtendKeeps ==
  ASSUME IInv, NEW n \in Requests, BExtendRule(n), BExtend(n)
  PROVE  IInv'
  <1>0. /\ n \in Nat /\ pc = "idle" /\ db_qmm_bextend(n) /\ fblk' = fblk
        /\ next_front \in 0 .. SegSize /\ last_back \in 0 .. SegSize
        /\ maxused \in Nat /\ mem \in [Addr -> Word]
    BY ClientAssumption DEF BExtend, IInv, TypeOK
  <1>1. CASE Fail(-2, NULL) \/ Fail(-1, NULL) \/ Fail(-7, NULL)
    <2>1. bblk' = bblk
      BY <1>1 DEF BExtend, Fail, NULL
    <2> QED
      BY <1>0, <1>1, <2>1, RefusedKeeps DEF NULL
  <1>2. CASE /\ n <= SegSize /\ last_back >= n /\ last_back < SegSize
             /\ Move(next_front, last_back - n)
             /\ mem' = [mem EXCEPT ![last_back - n] = mem[last_back] + n]
             /\ ret' = last_back - n + IntSize
             /\ UNCHANGED <<errcode, pc>>
    <2>1. PICK b \in bblk :
            /\ b.at = last_back
            /\ bblk' = (bblk \ {b})
                         \cup {[at |-> b.at - n, size |-> b.size + n, live |-> b.live]}
      BY <1>0, <1>2, SizesAssumption DEF BExtend, NULL
    <2> DEFINE nb == [at |-> b.at - n, size |-> b.size + n, live |-> b.live]
    <2>2. /\ b \in Block /\ b.at \in Addr /\ b.live /\ mem[b.at] = b.size
          /\ b.size \in 0 .. SegSize /\ b.at < BEnd(b) /\ BEnd(b) \in 0 .. SegSize
      <3>1. b.live
        BY <1>0, <2>1, IdleTops
      <3> QED
        BY <3>1, BackBlock DEF IInv, BackInv, BackShape
    <2>3. next_front + n <= last_back
      BY <1>0, <1>2 DEF BExtendRule
    <2>4. /\ nb \in Block /\ nb.at = last_back - n /\ nb.size = b.size + n /\ nb.live
          /\ BEnd(nb) = BEnd(b) /\ nb.at \in Addr /\ next_front <= nb.at
          /\ nb.at <= last_back
      BY <1>0, <1>2, <2>1, <2>2, <2>3, SizesAssumption DEF BEnd
    <2>5. bblk' = (bblk \ {b}) \cup {nb}
      BY <2>1
    <2> HIDE DEF nb
    <2>6. nb.size \in 0 .. SegSize
      <3>1. nb.size <= BEnd(nb)
        BY <2>4, SizesAssumption DEF BEnd
      <3> QED
        BY <1>0, <2>2, <2>4, <3>1, SizesAssumption
    <2>7. mem' = [mem EXCEPT ![nb.at] = nb.size]
      BY <1>2, <2>1, <2>2, <2>4
    <2>8. /\ mem' \in [Addr -> Word]
          /\ \A a \in Addr : a < next_front \/ a > last_back => mem'[a] = mem[a]
          /\ mem'[nb.at] = nb.size
      BY <1>0, <2>4, <2>6, <2>7, SizeOfFlagged
    <2>9. next_front' = next_front /\ last_back' = nb.at /\ maxused' \in Nat
      BY <1>0, <1>2, <2>4, SizesAssumption DEF Move, Used
    <2>10. bblk' = {c \in bblk : c.at >= BEnd(b)} \cup {nb}
      <3>1. \A c \in bblk : c.at >= BEnd(b) <=> c # b
        BY <2>1, <2>2, BackBlock DEF IInv, BackInv
      <3> QED
        BY <2>5, <3>1
    <2>11. BackInv'
      <3>1. BEnd(b) = SegSize \/ \E e \in bblk : e.at = BEnd(b)
        BY DEF IInv, BackInv, BackShape
      <3>2. \A a \in Addr : a >= BEnd(b) => mem'[a] = mem[a]
        BY <1>0, <2>1, <2>2, <2>8
      <3>3. last_back <= BEnd(b)
        BY <1>0, <2>1, <2>2
      <3> QED
        BY <2>2, <2>4, <2>8, <2>9, <2>10, <3>1, <3>2, <3>3, PutBack DEF IInv
    <2>12. FrontInv'
      <3>1. \A a \in Addr : a < next_front => mem'[a] = mem[a]
        BY <2>8
      <3> QED
        BY <1>0, <1>2, <2>4, <2>9, <3>1, IdleTops, FrontFrame DEF IInv
    <2>13. TypeOK'
      <3>1. /\ next_front' \in 0 .. SegSize /\ last_back' \in 0 .. SegSize
            /\ ret' \in -1 .. SegSize
        <4>1. ret' = nb.at + IntSize /\ nb.at + IntSize <= BEnd(nb)
          BY <1>2, <2>4, <2>6, SizesAssumption DEF BEnd
        <4> QED
          BY <1>0, <2>2, <2>4, <2>9, <4>1, SizesAssumption
      <3>2. UNCHANGED <<errcode, pc, fblk>>
        BY <1>0, <1>2
      <3>3. bblk' \subseteq Block
        BY <2>4, <2>10 DEF IInv, TypeOK
      <3> QED
        BY <2>8, <2>9, <3>1, <3>2, <3>3 DEF IInv, TypeOK
    <2> QED
      BY <2>11, <2>12, <2>13 DEF IInv
  <1> QED
    BY <1>0, <1>1, <1>2 DEF db_qmm_bextend

\* db_qmm_fclear keeps the invariant.
LEMMA FClearKeeps ==
  ASSUME IInv, FClear
  PROVE  IInv'
  <1>1. /\ pc = "idle" /\ next_front' = 0 /\ fblk' = {}
        /\ UNCHANGED <<mem, last_back, errcode, maxused, ret, pc, bblk>>
    BY DEF FClear, db_qmm_fclear
  <1>2. BackInv'
    BY <1>1, IdleTops, BackFrame DEF IInv
  <1>3. FrontInv'
    BY <1>1 DEF IInv, TypeOK, FrontInv, FrontShape, FreedBelow
  <1>4. TypeOK'
    BY <1>1, SizesAssumption DEF IInv, TypeOK
  <1> QED
    BY <1>2, <1>3, <1>4 DEF IInv

\* db_qmm_bclear keeps the invariant.
LEMMA BClearKeeps ==
  ASSUME IInv, BClear
  PROVE  IInv'
  <1>1. /\ pc = "idle" /\ last_back' = SegSize /\ bblk' = {}
        /\ UNCHANGED <<mem, next_front, errcode, maxused, ret, pc, fblk>>
    BY DEF BClear, db_qmm_bclear
  <1>2. BackInv'
    BY <1>1 DEF BackInv, BackShape
  <1>3. FrontInv'
    BY <1>1, IdleTops, FrontFrame DEF IInv, TypeOK
  <1>4. TypeOK'
    BY <1>1, SizesAssumption DEF IInv, TypeOK
  <1> QED
    BY <1>2, <1>3, <1>4 DEF IInv

\* The size words and links of the manager lie outside every payload.
LEMMA WordsOutsidePayloads ==
  ASSUME IInv, NEW b \in fblk \cup bblk
  PROVE  /\ \A c \in fblk : c.at \notin Payload(b) /\ LinkAt(c.at, c.size) \notin Payload(b)
         /\ \A c \in bblk : c.at \notin Payload(b)
  <1>1. /\ b \in Block /\ b.at \in Nat /\ b.size \in Nat
        /\ BEnd(b) = b.at + IntSize + b.size
        /\ FEnd(b) = BEnd(b) + PtrSize
        /\ Payload(b) = b.at + IntSize .. BEnd(b) - 1
    BY SizesAssumption DEF IInv, TypeOK, Payload, BEnd, FEnd
  <1>2. next_front \in Nat /\ last_back \in Nat /\ next_front <= last_back
    BY DEF IInv, TypeOK, FrontInv
  <1>3. ASSUME NEW c \in fblk
        PROVE  c.at \notin Payload(b) /\ LinkAt(c.at, c.size) \notin Payload(b)
    <2>1. /\ c.at \in Nat /\ FEnd(c) \in Nat /\ FEnd(c) <= next_front
          /\ c.at < LinkAt(c.at, c.size) /\ LinkAt(c.at, c.size) < FEnd(c)
          /\ LinkAt(c.at, c.size) = FEnd(c) - PtrSize
          /\ LinkAt(c.at, c.size) \in Nat
      BY FrontBlock, FrontTypes DEF IInv
    <2>2. CASE b \in bblk
      <3>1. last_back <= b.at
        BY <2>2, BackBlock DEF IInv
      <3>2. c.at < b.at /\ LinkAt(c.at, c.size) < b.at
        BY <1>1, <1>2, <2>1, <3>1
      <3> QED
        BY <1>1, <2>1, <3>2, SizesAssumption
    <2>3. CASE b = c
      BY <1>1, <2>1, <2>3, SizesAssumption
    <2>4. CASE b \in fblk /\ b # c
      <3>1. FEnd(b) <= c.at \/ FEnd(c) <= b.at
        BY <2>4 DEF IInv, FrontInv
      <3> QED
        BY <1>1, <2>1, <3>1, SizesAssumption
    <2> QED
      BY <2>2, <2>3, <2>4
  <1>4. ASSUME NEW c \in bblk
        PROVE  c.at \notin Payload(b)
    <2>1. c.at \in Nat /\ BEnd(c) \in Nat /\ last_back <= c.at /\ c.at < BEnd(c)
      BY BackBlock DEF IInv
    <2>2. CASE b \in fblk
      BY <1>1, <1>2, <2>1, <2>2, FrontBlock, SizesAssumption DEF IInv
    <2>3. CASE b = c
      BY <1>1, <2>1, <2>3, SizesAssumption
    <2>4. CASE b \in bblk /\ b # c
      <3>1. BEnd(b) <= c.at \/ BEnd(c) <= b.at
        BY <2>4 DEF IInv, BackInv
      <3> QED
        BY <1>1, <2>1, <3>1, SizesAssumption
    <2> QED
      BY <2>2, <2>3, <2>4
  <1> QED
    BY <1>3, <1>4

\* A client that writes only in blocks it holds keeps the invariant.
LEMMA FillKeeps ==
  ASSUME IInv, NEW b \in fblk \cup bblk, NEW w \in Data, Fill(b, w)
  PROVE  IInv'
  <1>1. /\ pc = "idle"
        /\ UNCHANGED <<next_front, last_back, errcode, maxused, ret, pc, fblk, bblk>>
        /\ mem' = [a \in Addr |-> IF a \in Payload(b) THEN w ELSE mem[a]]
    BY DEF Fill
  <1>2. TypeOK'
    BY <1>1, ClientAssumption DEF IInv, TypeOK
  <1>3. /\ \A c \in fblk : mem'[c.at] = mem[c.at]
                           /\ mem'[LinkAt(c.at, c.size)] = mem[LinkAt(c.at, c.size)]
        /\ \A c \in bblk : mem'[c.at] = mem[c.at]
    BY <1>1, WordsOutsidePayloads, FrontBlock, BackBlock DEF IInv
  <1>4. \A a : FreedBelow(a)' <=> FreedBelow(a)
    BY <1>1 DEF FreedBelow, FEnd
  <1>5. FrontInv'
    BY <1>1, <1>3, <1>4 DEF IInv, FrontInv, FrontShape
  <1>6. BackInv'
    BY <1>1, <1>3 DEF IInv, BackInv, BackShape
  <1> QED
    BY <1>2, <1>5, <1>6 DEF IInv

\* The segment init_query_mm sets up satisfies the invariant.
THEOREM InitIInv == Init => IInv
  <1> SUFFICES ASSUME Init PROVE IInv
    OBVIOUS
  <1>1. TypeOK
    BY ClientAssumption, SizesAssumption DEF Init, init_query_mm, TypeOK
  <1>2. FrontInv
    BY SizesAssumption DEF Init, init_query_mm, FrontInv, FrontShape, FreedBelow
  <1>3. BackInv
    BY DEF Init, init_query_mm, BackInv, BackShape
  <1> QED
    BY <1>1, <1>2, <1>3 DEF IInv

\* Every step keeps the invariant: one step of the proof per action.
THEOREM NextIInv == IInv /\ [Next]_vars => IInv'
  <1> SUFFICES ASSUME IInv, [Next]_vars PROVE IInv'
    OBVIOUS
  <1>1. ASSUME NEW n \in Requests, FAlloc(n) PROVE IInv'
    BY <1>1, FAllocKeeps
  <1>2. ASSUME NEW n \in Requests, BAlloc(n) PROVE IInv'
    BY <1>2, BAllocKeeps
  <1>3. ASSUME NEW n \in Requests, FExtendRule, FExtend(n) PROVE IInv'
    BY <1>3, FExtendKeeps
  <1>4. ASSUME NEW n \in Requests, BExtendRule(n), BExtend(n) PROVE IInv'
    BY <1>4, BExtendKeeps
  <1>5. ASSUME NEW b \in fblk, FFree(b) PROVE IInv'
    BY <1>5, FFreeKeeps
  <1>6. ASSUME NEW b \in bblk, BFree(b) PROVE IInv'
    BY <1>6, BFreeKeeps
  <1>7. ASSUME NEW at \in Strays, FFreeStray(at) PROVE IInv'
    BY <1>7, FFreeStrayKeeps
  <1>8. ASSUME NEW at \in Strays, BFreeStray(at) PROVE IInv'
    BY <1>8, BFreeStrayKeeps
  <1>9. CASE FClear
    BY <1>9, FClearKeeps
  <1>10. CASE BClear
    BY <1>10, BClearKeeps
  <1>11. CASE Loop
    BY <1>11, FFreeLoopKeeps, BFreeLoopKeeps DEF Loop
  <1>12. ASSUME NEW b \in fblk \cup bblk, NEW w \in Data, Fill(b, w) PROVE IInv'
    BY <1>12, FillKeeps
  <1>13. CASE UNCHANGED vars
    BY <1>13 DEF vars, IInv, TypeOK, FrontInv, FrontShape, FreedBelow, BackInv, BackShape
  <1> QED
    BY <1>1, <1>2, <1>3, <1>4, <1>5, <1>6, <1>7, <1>8, <1>9, <1>10, <1>11, <1>12, <1>13
       DEF Next, Call

\* The invariant holds in every reachable state, for every size of the segment,
\* of the words and of the requests.
THEOREM SpecIInv == Spec => []IInv
  BY InitIInv, NextIInv, PTL DEF Spec
===============================================================================
