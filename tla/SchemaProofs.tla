---------------------------- MODULE SchemaProofs -----------------------------
(***************************************************************************)
(* The theorems about Schema.                                              *)
(***************************************************************************)
EXTENDS Schema, SequenceTheorems, TLAPS

Back == INSTANCE BackStack
  WITH flive <- {}, PtrSize <- IntSize, Requests <- OtherSizes
------------------------------------------------------------------------------
(***************************************************************************)
(* The inductive invariants.                                               *)
(***************************************************************************)
\* What a file may hold: the beginning of a schema.
Contents == UNION {Prefixes(FileOf[s]) : s \in Schemas}
FilesTyped == files \in [Tables -> Contents \cup {None}]

\* A running call knows its table, whose file is there.
CallTyped ==
  /\ pc \in {"idle", "create", "load", "free"} /\ (pc = "idle" => op = None)
  /\ pc = "create" =>
       /\ op \in [tbl : Tables, of : Schemas] /\ files[op.tbl] # None
       /\ files[op.tbl] \in Prefixes(FileOf[op.of])
  /\ pc = "load" => op \in [tbl : Tables] /\ files[op.tbl] # None
  /\ pc = "free" => op \in [i : Nat] /\ schema # None /\ op.i <= schema.num
  /\ open \in 0 .. MaxOpen /\ (pc \in {"create", "load"} => open > 0)

LoadedTyped ==
  schema # None =>
    /\ schema \in Loaded
    /\ Len(schema.names) = Len(schema.read) /\ Len(schema.names) <= schema.num
    /\ pc # "load" => Len(schema.names) = schema.num

TypeInv ==
  /\ FilesTyped /\ CallTyped /\ LoadedTyped
  /\ stuck \in {"no", "failed", "stale"} /\ clean \in BOOLEAN
  /\ Back!BackOK

Live(i) == schema.names[i] # NULL
NoneFreed == \A i \in DOMAIN schema.names : Live(i)
AllFreed == \A i \in DOMAIN schema.names : ~Live(i)

\* The blocks of a loaded schema were allocated from the top of the stack down.
Descending ==
  schema # None =>
    /\ \A i, j \in DOMAIN schema.names :
         i < j /\ Live(i) /\ Live(j) => schema.names[j] < schema.names[i]
    /\ \A i \in DOMAIN schema.names :
         Live(i) /\ schema.items # NULL => schema.names[i] < schema.items

\* They are held until freeing them fails, and the blocks that were lost lie above
\* them.  After a free has failed they belong to nobody else as long as nothing is
\* allocated.
OwnBlocks ==
  /\ others \subseteq blive
  /\ stuck = "no" => \A p \in OwnPtrs : \E b \in blive \ others : b.ptr = p
  /\ stuck = "no" =>
       \A b \in blive \ others, p \in OwnPtrs : b.ptr \in OwnPtrs \/ p < b.ptr
  /\ stuck # "stale" => \A p \in OwnPtrs, b \in others : b.ptr # p
  /\ pc = "load" => stuck = "no"
  /\ pc = "free" => stuck # "stale"

\* How far freeing has come.
Freeing ==
  schema # None /\ stuck = "no" =>
    /\ pc = "load" => NoneFreed /\ schema.items # NULL
    /\ pc \in {"idle", "create"} => NoneFreed \/ AllFreed
    /\ pc = "free" =>
         \/ AllFreed /\ op.i = schema.num
         \/ \A i \in DOMAIN schema.names : Live(i) <=> i <= op.i
    /\ schema.items = NULL => AllFreed
    /\ pc # "load" /\ status = "FAILED_TO_FREE_MEMORY" => AllFreed

\* Without a failure nothing is lost.
CleanInv ==
  clean =>
    /\ stuck = "no" /\ \A b \in blive \ others : b.ptr \in OwnPtrs
    /\ open = IF pc \in {"create", "load"} THEN 1 ELSE 0
------------------------------------------------------------------------------
(***************************************************************************)
(* Files.                                                                  *)
(***************************************************************************)
\* Field k of item i is at 2 + 4 * (i - 1) + k.
LEMMA FieldIndex ==
  ASSUME NEW i \in Nat \ {0}, NEW k \in 1 .. 4
  PROVE  /\ ((2 + 4 * (i - 1) + k) - 3) \div 4 + 1 = i
         /\ (((2 + 4 * (i - 1) + k) - 3) % 4) + 1 = k
  OBVIOUS

LEMMA FileIs ==
  ASSUME NEW s \in Schemas
  PROVE  /\ s \in [id : Nat, items : Seq(Attributes)] /\ Len(s.items) \in Nat
         /\ \E S : FileOf[s] \in Seq(S)
         /\ Len(FileOf[s]) = 2 + 4 * Len(s.items)
         /\ FileOf[s][1] = <<s.id, 1>> /\ FileOf[s][2] = <<Len(s.items), 1>>
         /\ \A i \in 1 .. Len(s.items), k \in 1 .. 4 :
              FileOf[s][2 + 4 * (i - 1) + k] = ItemField(s.items[i], k)
  <1>1. s \in [id : Nat, items : Seq(Attributes)] /\ Len(s.items) \in Nat
    BY SchemaAssumption
  <1> DEFINE n == 2 + 4 * Len(s.items)
             e(k) == CASE k = 1 -> <<s.id, 1>>
                       [] k = 2 -> <<Len(s.items), 1>>
                       [] OTHER -> ItemField(s.items[(k - 3) \div 4 + 1], ((k - 3) % 4) + 1)
  <1>2. FileOf[s] = [k \in 1 .. n |-> e(k)] /\ n \in Nat /\ n >= 2
    BY <1>1 DEF FileOf, Serial
  <1>3. \E S : FileOf[s] \in Seq(S)
    <2> DEFINE S == {FileOf[s][k] : k \in 1 .. n}
    <2>1. FileOf[s] = [k \in 1 .. n |-> FileOf[s][k]] /\ \A k \in 1 .. n : FileOf[s][k] \in S
      BY <1>2
    <2> HIDE DEF S, n, e
    <2>2. [k \in 1 .. n |-> FileOf[s][k]] \in Seq(S)
      BY <1>2, <2>1
    <2> QED
      BY <2>1, <2>2
  <1>4. Len(FileOf[s]) = n /\ \A k \in 1 .. n : FileOf[s][k] = e(k)
    <2> HIDE DEF n, e
    <2> QED
      BY <1>2
  <1>5. FileOf[s][1] = <<s.id, 1>> /\ FileOf[s][2] = <<Len(s.items), 1>>
    <2>1. 1 \in 1 .. n /\ 2 \in 1 .. n
      BY <1>1
    <2>2. e(1) = <<s.id, 1>> /\ e(2) = <<Len(s.items), 1>>
      OBVIOUS
    <2> HIDE DEF n, e
    <2> QED
      BY <1>4, <2>1, <2>2
  <1>6. \A i \in 1 .. Len(s.items), k \in 1 .. 4 :
          FileOf[s][2 + 4 * (i - 1) + k] = ItemField(s.items[i], k)
    <2> SUFFICES ASSUME NEW i \in 1 .. Len(s.items), NEW k \in 1 .. 4
                 PROVE  FileOf[s][2 + 4 * (i - 1) + k] = ItemField(s.items[i], k)
      OBVIOUS
    <2> DEFINE j == 2 + 4 * (i - 1) + k
    <2>1. j \in 1 .. n /\ j # 1 /\ j # 2
      BY <1>1
    <2>2. (j - 3) \div 4 + 1 = i /\ ((j - 3) % 4) + 1 = k
      <3>1. i \in Nat \ {0}
        BY <1>1
      <3> QED
        BY <3>1, FieldIndex
    <2>3. e(j) = ItemField(s.items[i], k)
      <3> HIDE DEF j
      <3> QED
        BY <2>1, <2>2
    <2>4. FileOf[s][j] = e(j)
      <3> HIDE DEF j, n, e
      <3> QED
        BY <1>4, <2>1
    <2> QED
      BY <2>3, <2>4
  <1>7. Len(FileOf[s]) = 2 + 4 * Len(s.items)
    BY <1>4
  <1> HIDE DEF n, e
  <1> QED
    BY <1>1, <1>3, <1>5, <1>6, <1>7

\* A prefix agrees with its file as far as it goes.
LEMMA PrefixIs ==
  ASSUME NEW S, NEW file \in Seq(S), NEW p
  PROVE  p \in Prefixes(file) <=>
           /\ p \in Seq(S) /\ Len(p) <= Len(file)
           /\ \A k \in 1 .. Len(p) : p[k] = file[k]
  <1>1. ASSUME NEW n \in 0 .. Len(file)
        PROVE  /\ SubSeq(file, 1, n) \in Seq(S) /\ Len(SubSeq(file, 1, n)) = n
               /\ \A k \in 1 .. n : SubSeq(file, 1, n)[k] = file[k]
    <2>1. \A i \in 1 .. n : file[i] \in S
      OBVIOUS
    <2> QED
      BY <2>1, SubSeqProperties
  <1>2. ASSUME p \in Prefixes(file)
        PROVE  /\ p \in Seq(S) /\ Len(p) <= Len(file)
               /\ \A k \in 1 .. Len(p) : p[k] = file[k]
    BY <1>1, <1>2 DEF Prefixes
  <1>3. ASSUME p \in Seq(S), Len(p) <= Len(file), \A k \in 1 .. Len(p) : p[k] = file[k]
        PROVE  p \in Prefixes(file)
    <2>1. Len(p) \in 0 .. Len(file)
      BY <1>3
    <2>2. p = SubSeq(file, 1, Len(p))
      BY <1>1, <1>3, <2>1, SeqEqual
    <2> QED
      BY <2>1, <2>2 DEF Prefixes
  <1> QED
    BY <1>2, <1>3

\* The empty file, a longer prefix, and a prefix of a prefix.
LEMMA MorePrefixes ==
  ASSUME NEW S, NEW file \in Seq(S), NEW p \in Prefixes(file)
  PROVE  /\ <<>> \in Prefixes(file)
         /\ Len(p) < Len(file) => Append(p, file[Len(p) + 1]) \in Prefixes(file)
         /\ Prefixes(p) \subseteq Prefixes(file)
         /\ Len(p) \in Nat
  <1>1. p \in Seq(S) /\ Len(p) <= Len(file) /\ \A k \in 1 .. Len(p) : p[k] = file[k]
    BY PrefixIs
  <1>2. <<>> \in Prefixes(file)
    <2>1. <<>> \in Seq(S) /\ Len(<<>>) <= Len(file)
      OBVIOUS
    <2>2. \A k \in 1 .. Len(<<>>) : <<>>[k] = file[k]
      OBVIOUS
    <2> QED
      BY <2>1, <2>2, PrefixIs
  <1>3. ASSUME Len(p) < Len(file)
        PROVE  Append(p, file[Len(p) + 1]) \in Prefixes(file)
    <2> DEFINE q == Append(p, file[Len(p) + 1])
    <2>1. file[Len(p) + 1] \in S
      BY <1>1, <1>3
    <2>2. /\ q \in Seq(S) /\ Len(q) = Len(p) + 1
          /\ \A k \in 1 .. Len(p) : q[k] = p[k]
          /\ q[Len(p) + 1] = file[Len(p) + 1]
      BY <1>1, <2>1, AppendProperties
    <2> HIDE DEF q
    <2>3. Len(q) <= Len(file) /\ \A k \in 1 .. Len(q) : q[k] = file[k]
      BY <1>1, <1>3, <2>2
    <2>4. q \in Prefixes(file)
      BY <2>2, <2>3, PrefixIs
    <2> QED
      BY <2>4 DEF q
  <1>4. ASSUME NEW q \in Prefixes(p) PROVE q \in Prefixes(file)
    <2>1. q \in Seq(S) /\ Len(q) <= Len(p) /\ \A k \in 1 .. Len(q) : q[k] = p[k]
      BY <1>1, <1>4, PrefixIs
    <2>2. Len(q) <= Len(file) /\ \A k \in 1 .. Len(q) : q[k] = file[k]
      BY <1>1, <2>1
    <2> QED
      BY <2>1, <2>2, PrefixIs
  <1> QED
    BY <1>1, <1>2, <1>3, <1>4

\* What is read of an item has the type of an attribute.
LEMMA ItemTyped ==
  ASSUME NEW s \in Schemas, NEW file \in Prefixes(FileOf[s]),
         NEW i \in Nat \ {0}, 2 + 4 * (i - 1) + 4 <= Len(file)
  PROVE  /\ i <= Len(s.items)
         /\ Item(file, i) = [name |-> Text(ItemField(s.items[i], 2)),
                             type |-> s.items[i].type, size |-> s.items[i].size]
         /\ Item(file, i) \in [name : DOMAIN NameLen \cup {Garbled}, type : Nat, size : Nat]
  <1>1. PICK S : FileOf[s] \in Seq(S)
    BY FileIs
  <1>2. /\ Len(file) \in Nat /\ Len(file) <= 2 + 4 * Len(s.items) /\ Len(s.items) \in Nat
        /\ \A k \in 1 .. Len(file) : file[k] = FileOf[s][k]
    BY <1>1, PrefixIs, FileIs
  <1>3. i \in 1 .. Len(s.items)
    BY <1>2
  <1>4. \A k \in 1 .. 4 : file[2 + 4 * (i - 1) + k] = ItemField(s.items[i], k)
    <2> TAKE k \in 1 .. 4
    <2>1. 2 + 4 * (i - 1) + k \in 1 .. Len(file)
      BY <1>2, <1>3
    <2> QED
      BY <1>2, <1>3, <2>1, FileIs
  <1>5. /\ s.items[i] \in Attributes
        /\ s.items[i].name \in DOMAIN NameLen
        /\ s.items[i].type \in Nat /\ s.items[i].size \in Nat
    <2>1. s.items[i] \in Attributes
      BY <1>3, FileIs
    <2> QED
      BY <2>1 DEF Attributes
  <1>6. Item(file, i) = [name |-> Text(ItemField(s.items[i], 2)),
                         type |-> s.items[i].type, size |-> s.items[i].size]
    <2> DEFINE a == s.items[i]
               at == 2 + 4 * (i - 1)
    <2>1. /\ file[at + 2] = ItemField(a, 2) /\ file[at + 3] = ItemField(a, 3)
          /\ file[at + 4] = ItemField(a, 4)
      BY <1>4
    <2>2. ItemField(a, 3)[1] = a.type /\ ItemField(a, 4)[1] = a.size
      BY DEF ItemField
    <2> HIDE DEF a
    <2>3. Item(file, i) = [name |-> Text(file[at + 2]), type |-> file[at + 3][1],
                           size |-> file[at + 4][1]]
      BY DEF Item
    <2>4. Item(file, i) = [name |-> Text(ItemField(a, 2)), type |-> a.type, size |-> a.size]
      BY <2>1, <2>2, <2>3
    <2> QED
      BY <2>4 DEF a
  <1>7. Text(ItemField(s.items[i], 2)) \in DOMAIN NameLen \cup {Garbled}
    BY <1>5 DEF Text, ItemField
  <1> QED
    BY <1>3, <1>5, <1>6, <1>7
------------------------------------------------------------------------------
(***************************************************************************)
(* The struct of a loaded schema.                                          *)
(***************************************************************************)
Pointers == 0 .. SegSize \cup {NULL}
ReadItems == [name : DOMAIN NameLen \cup {Garbled}, type : Nat, size : Nat]

\* Its fields, and that a new one is typed.
LEMMA LoadedIs ==
  /\ \A l \in Loaded : /\ l.id \in Nat /\ l.num \in Nat /\ l.items \in Pointers
                       /\ l.names \in Seq(Pointers) /\ l.read \in Seq(ReadItems)
  /\ \A i \in Nat, n \in Nat, p \in Pointers :
       [id |-> i, num |-> n, items |-> p, names |-> <<>>, read |-> <<>>] \in Loaded
  <1> DEFINE N == Seq(Pointers)
             R == Seq(ReadItems)
  <1>1. <<>> \in N /\ <<>> \in R
    OBVIOUS
  <1>2. Loaded = [id : Nat, num : Nat, items : Pointers, names : N, read : R]
    BY DEF Loaded, Pointers, ReadItems
  <1> HIDE DEF N, R
  <1>3. \A l \in Loaded : /\ l.id \in Nat /\ l.num \in Nat /\ l.items \in Pointers
                          /\ l.names \in N /\ l.read \in R
    BY <1>2
  <1>4. \A i \in Nat, n \in Nat, p \in Pointers :
          [id |-> i, num |-> n, items |-> p, names |-> <<>>, read |-> <<>>] \in Loaded
    BY <1>1, <1>2
  <1> QED
    BY <1>3, <1>4 DEF N, R

\* With one more name and one more attribute read.
Extended(l, p, e) == [l EXCEPT !.names = Append(@, p), !.read = Append(@, e)]

\* What the next round of the loop makes of it.
LEMMA ItemAppended ==
  ASSUME NEW l \in Loaded, NEW p \in Pointers, NEW e \in ReadItems
  PROVE  LET r == Extended(l, p, e) IN
         /\ r \in Loaded /\ r.id = l.id /\ r.num = l.num /\ r.items = l.items
         /\ r.names = Append(l.names, p) /\ r.read = Append(l.read, e)
  <1> DEFINE N == Seq(Pointers)
             R == Seq(ReadItems)
             x == Append(l.names, p)
             y == Append(l.read, e)
  <1>1. x \in N /\ y \in R
    <2>1. l.names \in Seq(Pointers) /\ l.read \in Seq(ReadItems)
      BY LoadedIs
    <2>2. x \in Seq(Pointers)
      BY <2>1, AppendProperties
    <2>3. y \in Seq(ReadItems)
      BY <2>1, AppendProperties
    <2> QED
      BY <2>2, <2>3
  <1>2. Loaded = [id : Nat, num : Nat, items : Pointers, names : N, read : R]
    BY DEF Loaded, Pointers, ReadItems
  <1> DEFINE h == [l EXCEPT !.names = x]
             r == Extended(l, p, e)
  <1>3. r = [h EXCEPT !.read = y]
    <2> HIDE DEF N, R
    <2> QED BY <1>2 DEF Extended
  <1> HIDE DEF N, R, x, y
  <1> HIDE DEF r
  <1>4. h \in Loaded /\ h.id = l.id /\ h.num = l.num /\ h.items = l.items /\ h.names = x
    BY <1>1, <1>2
  <1> HIDE DEF h
  <1>5. r \in Loaded /\ r.id = h.id /\ r.num = h.num /\ r.items = h.items /\ r.names = h.names
        /\ r.read = y
    BY <1>1, <1>2, <1>3, <1>4
  <1> QED
    BY <1>4, <1>5 DEF x, y, r

\* The struct with the pointer to the attributes replaced.
LEMMA ItemsSet ==
  ASSUME NEW l \in Loaded, NEW p \in Pointers
  PROVE  LET r == [l EXCEPT !.items = p] IN
         /\ r \in Loaded /\ r.id = l.id /\ r.num = l.num /\ r.items = p
         /\ r.names = l.names /\ r.read = l.read
  <1> DEFINE N == Seq(Pointers)
             R == Seq(ReadItems)
  <1>2. Loaded = [id : Nat, num : Nat, items : Pointers, names : N, read : R]
    BY DEF Loaded, Pointers, ReadItems
  <1> HIDE DEF N, R
  <1> QED
    BY <1>2

\* The struct with the pointer to a name replaced.
LEMMA NameSet ==
  ASSUME NEW l \in Loaded, NEW j \in 1 .. Len(l.names), NEW p \in Pointers
  PROVE  LET r == [l EXCEPT !.names[j] = p] IN
         /\ r \in Loaded /\ r.id = l.id /\ r.num = l.num /\ r.items = l.items
         /\ r.names = [l.names EXCEPT ![j] = p] /\ r.read = l.read
         /\ Len(r.names) = Len(l.names)
         /\ \A i \in 1 .. Len(l.names) : r.names[i] = IF i = j THEN p ELSE l.names[i]
  <1> DEFINE N == Seq(Pointers)
             R == Seq(ReadItems)
             x == [l.names EXCEPT ![j] = p]
  <1>1. l.names \in N
    BY LoadedIs
  <1>2. x \in N /\ Len(x) = Len(l.names)
        /\ \A i \in 1 .. Len(l.names) : x[i] = IF i = j THEN p ELSE l.names[i]
    BY <1>1
  <1>3. Loaded = [id : Nat, num : Nat, items : Pointers, names : N, read : R]
    BY DEF Loaded, Pointers, ReadItems
  <1>4. [l EXCEPT !.names[j] = p] = [l EXCEPT !.names = x]
    OBVIOUS
  <1> HIDE DEF N, R, x
  <1> DEFINE r == [l EXCEPT !.names = x]
  <1>5. /\ r \in Loaded /\ r.id = l.id /\ r.num = l.num /\ r.items = l.items
        /\ r.names = x /\ r.read = l.read
    BY <1>2, <1>3
  <1> HIDE DEF r
  <1>6. /\ r.names = [l.names EXCEPT ![j] = p] /\ Len(r.names) = Len(l.names)
        /\ \A i \in 1 .. Len(l.names) : r.names[i] = IF i = j THEN p ELSE l.names[i]
    BY <1>2, <1>5 DEF x
  <1> QED
    BY <1>4, <1>5, <1>6 DEF r
------------------------------------------------------------------------------
(***************************************************************************)
(* What the calls of the memory manager do.                                *)
(***************************************************************************)
LEMMA MemoryCalls ==
  /\ Back!Sizes
  /\ \A n : Memory!BAlloc(n) => Back!BAlloc(n)
  /\ \A b : Memory!BFree(b) => Back!BFree(b)
  /\ \A p : Memory!BFreeNotHeld(p) => Back!BFreeNotHeld(p)
  /\ NULL = -1 /\ Back!NULL = -1
  <1>1. Back!Sizes
    BY SchemaAssumption DEF Back!Sizes
  <1>2. /\ Memory!BTop = Back!BTop /\ Memory!FTop = Back!FTop
        /\ \A b : Memory!BStart(b) = Back!BStart(b)
        /\ NULL = -1 /\ Back!NULL = -1 /\ Memory!NULL = -1
    BY DEF Memory!BTop, Back!BTop, Memory!FTop, Back!FTop, Memory!BStart, Back!BStart,
           Memory!FEnd, Back!FEnd, NULL, Memory!NULL, Back!NULL
  <1> QED
    BY <1>1, <1>2 DEF Memory!BAlloc, Back!BAlloc, Memory!BFree, Back!BFree,
       Memory!BFreeNotHeld, Back!BFreeNotHeld

\* A block that is allocated lies below all others.
LEMMA BallocDoes ==
  ASSUME Back!BackOK, NEW n \in Nat, Memory!BAlloc(n)
  PROVE  /\ Back!BackOK'
         /\ \/ ret' = NULL /\ blive' = blive
            \/ LET b == [ptr |-> ret', size |-> n] IN
               /\ ret' \in 0 .. SegSize /\ ret' # NULL /\ b \notin blive
               /\ blive' = blive \cup {b}
               /\ \A c \in blive : ret' < c.ptr
  <1>1. Back!BAlloc(n) /\ Back!Sizes /\ NULL = -1 /\ Back!NULL = -1
    BY MemoryCalls
  <1>2. SegSize \in Nat /\ IntSize \in Nat \ {0} /\ \A c \in blive : c.ptr \in Nat
    BY SchemaAssumption DEF Back!BackOK
  <1> QED
    BY <1>1, <1>2, Back!AllocStep

LEMMA BfreeDoes ==
  ASSUME Back!BackOK, NEW p, Bfree(p)
  PROVE  /\ Back!BackOK' /\ call'[2] = p
         /\ \/ blive' = blive /\ ret' # 1
               /\ \A b \in blive : b.ptr = p => p = SegSize
            \/ \E b \in blive : b.ptr = p /\ blive' = blive \ {b}
                               /\ (ret' = 1 <=> Back!Topmost(b))
  <1>1. ASSUME NEW b \in blive, b.ptr = p, Memory!BFree(b)
        PROVE  /\ Back!BackOK' /\ call'[2] = p
               /\ \/ blive' = blive \ {b} /\ (ret' = 1 <=> Back!Topmost(b))
                  \/ blive' = blive /\ ret' # 1 /\ p = SegSize
    <2>1. /\ Back!BackOK'
          /\ \/ blive' = blive \ {b} /\ (ret' = 1 <=> Back!Topmost(b))
             \/ blive' = blive /\ ret' # 1 /\ p = SegSize
      BY <1>1, MemoryCalls, Back!FreeStep
    <2> QED
      BY <1>1, <2>1 DEF Memory!BFree
  <1>2. ASSUME Memory!BFreeNotHeld(p)
        PROVE  /\ Back!BackOK' /\ call'[2] = p
               /\ blive' = blive /\ ret' # 1 /\ \A b \in blive : b.ptr # p
    <2>1. /\ Back!BackOK' /\ blive' = blive /\ ret' # 1 /\ \A b \in blive : b.ptr # p
      BY <1>2, MemoryCalls, Back!FreeNotHeldStep
    <2> QED
      BY <1>2, <2>1 DEF Memory!BFreeNotHeld
  <1> QED
    BY <1>1, <1>2 DEF Bfree

LEMMA OtherAllocDoes ==
  ASSUME Back!BackOK, NEW n \in OtherSizes, OtherAlloc(n)
  PROVE  /\ Back!BackOK'
         /\ \/ ret' = NULL /\ blive' = blive /\ others' = others /\ stuck' = stuck
            \/ /\ stuck' = IF stuck = "no" THEN stuck ELSE "stale"
               /\ LET b == [ptr |-> ret', size |-> n] IN
                  /\ b \notin blive /\ blive' = blive \cup {b} /\ others' = others \cup {b}
                  /\ \A c \in blive : b.ptr < c.ptr
  <1>1. n \in Nat /\ Memory!BAlloc(n) /\ others' = others \cup (blive' \ blive)
        /\ stuck' = IF stuck = "no" \/ ret' = NULL THEN stuck ELSE "stale"
    BY SchemaAssumption DEF OtherAlloc
  <1>2. Back!BackOK'
    BY <1>1, BallocDoes
  <1>3. CASE ret' = NULL /\ blive' = blive
    BY <1>1, <1>2, <1>3
  <1>4. CASE ~(ret' = NULL /\ blive' = blive)
    <2>1. /\ ret' # NULL
          /\ LET b == [ptr |-> ret', size |-> n] IN
             /\ b \notin blive /\ blive' = blive \cup {b}
             /\ \A c \in blive : b.ptr < c.ptr
      BY <1>1, <1>4, BallocDoes
    <2>2. others' = others \cup {[ptr |-> ret', size |-> n]}
      BY <1>1, <2>1
    <2> QED
      BY <1>1, <1>2, <2>1, <2>2
  <1> QED
    BY <1>3, <1>4

\* A block is found by its address.
LEMMA OneAddress ==
  ASSUME Back!BackOK, NEW b \in blive, NEW c \in blive
  PROVE  /\ b.ptr \in 0 .. SegSize /\ (b.ptr = c.ptr => b = c)
  <1>1. /\ b \in [ptr : Nat, size : Nat] /\ b.ptr + b.size <= SegSize /\ SegSize \in Nat
        /\ c \in [ptr : Nat, size : Nat]
    BY SchemaAssumption DEF Back!BackOK
  <1>2. b.ptr = c.ptr => b = c
    BY <1>1, MemoryCalls, Back!OneBlock
  <1> QED
    BY <1>1, <1>2
------------------------------------------------------------------------------
(***************************************************************************)
(* Types.                                                                  *)
(***************************************************************************)
\* A file that is there begins as the file of a schema.
LEMMA FileBegins ==
  ASSUME FilesTyped, NEW t \in Tables, files[t] # None
  PROVE  \E s \in Schemas : files[t] \in Prefixes(FileOf[s])
  BY DEF FilesTyped, Contents

LEMMA InitType == Init => TypeInv
  <1> SUFFICES ASSUME Init PROVE TypeInv
    OBVIOUS
  <1>1. FilesTyped
    BY DEF Init, FilesTyped
  <1>2. Back!BackOK
    BY DEF Init, Back!BackOK
  <1> QED
    BY <1>1, <1>2, SchemaAssumption DEF Init, TypeInv, CallTyped, LoadedTyped

\* Writing what begins as the file of a schema.
LEMMA WriteTyped ==
  ASSUME FilesTyped, NEW t \in Tables, NEW s \in Schemas, NEW p \in Prefixes(FileOf[s]),
         files' = [files EXCEPT ![t] = p]
  PROVE  FilesTyped' /\ files'[t] = p /\ files'[t] # None
  <1>1. p # None
    BY NoneAssumption
  <1> QED
    BY <1>1 DEF FilesTyped, Contents

\* The schema of the client stays as it is.
LEMMA LoadedStays ==
  ASSUME LoadedTyped, UNCHANGED schema, pc # "load" \/ pc' = "load"
  PROVE  LoadedTyped'
  BY DEF LoadedTyped

LEMMA BackKept ==
  ASSUME Back!BackOK, blive' = blive
  PROVE  Back!BackOK'
  BY DEF Back!BackOK, Back!Apart

LEMMA CreateType == TypeInv /\ (\E t \in Tables, s \in Schemas : CreateOpen(t, s)) => TypeInv'
  <1> SUFFICES ASSUME TypeInv, NEW t \in Tables, NEW s \in Schemas, CreateOpen(t, s)
               PROVE  TypeInv'
    OBVIOUS
  <1>1. /\ pc = "idle" /\ UNCHANGED <<schema, blive, stuck, clean>>
    BY DEF CreateOpen, memory
  <1>2. /\ LoadedTyped' /\ Back!BackOK'
    BY <1>1, LoadedStays, BackKept DEF TypeInv
  <1>3. open \in 0 .. MaxOpen /\ MaxOpen \in Nat
    BY SchemaAssumption DEF TypeInv, CallTyped
  <1>4. CASE files' = files /\ open' = open /\ Return(status')
    BY <1>1, <1>2, <1>3, <1>4 DEF Return, TypeInv, FilesTyped, CallTyped
  <1>5. CASE /\ open < MaxOpen
             /\ files' = [files EXCEPT ![t] = <<>>] /\ open' = open + 1
             /\ pc' = "create" /\ op' = [tbl |-> t, of |-> s]
    <2>1. <<>> \in Prefixes(FileOf[s])
      <3>1. PICK S : FileOf[s] \in Seq(S)
        BY FileIs
      <3>2. FileOf[s] \in Prefixes(FileOf[s])
        BY <3>1, PrefixIs
      <3> QED
        BY <3>1, <3>2, MorePrefixes
    <2>2. FilesTyped' /\ files'[t] = <<>> /\ files'[t] # None
      BY <1>5, <2>1, WriteTyped DEF TypeInv
    <2>3. CallTyped'
      BY <1>3, <1>5, <2>1, <2>2 DEF CallTyped
    <2> QED
      BY <1>1, <1>2, <2>2, <2>3 DEF TypeInv
  <1> QED
    BY <1>4, <1>5 DEF CreateOpen, disk, Return, ProbeCloses

LEMMA CreateStepsType == TypeInv /\ (CreateWrite \/ CreateClose) => TypeInv'
  <1> SUFFICES ASSUME TypeInv, CreateWrite \/ CreateClose PROVE TypeInv'
    OBVIOUS
  <1>1. /\ pc = "create" /\ UNCHANGED <<schema, blive, stuck, clean>>
        /\ op \in [tbl : Tables, of : Schemas] /\ op.tbl \in Tables /\ op.of \in Schemas
        /\ File \in Prefixes(FileOf[op.of]) /\ File # None
        /\ open \in 0 .. MaxOpen /\ open > 0 /\ MaxOpen \in Nat
    BY SchemaAssumption DEF CreateWrite, CreateClose, memory, TypeInv, CallTyped, File
  <1>2. /\ LoadedTyped' /\ Back!BackOK'
    BY <1>1, LoadedStays, BackKept DEF TypeInv
  <1>3. PICK S : FileOf[op.of] \in Seq(S)
    BY <1>1, FileIs
  <1>4. ASSUME NEW p \in Prefixes(FileOf[op.of]), SetFile(p), pc' = "idle", op' = None,
               Close
        PROVE  TypeInv'
    <2>1. FilesTyped'
      BY <1>1, <1>4, WriteTyped DEF SetFile, TypeInv
    <2>2. CallTyped'
      BY <1>1, <1>4 DEF CallTyped, Close
    <2> QED
      BY <1>1, <1>2, <2>1, <2>2 DEF TypeInv
  <1>5. Prefixes(File) \subseteq Prefixes(FileOf[op.of]) /\ Len(File) \in Nat
        /\ (Len(File) < Len(FileOf[op.of]) =>
               Append(File, FileOf[op.of][Len(File) + 1]) \in Prefixes(FileOf[op.of]))
    BY <1>1, <1>3, MorePrefixes
  <1>6. CASE CreateClose
    <2>1. CASE UNCHANGED files
      <3>1. pc' = "idle" /\ op' = None /\ Close
        BY <1>6 DEF CreateClose, Return
      <3> QED
        BY <1>1, <1>2, <2>1, <3>1 DEF TypeInv, FilesTyped, CallTyped, Close
    <2>2. CASE \E q \in Prefixes(File) : SetFile(q)
      BY <1>4, <1>5, <1>6, <2>2 DEF CreateClose, Return
    <2> QED
      BY <1>6, <2>1, <2>2 DEF CreateClose
  <1>7. CASE CreateWrite
    <2> DEFINE p == Append(File, FileOf[op.of][Len(File) + 1])
    <2>1. CASE SetFile(p) /\ UNCHANGED <<open, pc, op, status>>
      <3>1. p \in Prefixes(FileOf[op.of])
        BY <1>5, <1>7 DEF CreateWrite
      <3> HIDE DEF p
      <3>2. FilesTyped' /\ files'[op.tbl] = p /\ files'[op.tbl] # None
        BY <1>1, <2>1, <3>1, WriteTyped DEF SetFile, TypeInv
      <3>3. CallTyped'
        BY <1>1, <2>1, <3>1, <3>2 DEF CallTyped
      <3> QED
        BY <1>1, <1>2, <3>2, <3>3 DEF TypeInv
    <2>2. CASE (\E q \in Prefixes(File) : SetFile(q)) /\ Close /\ Return("FILE_BAD_WRITE")
      BY <1>4, <1>5, <2>2 DEF Return
    <2> QED
      BY <1>7, <2>1, <2>2 DEF CreateWrite
  <1> QED
    BY <1>6, <1>7

\* The head of a file: the id and the number of attributes.
LEMMA HeadTyped ==
  ASSUME NEW s \in Schemas, NEW file \in Prefixes(FileOf[s]), Len(file) >= 2
  PROVE  /\ file[1][1] = s.id /\ file[2][1] = Len(s.items)
         /\ file[1][1] \in Nat /\ file[2][1] \in Nat
  <1>1. PICK S : FileOf[s] \in Seq(S)
    BY FileIs
  <1>2. Len(file) \in Nat /\ \A k \in 1 .. Len(file) : file[k] = FileOf[s][k]
    BY <1>1, PrefixIs
  <1>3. 1 \in 1 .. Len(file) /\ 2 \in 1 .. Len(file)
    BY <1>2
  <1>4. file[1] = <<s.id, 1>> /\ file[2] = <<Len(s.items), 1>>
    BY <1>2, <1>3, FileIs
  <1> QED
    BY <1>4, FileIs

\* While a file is read it stays there.
LEMMA ReadTyped ==
  ASSUME TypeInv, pc = "load", UNCHANGED files,
         \/ pc' = "load" /\ UNCHANGED <<op, open>>
         \/ pc' = "idle" /\ op' = None /\ (open' = open \/ Close)
  PROVE  FilesTyped' /\ CallTyped'
  <1>1. open \in 0 .. MaxOpen /\ open > 0 /\ MaxOpen \in Nat
    BY SchemaAssumption DEF TypeInv, CallTyped
  <1> QED
    BY <1>1 DEF TypeInv, FilesTyped, CallTyped, Close

LEMMA LoadOpenType == TypeInv /\ (\E t \in Tables : LoadOpen(t)) => TypeInv'
  <1> SUFFICES ASSUME TypeInv, NEW t \in Tables, LoadOpen(t) PROVE TypeInv'
    OBVIOUS
  <1>1. /\ schema' = None /\ stuck' = "no" /\ UNCHANGED <<files, blive>>
        /\ (clean' = clean \/ clean' = FALSE)
        /\ \/ pc' = "idle" /\ op' = None /\ open' = open
           \/ pc' = "idle" /\ op' = None /\ open < MaxOpen /\ open' = open + 1
           \/ /\ pc' = "load" /\ op' = [tbl |-> t] /\ open < MaxOpen /\ open' = open + 1
              /\ files[t] # None
    BY DEF LoadOpen, Return, CanRead, memory
  <1>2. open \in 0 .. MaxOpen /\ MaxOpen \in Nat
    BY SchemaAssumption DEF TypeInv, CallTyped
  <1>3. FilesTyped' /\ LoadedTyped' /\ Back!BackOK'
    BY <1>1, BackKept DEF TypeInv, FilesTyped, LoadedTyped
  <1>4. CallTyped'
    BY <1>1, <1>2 DEF CallTyped
  <1>5. clean' \in BOOLEAN
    BY <1>1 DEF TypeInv
  <1> QED
    BY <1>1, <1>3, <1>4, <1>5 DEF TypeInv

\* The head is read, and the block for the attributes allocated, or the load fails.
LEMMA LoadHeadDoes ==
  ASSUME TypeInv, LoadHead
  PROVE  /\ pc = "load" /\ schema = None /\ UNCHANGED <<files, others, stuck>>
         /\ Back!BackOK' /\ blive \subseteq blive'
         /\ \/ /\ schema' = None /\ pc' = "idle" /\ op' = None /\ Close
               /\ UNCHANGED <<blive, clean>>
            \/ /\ schema' = None /\ pc' = "idle" /\ op' = None /\ open' = open
               /\ clean' = FALSE
            \/ /\ Len(File) >= 2
               /\ schema' \in Loaded /\ schema'.items = ret' /\ schema'.names = <<>>
               /\ schema'.id = File[1][1] /\ schema'.num = File[2][1]
               /\ Len(schema'.read) = 0 /\ ret' # NULL
               /\ \E b : /\ b.ptr = ret' /\ b \notin blive /\ blive' = blive \cup {b}
                         /\ \A c \in blive : ret' < c.ptr
               /\ UNCHANGED <<open, pc, op, status, clean>>
  <1>1. /\ pc = "load" /\ schema = None /\ UNCHANGED <<files, others, stuck>>
        /\ op.tbl \in Tables /\ File # None
    BY DEF LoadHead, TypeInv, CallTyped, File
  <1>2. CASE BadRead /\ UNCHANGED <<memory, clean>>
    BY <1>1, <1>2, BackKept DEF BadRead, Return, memory, TypeInv
  <1>3. CASE ~(BadRead /\ UNCHANGED <<memory, clean>>)
    <2>1. /\ Len(File) >= 2 /\ Memory!BAlloc(ItemSize * File[2][1])
          /\ \/ ret' = NULL /\ OutOfMemory /\ clean' = FALSE
             \/ /\ ret' # NULL /\ UNCHANGED <<open, pc, op, status, clean>>
                /\ schema' = [id |-> File[1][1], num |-> File[2][1],
                              items |-> ret', names |-> <<>>, read |-> <<>>]
      BY <1>1, <1>3 DEF LoadHead
    <2>2. PICK s \in Schemas : File \in Prefixes(FileOf[s])
      BY <1>1, FileBegins DEF TypeInv, File
    <2>3. File[1][1] \in Nat /\ File[2][1] \in Nat /\ ItemSize * File[2][1] \in Nat
      <3>1. File[1][1] \in Nat /\ File[2][1] \in Nat
        BY <2>1, <2>2, HeadTyped
      <3> QED
        BY <3>1, SchemaAssumption
    <2>4. /\ Back!BackOK'
          /\ \/ ret' = NULL /\ blive' = blive
             \/ /\ ret' \in 0 .. SegSize
                /\ \E b : /\ b.ptr = ret' /\ b \notin blive /\ blive' = blive \cup {b}
                          /\ \A c \in blive : ret' < c.ptr
      BY <2>1, <2>3, BallocDoes DEF TypeInv
    <2>5. CASE ret' = NULL
      BY <1>1, <2>1, <2>4, <2>5 DEF OutOfMemory, Return
    <2>6. CASE ret' # NULL
      <3>1. ret' \in Pointers
        BY <2>4, <2>6 DEF Pointers
      <3>2. schema' \in Loaded
        BY <2>1, <2>3, <2>6, <3>1, LoadedIs
      <3>3. /\ schema'.items = ret' /\ schema'.names = <<>> /\ Len(schema'.read) = 0
            /\ schema'.id = File[1][1] /\ schema'.num = File[2][1]
        BY <2>1, <2>6
      <3> QED
        BY <1>1, <2>1, <2>4, <2>6, <3>2, <3>3
    <2> QED
      BY <2>5, <2>6
  <1> QED
    BY <1>2, <1>3

LEMMA LoadHeadType == TypeInv /\ LoadHead => TypeInv'
  <1> SUFFICES ASSUME TypeInv, LoadHead PROVE TypeInv'
    OBVIOUS
  <1>1. /\ pc = "load" /\ UNCHANGED <<files, stuck>> /\ Back!BackOK'
        /\ (clean' = clean \/ clean' = FALSE)
        /\ \/ pc' = "idle" /\ op' = None /\ (open' = open \/ Close)
           \/ pc' = "load" /\ UNCHANGED <<op, open>>
    BY LoadHeadDoes
  <1>2. clean' \in BOOLEAN
    BY <1>1 DEF TypeInv
  <1>3. LoadedTyped'
    <2>1. CASE schema' = None
      BY <2>1 DEF LoadedTyped
    <2>2. CASE schema' # None
      <3>1. /\ schema' \in Loaded /\ schema'.names = <<>> /\ Len(schema'.read) = 0
            /\ pc' = "load"
        BY <2>2, LoadHeadDoes
      <3>2. Len(schema'.names) = 0 /\ schema'.num \in Nat
        BY <3>1, LoadedIs
      <3> QED
        BY <3>1, <3>2 DEF LoadedTyped
    <2> QED
      BY <2>1, <2>2
  <1> QED
    BY <1>1, <1>2, <1>3, ReadTyped DEF TypeInv

\* An attribute is read, and the block for its name allocated, or the load fails.
LEMMA LoadItemDoes ==
  ASSUME TypeInv, LoadItem
  PROVE  /\ pc = "load" /\ schema # None /\ UNCHANGED <<files, others, stuck>>
         /\ schema \in Loaded /\ Len(schema.names) \in Nat /\ Len(schema.names) < schema.num
         /\ Len(schema.read) = Len(schema.names) /\ schema.num \in Nat
         /\ Back!BackOK' /\ blive \subseteq blive'
         /\ \/ /\ schema' = None /\ pc' = "idle" /\ op' = None /\ (open' = open \/ Close)
               /\ clean' = FALSE
            \/ /\ 2 + 4 * Len(schema.names) + 4 <= Len(File)
               /\ ret' \in Pointers /\ ret' # NULL
               /\ schema' = Extended(schema, ret', Item(File, Len(schema.names) + 1))
               /\ schema' \in Loaded /\ schema'.id = schema.id /\ schema'.num = schema.num
               /\ schema'.items = schema.items
               /\ schema'.names = Append(schema.names, ret')
               /\ schema'.read = Append(schema.read, Item(File, Len(schema.names) + 1))
               /\ Len(schema'.names) = Len(schema.names) + 1
               /\ Len(schema'.read) = Len(schema.names) + 1
               /\ \E b : /\ b.ptr = ret' /\ b \notin blive /\ blive' = blive \cup {b}
                         /\ \A c \in blive : ret' < c.ptr
               /\ UNCHANGED <<open, pc, op, status, clean>>
  <1> DEFINE n == Len(schema.names)
             there == Len(File) - (2 + 4 * ((n + 1) - 1))
  <1>1. /\ pc = "load" /\ schema # None /\ UNCHANGED <<files, others, stuck>>
        /\ op.tbl \in Tables /\ File # None
        /\ n < schema.num
    BY DEF LoadItem, BadRead, TypeInv, CallTyped, File, MoreItems
  <1>2. /\ schema \in Loaded /\ n \in Nat /\ Len(schema.read) = n /\ schema.num \in Nat
        /\ schema.names \in Seq(Pointers) /\ schema.read \in Seq(ReadItems)
    <2>1. schema \in Loaded
      BY <1>1 DEF TypeInv, LoadedTyped
    <2>2. schema.num \in Nat /\ schema.names \in Seq(Pointers)
          /\ schema.read \in Seq(ReadItems)
      BY <2>1, LoadedIs
    <2> QED
      BY <1>1, <2>1, <2>2 DEF TypeInv, LoadedTyped
  <1>4. CASE BadRead /\ UNCHANGED memory /\ clean' = FALSE
    <2>1. Back!BackOK' /\ blive' = blive /\ schema' = None /\ pc' = "idle" /\ op' = None
      BY <1>4, BackKept DEF BadRead, Return, memory, TypeInv
    <2> QED
      BY <1>1, <1>2, <1>4, <2>1 DEF BadRead
  <1>5. CASE ~(BadRead /\ UNCHANGED memory /\ clean' = FALSE)
    <2>1. /\ Memory!BAlloc(TableLen[op.tbl])
          /\ \/ (OutOfMemory \/ BadRead) /\ clean' = FALSE
             \/ /\ ret' # NULL /\ there >= 4
                /\ schema' = [schema EXCEPT !.names = Append(@, ret'),
                                            !.read = Append(@, Item(File, n + 1))]
                /\ UNCHANGED <<open, pc, op, status, clean>>
      BY <1>1, <1>5 DEF LoadItem
    <2>2. TableLen[op.tbl] \in Nat
      BY <1>1, SchemaAssumption
    <2>3. /\ Back!BackOK' /\ blive \subseteq blive'
          /\ \/ ret' = NULL
             \/ /\ ret' \in 0 .. SegSize
                /\ \E b : /\ b.ptr = ret' /\ b \notin blive /\ blive' = blive \cup {b}
                          /\ \A c \in blive : ret' < c.ptr
      BY <2>1, <2>2, BallocDoes DEF TypeInv
    <2>4. CASE (OutOfMemory \/ BadRead) /\ clean' = FALSE
      <3>1. schema' = None /\ pc' = "idle" /\ op' = None /\ (open' = open \/ Close)
        BY <2>4 DEF OutOfMemory, BadRead, Return
      <3> QED
        BY <1>1, <1>2, <2>3, <2>4, <3>1
    <2>5. CASE ~((OutOfMemory \/ BadRead) /\ clean' = FALSE)
      <3>1. PICK s \in Schemas : File \in Prefixes(FileOf[s])
        BY <1>1, FileBegins DEF TypeInv, File
      <3>2. Len(File) \in Nat
        <4>1. PICK S : FileOf[s] \in Seq(S)
          BY FileIs
        <4> QED
          BY <3>1, <4>1, MorePrefixes
      <3>3. n + 1 \in Nat \ {0} /\ 2 + 4 * n + 4 <= Len(File)
            /\ 2 + 4 * ((n + 1) - 1) + 4 <= Len(File)
        BY <1>2, <2>1, <2>5, <3>2
      <3>4. Item(File, n + 1) \in ReadItems
        <4> HIDE DEF n
        <4> QED
          BY <3>1, <3>3, ItemTyped DEF ReadItems
      <3>5. ret' \in Pointers /\ ret' # NULL /\ UNCHANGED <<open, pc, op, status, clean>>
        BY <1>1, <2>1, <2>3, <2>5 DEF Pointers
      <3>6. /\ schema' = Extended(schema, ret', Item(File, n + 1))
            /\ schema' \in Loaded /\ schema'.id = schema.id /\ schema'.num = schema.num
            /\ schema'.items = schema.items
            /\ schema'.names = Append(schema.names, ret')
            /\ schema'.read = Append(schema.read, Item(File, n + 1))
        <4>1. schema' = Extended(schema, ret', Item(File, n + 1))
          BY <2>1, <2>5 DEF Extended
        <4> HIDE DEF n, there
        <4> QED
          BY <1>2, <3>4, <3>5, <4>1, ItemAppended
      <3>7. Len(schema'.names) = n + 1
        BY <1>2, <3>5, <3>6
      <3>8. Len(schema'.read) = n + 1
        BY <1>2, <3>4, <3>6
      <3>9. \E b : /\ b.ptr = ret' /\ b \notin blive /\ blive' = blive \cup {b}
                   /\ \A c \in blive : ret' < c.ptr
        BY <2>3, <3>5
      <3> HIDE DEF there
      <3> QED
        BY <1>1, <1>2, <2>3, <3>3, <3>5, <3>6, <3>7, <3>8, <3>9
    <2> QED
      BY <2>4, <2>5
  <1> QED
    BY <1>4, <1>5

LEMMA LoadItemType == TypeInv /\ LoadItem => TypeInv'
  <1> SUFFICES ASSUME TypeInv, LoadItem PROVE TypeInv'
    OBVIOUS
  <1>1. /\ pc = "load" /\ UNCHANGED <<files, stuck>> /\ Back!BackOK'
        /\ (clean' = clean \/ clean' = FALSE)
        /\ \/ pc' = "idle" /\ op' = None /\ (open' = open \/ Close)
           \/ pc' = "load" /\ UNCHANGED <<op, open>>
    BY LoadItemDoes
  <1>2. clean' \in BOOLEAN
    BY <1>1 DEF TypeInv
  <1>3. LoadedTyped'
    <2>1. CASE schema' = None
      BY <2>1 DEF LoadedTyped
    <2>2. CASE schema' # None
      <3>1. /\ schema' \in Loaded /\ schema'.num = schema.num /\ schema.num \in Nat
            /\ Len(schema.names) \in Nat /\ Len(schema.names) < schema.num
            /\ Len(schema'.names) = Len(schema.names) + 1
            /\ Len(schema'.read) = Len(schema.names) + 1
            /\ pc' = "load"
        BY <2>2, LoadItemDoes
      <3> QED
        BY <3>1 DEF LoadedTyped
    <2> QED
      BY <2>1, <2>2
  <1> QED
    BY <1>1, <1>2, <1>3, ReadTyped DEF TypeInv

\* A step of a load or between calls that leaves the files alone.
LEMMA LoadCloseType == TypeInv /\ LoadClose => TypeInv'
  <1> SUFFICES ASSUME TypeInv, LoadClose PROVE TypeInv'
    OBVIOUS
  <1>1. /\ pc = "load" /\ schema # None /\ Len(schema.names) >= schema.num
        /\ pc' = "idle" /\ op' = None /\ Close
        /\ UNCHANGED <<files, schema, blive, stuck, clean>>
    <2>1. schema \in Loaded /\ schema.num \in Nat /\ schema.names \in Seq(Pointers)
      BY LoadedIs DEF LoadClose, TypeInv, LoadedTyped
    <2>2. Len(schema.names) \in Nat
      BY <2>1
    <2> QED
      BY <2>1, <2>2 DEF LoadClose, MoreItems, Return, memory
  <1>2. LoadedTyped'
    <2>1. schema.num \in Nat /\ schema.names \in Seq(Pointers) /\ schema \in Loaded
      BY <1>1, LoadedIs DEF TypeInv, LoadedTyped
    <2>2. Len(schema.names) = schema.num
      BY <1>1, <2>1 DEF TypeInv, LoadedTyped
    <2> QED
      BY <1>1, <2>2 DEF TypeInv, LoadedTyped
  <1> QED
    BY <1>1, <1>2, ReadTyped, BackKept DEF TypeInv

\* What a free that fails leaves of the types.
LEMMA FreeFailedType ==
  ASSUME TypeInv, NEW p, FreeFailed(p), UNCHANGED disk, pc # "load", Back!BackOK'
  PROVE  TypeInv'
  <1>1. /\ UNCHANGED <<files, open, schema>> /\ pc' = "idle" /\ op' = None
        /\ stuck' \in {stuck, "failed"} /\ (clean' = clean \/ clean' = FALSE)
    BY DEF FreeFailed, Return, disk
  <1>2. clean' \in BOOLEAN
    BY <1>1 DEF TypeInv
  <1>3. FilesTyped' /\ CallTyped'
    BY <1>1 DEF TypeInv, FilesTyped, CallTyped
  <1> QED
    BY <1>1, <1>2, <1>3, LoadedStays DEF TypeInv

LEMMA FreeNamesType == TypeInv /\ FreeNames => TypeInv'
  <1> SUFFICES ASSUME TypeInv, FreeNames PROVE TypeInv'
    OBVIOUS
  <1>1. /\ pc = "idle" /\ schema # None /\ pc' = "free" /\ op' = [i |-> schema.num]
        /\ UNCHANGED <<files, open, schema, blive, stuck, clean>>
    BY DEF FreeNames, disk, memory
  <1>2. schema.num \in Nat
    BY <1>1, LoadedIs DEF TypeInv, LoadedTyped
  <1>3. FilesTyped' /\ CallTyped'
    BY <1>1, <1>2 DEF TypeInv, FilesTyped, CallTyped
  <1> QED
    BY <1>1, <1>3, LoadedStays, BackKept DEF TypeInv

\* A round of the loop that frees the names.
LEMMA FreeNameIs ==
  ASSUME TypeInv, FreeName
  PROVE  /\ pc = "free" /\ schema # None /\ schema \in Loaded
         /\ op.i \in Nat /\ op.i <= schema.num
         /\ Len(schema.names) = schema.num /\ schema.num \in Nat
         /\ schema.names \in Seq(Pointers) /\ Len(schema.read) = schema.num
         /\ op.i > 0 => op.i \in 1 .. Len(schema.names) /\ Bfree(schema.names[op.i])
  <1>1. /\ pc = "free" /\ schema # None /\ schema \in Loaded
        /\ op.i \in Nat /\ op.i <= schema.num
        /\ Len(schema.names) = schema.num /\ Len(schema.read) = schema.num
    BY DEF FreeName, TypeInv, CallTyped, LoadedTyped
  <1>2. schema.num \in Nat /\ schema.names \in Seq(Pointers)
    BY <1>1, LoadedIs
  <1>3. op.i > 0 => Bfree(schema.names[op.i])
    BY <1>1 DEF FreeName, NameAt
  <1> QED
    BY <1>1, <1>2, <1>3

\* The struct after a name has been freed.
LEMMA NameCleared ==
  ASSUME TypeInv, FreeName, op.i > 0, ret' = 1
  PROVE  /\ schema' \in Loaded /\ schema'.id = schema.id /\ schema'.num = schema.num
         /\ schema'.items = schema.items /\ schema'.read = schema.read
         /\ Len(schema'.names) = Len(schema.names)
         /\ \A i \in 1 .. Len(schema.names) :
              schema'.names[i] = IF i = op.i THEN NULL ELSE schema.names[i]
         /\ op' = [i |-> op.i - 1] /\ UNCHANGED <<pc, status, stuck, clean>>
  <1>1. schema \in Loaded /\ op.i \in 1 .. Len(schema.names)
    BY FreeNameIs
  <1>2. NULL \in Pointers
    BY DEF Pointers
  <1>3. /\ schema' = [schema EXCEPT !.names[op.i] = NULL]
        /\ op' = [i |-> op.i - 1] /\ UNCHANGED <<pc, status, stuck, clean>>
    <2>1. op.i # 0
      BY FreeNameIs
    <2> QED
      BY <2>1 DEF FreeName, NameAt, Cleared, Refused
  <1> DEFINE r == [schema EXCEPT !.names[op.i] = NULL]
  <1>4. /\ r \in Loaded /\ r.id = schema.id /\ r.num = schema.num
        /\ r.items = schema.items /\ r.read = schema.read
        /\ Len(r.names) = Len(schema.names)
        /\ \A i \in 1 .. Len(schema.names) :
             r.names[i] = IF i = op.i THEN NULL ELSE schema.names[i]
    BY <1>1, <1>2, NameSet
  <1>5. schema' = r
    BY <1>3
  <1> HIDE DEF r
  <1> QED
    BY <1>3, <1>4, <1>5

LEMMA FreeNameType == TypeInv /\ FreeName => TypeInv'
  <1> SUFFICES ASSUME TypeInv, FreeName PROVE TypeInv'
    OBVIOUS
  <1>1. CASE op.i = 0
    <2>1. pc = "free" /\ UNCHANGED <<files, open, schema, blive, stuck, clean>>
          /\ pc' = "idle" /\ op' = None
      BY <1>1 DEF FreeName, Return, disk, memory
    <2>2. FilesTyped' /\ CallTyped'
      BY <2>1 DEF TypeInv, FilesTyped, CallTyped
    <2> QED
      BY <2>1, <2>2, LoadedStays, BackKept DEF TypeInv
  <1>2. CASE op.i # 0
    <2>1. pc = "free" /\ op.i > 0 /\ Bfree(schema.names[op.i]) /\ UNCHANGED disk
      BY <1>2, FreeNameIs DEF FreeName
    <2>2. Back!BackOK'
      BY <2>1, BfreeDoes DEF TypeInv
    <2>3. CASE ret' # 1
      <3>1. FreeFailed(schema.names[op.i])
        BY <1>2, <2>3 DEF FreeName, Refused, NameAt
      <3> QED
        BY <2>1, <2>2, <3>1, FreeFailedType
    <2>4. CASE ret' = 1
      <3>1. /\ schema' \in Loaded /\ schema'.num = schema.num
            /\ schema'.read = schema.read /\ Len(schema'.names) = Len(schema.names)
            /\ op' = [i |-> op.i - 1] /\ UNCHANGED <<pc, status, stuck, clean>>
        BY <2>1, <2>4, NameCleared
      <3>2. /\ schema # None /\ op.i \in Nat /\ op.i <= schema.num /\ schema.num \in Nat
            /\ Len(schema.names) = schema.num
        BY FreeNameIs
      <3>3. schema' # None
        BY <3>1, NoneAssumption
      <3>4. LoadedTyped'
        BY <3>1, <3>2 DEF LoadedTyped, TypeInv
      <3>5. FilesTyped' /\ CallTyped'
        BY <2>1, <3>1, <3>2, <3>3 DEF TypeInv, FilesTyped, CallTyped, disk
      <3> QED
        BY <2>2, <3>1, <3>4, <3>5 DEF TypeInv
    <2> QED
      BY <2>3, <2>4
  <1> QED
    BY <1>1, <1>2

LEMMA FreeItemsType == TypeInv /\ FreeItems => TypeInv'
  <1> SUFFICES ASSUME TypeInv, FreeItems PROVE TypeInv'
    OBVIOUS
  <1>1. /\ pc = "idle" /\ schema # None /\ Bfree(schema.items) /\ UNCHANGED disk
        /\ schema \in Loaded
    BY DEF FreeItems, TypeInv, LoadedTyped
  <1>2. Back!BackOK'
    BY <1>1, BfreeDoes DEF TypeInv
  <1>3. CASE ret' # 1
    <2>1. FreeFailed(schema.items)
      BY <1>3 DEF FreeItems, Refused
    <2> QED
      BY <1>1, <1>2, <2>1, FreeFailedType
  <1>4. CASE ret' = 1
    <2>1. /\ schema' = [schema EXCEPT !.items = NULL]
          /\ pc' = "idle" /\ op' = None /\ UNCHANGED <<stuck, clean>>
      BY <1>4 DEF FreeItems, Refused, Cleared, Return
    <2> DEFINE r == [schema EXCEPT !.items = NULL]
    <2>2. /\ r \in Loaded /\ r.num = schema.num
          /\ r.read = schema.read /\ r.names = schema.names
      <3>1. NULL \in Pointers
        BY DEF Pointers
      <3> QED
        BY <1>1, <3>1, ItemsSet
    <2>3. schema' = r
      BY <2>1
    <2> HIDE DEF r
    <2>4. LoadedTyped'
      BY <1>1, <2>2, <2>3 DEF LoadedTyped, TypeInv
    <2>5. FilesTyped' /\ CallTyped'
      BY <1>1, <2>1 DEF TypeInv, FilesTyped, CallTyped, disk
    <2> QED
      BY <1>2, <2>1, <2>4, <2>5 DEF TypeInv
  <1> QED
    BY <1>3, <1>4

LEMMA DeleteType == TypeInv /\ (\E t \in Tables : Delete(t)) => TypeInv'
  <1> SUFFICES ASSUME TypeInv, NEW t \in Tables, Delete(t) PROVE TypeInv'
    OBVIOUS
  <1>1. /\ pc = "idle" /\ pc' = "idle" /\ op' = None
        /\ (files' = files \/ files' = [files EXCEPT ![t] = None])
        /\ UNCHANGED <<open, schema, blive, stuck, clean>>
    BY DEF Delete, Return, memory
  <1>2. FilesTyped' /\ CallTyped'
    BY <1>1 DEF TypeInv, FilesTyped, CallTyped
  <1> QED
    BY <1>1, <1>2, LoadedStays, BackKept DEF TypeInv

LEMMA OtherType ==
  TypeInv /\ (\/ \E n \in OtherSizes : OtherAlloc(n)
              \/ \E b \in others : OtherFree(b))
  => TypeInv'
  <1> SUFFICES ASSUME TypeInv, \/ \E n \in OtherSizes : OtherAlloc(n)
                               \/ \E b \in others : OtherFree(b)
               PROVE  TypeInv'
    OBVIOUS
  <1>1. /\ pc = "idle" /\ UNCHANGED <<files, open, schema, pc, op, clean>>
        /\ stuck' \in {stuck, "stale"} 
    BY DEF OtherAlloc, OtherFree, disk
  <1>2. Back!BackOK'
    <2>1. ASSUME NEW n \in OtherSizes, OtherAlloc(n) PROVE Back!BackOK'
      BY <2>1, OtherAllocDoes DEF TypeInv
    <2>2. ASSUME NEW b, OtherFree(b) PROVE Back!BackOK'
      <3>1. Back!BFree(b)
        BY <2>2, MemoryCalls DEF OtherFree
      <3> QED
        BY <3>1, Back!FreeKeeps DEF TypeInv
    <2> QED
      BY <2>1, <2>2
  <1>3. FilesTyped' /\ CallTyped'
    BY <1>1 DEF TypeInv, FilesTyped, CallTyped
  <1> QED
    BY <1>1, <1>2, <1>3, LoadedStays DEF TypeInv

LEMMA PowerType == TypeInv /\ PowerFailure => TypeInv'
  <1> SUFFICES ASSUME TypeInv, PowerFailure PROVE TypeInv'
    OBVIOUS
  <1>1. /\ open' = 0 /\ schema' = None /\ pc' = "idle" /\ op' = None /\ stuck' = "no"
        /\ clean' = TRUE /\ blive' = {} /\ 0 \in 0 .. MaxOpen
    BY SchemaAssumption DEF PowerFailure, Return
  <1>2. FilesTyped'
    <2>1. CASE pc = "create" /\ \E p \in Prefixes(File) : SetFile(p)
      <3>1. /\ op.tbl \in Tables /\ op.of \in Schemas
            /\ File \in Prefixes(FileOf[op.of])
        BY <2>1 DEF TypeInv, CallTyped, File
      <3>2. PICK S : FileOf[op.of] \in Seq(S)
        BY <3>1, FileIs
      <3>3. Prefixes(File) \subseteq Prefixes(FileOf[op.of])
        BY <3>1, <3>2, MorePrefixes
      <3> QED
        BY <2>1, <3>1, <3>3, WriteTyped DEF SetFile, TypeInv
    <2>2. CASE files' = files \/ (pc = "create" /\ SetFile(None))
      BY <2>2 DEF SetFile, TypeInv, FilesTyped
    <2> QED
      BY <2>1, <2>2 DEF PowerFailure
  <1>3. Back!BackOK'
    BY <1>1 DEF Back!BackOK
  <1> QED
    BY <1>1, <1>2, <1>3 DEF TypeInv, CallTyped, LoadedTyped

\* The actions of Next, one by one.
LEMMA Actions ==
  ASSUME [Next]_vars
  PROVE  \/ \E t \in Tables : LoadOpen(t)
         \/ \E t \in Tables : Delete(t)
         \/ \E t \in Tables, s \in Schemas : NamesRule(t, s) /\ CreateOpen(t, s)
         \/ stuck # "stale" /\ FreeNames
         \/ stuck # "stale" /\ FreeItems
         \/ \E n \in OtherSizes : OtherAlloc(n)
         \/ \E b \in others : OtherFree(b)
         \/ CreateWrite \/ CreateClose
         \/ LoadHead \/ LoadItem \/ LoadClose \/ FreeName
         \/ PowerFailure \/ UNCHANGED vars
  <1>1. Next \/ UNCHANGED vars
    OBVIOUS
  <1>2. Next <=> Calls \/ Steps \/ PowerFailure
    BY DEF Next
  <1>3. CASE Calls
    BY <1>3 DEF Calls
  <1>4. CASE Steps
    BY <1>4 DEF Steps
  <1> QED
    BY <1>1, <1>2, <1>3, <1>4

\* What the invariants are about: everything but the last answer and call of the
\* memory manager.
held == <<files, open, schema, pc, op, status, blive, others, stuck, clean>>

LEMMA TypeStays ==
  ASSUME TypeInv, UNCHANGED held
  PROVE  TypeInv'
  <1>1. UNCHANGED <<files, open, schema, pc, op, blive, stuck, clean>>
    BY DEF held
  <1>2. FilesTyped' /\ CallTyped' /\ LoadedTyped'
    BY <1>1 DEF TypeInv, FilesTyped, CallTyped, LoadedTyped
  <1> QED
    BY <1>1, <1>2, BackKept DEF TypeInv

LEMMA NextType == TypeInv /\ [Next]_vars => TypeInv'
  <1> SUFFICES ASSUME TypeInv, [Next]_vars PROVE TypeInv'
    OBVIOUS
  <1>1. CASE UNCHANGED vars
    BY <1>1, TypeStays DEF vars, held
  <1>2. CASE \E t \in Tables : LoadOpen(t)
    BY <1>2, LoadOpenType
  <1>3. CASE \E t \in Tables : Delete(t)
    BY <1>3, DeleteType
  <1>4. CASE \E t \in Tables, s \in Schemas : CreateOpen(t, s)
    BY <1>4, CreateType
  <1>5. CASE FreeNames \/ FreeItems
    BY <1>5, FreeNamesType, FreeItemsType
  <1>6. CASE \/ \E n \in OtherSizes : OtherAlloc(n)
             \/ \E b \in others : OtherFree(b)
    BY <1>6, OtherType
  <1>7. CASE CreateWrite \/ CreateClose
    BY <1>7, CreateStepsType
  <1>8. CASE LoadHead \/ LoadItem \/ LoadClose \/ FreeName
    BY <1>8, LoadHeadType, LoadItemType, LoadCloseType, FreeNameType
  <1>9. CASE PowerFailure
    BY <1>9, PowerType
  <1> QED
    BY <1>1, <1>2, <1>3, <1>4, <1>5, <1>6, <1>7, <1>8, <1>9, Actions

LEMMA SpecType == Spec => []TypeInv
  <1>1. TypeInv /\ [Next]_vars => TypeInv'
    BY NextType
  <1> QED
    BY <1>1, InitType, PTL DEF Spec

\* Every file begins as the file of a schema, a running call knows its table, and no
\* more files are open than the system allows.
THEOREM TypeCorrect == Spec => []TypeOK
  <1>1. TypeInv => TypeOK
    <2> SUFFICES ASSUME TypeInv PROVE TypeOK
      OBVIOUS
    <2>1. \A t \in Tables :
            files[t] # None => \E s \in Schemas : files[t] \in Prefixes(FileOf[s])
      BY FileBegins DEF TypeInv
    <2>2. schema # None => schema.num \in Nat /\ Len(schema.names) <= schema.num
      BY LoadedIs DEF TypeInv, LoadedTyped
    <2>3. pc = "idle" <=> op = None
      BY NoneAssumption DEF TypeInv, CallTyped
    <2> QED
      BY <2>1, <2>2, <2>3 DEF TypeInv, CallTyped, TypeOK
  <1> QED
    BY <1>1, SpecType, PTL
------------------------------------------------------------------------------
(***************************************************************************)
(* The blocks of the loaded schema.                                        *)
(***************************************************************************)
MemInv == Descending /\ OwnBlocks /\ Freeing /\ CleanInv

\* The pointers of a loaded schema are numbers, and which of them it holds.
Own(l) == ({l.items} \cup {l.names[i] : i \in DOMAIN l.names}) \ {NULL}

LEMMA OwnIs ==
  ASSUME NEW l \in Loaded
  PROVE  /\ DOMAIN l.names = 1 .. Len(l.names) /\ Len(l.names) \in Nat
         /\ l.items \in Int /\ \A i \in 1 .. Len(l.names) : l.names[i] \in Int
         /\ \A p : p \in Own(l) <=>
              /\ p # NULL
              /\ p = l.items \/ \E i \in 1 .. Len(l.names) : p = l.names[i]
  <1>1. l.names \in Seq(Pointers) /\ l.items \in Pointers
    BY LoadedIs
  <1>2. DOMAIN l.names = 1 .. Len(l.names) /\ Len(l.names) \in Nat
        /\ \A i \in 1 .. Len(l.names) : l.names[i] \in Pointers
    BY <1>1
  <1>3. \A p \in Pointers : p \in Int
    BY SchemaAssumption, MemoryCalls DEF Pointers
  <1> QED
    BY <1>1, <1>2, <1>3 DEF Own

LEMMA OwnPtrsAre ==
  /\ schema = None => OwnPtrs = {}
  /\ schema # None => OwnPtrs = Own(schema)
  BY DEF OwnPtrs, Own

\* The same blocks and the same schema after a step.
LEMMA SameBlocks ==
  ASSUME MemInv, UNCHANGED <<schema, blive, others, stuck>>,
         pc' = "load" => pc = "load", pc' = "free" => stuck # "stale"
  PROVE  Descending' /\ OwnBlocks'
  <1>1. Descending'
    BY DEF MemInv, Descending, Live
  <1>2. OwnPtrs' = OwnPtrs
    BY DEF OwnPtrs
  <1> QED
    BY <1>1, <1>2 DEF MemInv, OwnBlocks

\* No schema is held after a step that keeps all blocks.
LEMMA NoSchema ==
  ASSUME MemInv, schema' = None, others' = others, blive \subseteq blive',
         pc' = "load" => stuck' = "no", pc' = "free" => stuck' # "stale",
         clean' => /\ stuck' = "no" /\ blive' \subseteq others
                   /\ open' = IF pc' \in {"create", "load"} THEN 1 ELSE 0
  PROVE  MemInv'
  <1>1. OwnPtrs' = {} /\ others' \subseteq blive'
    BY DEF OwnPtrs, MemInv, OwnBlocks
  <1> QED
    BY <1>1 DEF MemInv, Descending, OwnBlocks, Freeing, CleanInv

LEMMA InitMem == Init => MemInv
  BY DEF Init, MemInv, Descending, OwnBlocks, Freeing, CleanInv, OwnPtrs

LEMMA CreateMem ==
  TypeInv /\ MemInv /\ (\/ \E t \in Tables, s \in Schemas : CreateOpen(t, s)
                        \/ CreateWrite \/ CreateClose)
  => MemInv'
  <1> SUFFICES ASSUME TypeInv, MemInv,
                      \/ \E t \in Tables, s \in Schemas : CreateOpen(t, s)
                      \/ CreateWrite \/ CreateClose
               PROVE  MemInv'
    OBVIOUS
  <1>1. /\ UNCHANGED <<schema, blive, others, stuck, clean>>
        /\ pc \in {"idle", "create"} /\ pc' \in {"idle", "create"}
        /\ status' = status \/ status' # "FAILED_TO_FREE_MEMORY"
        /\ \/ pc' = pc /\ open' = open
           \/ pc = "idle" /\ pc' = "create" /\ open' = open + 1
           \/ pc = "create" /\ pc' = "idle" /\ open' = open - 1
    <2>1. CASE \E t \in Tables, s \in Schemas : CreateOpen(t, s)
      BY <2>1 DEF CreateOpen, Return, ProbeCloses, memory, disk
    <2>2. CASE CreateWrite
      BY <2>2 DEF CreateWrite, Return, Close, memory
    <2>3. CASE CreateClose
      BY <2>3 DEF CreateClose, Return, Close, memory
    <2> QED
      BY <2>1, <2>2, <2>3
  <1>2. Descending' /\ OwnBlocks'
    BY <1>1, SameBlocks
  <1>3. Freeing'
    BY <1>1 DEF MemInv, Freeing, NoneFreed, AllFreed, Live
  <1>4. CleanInv'
    <2>1. OwnPtrs' = OwnPtrs
      BY <1>1 DEF OwnPtrs
    <2> QED
      BY <1>1, <2>1 DEF MemInv, CleanInv
  <1> QED
    BY <1>2, <1>3, <1>4 DEF MemInv

\* A load starts with no block of the client left, unless it has been lost.
LEMMA LoadOpenMem ==
  TypeInv /\ MemInv /\ (\E t \in Tables : LoadOpen(t)) => MemInv'
  <1> SUFFICES ASSUME TypeInv, MemInv, NEW t \in Tables, LoadOpen(t) PROVE MemInv'
    OBVIOUS
  <1>1. /\ pc = "idle" /\ schema' = None /\ stuck' = "no" /\ UNCHANGED <<blive, others>>
        /\ schema # None => schema.items = NULL \/ stuck # "no"
        /\ \/ pc' = "idle" /\ open' = open /\ (clean' => clean)
           \/ pc' = "idle" /\ ~clean'
           \/ pc' = "load" /\ open' = open + 1 /\ (clean' => clean)
    BY DEF LoadOpen, Return, memory
  <1>2. clean => blive \subseteq others
    <2> SUFFICES ASSUME clean PROVE OwnPtrs = {}
      BY DEF MemInv, CleanInv
    <2>1. CASE schema = None
      BY <2>1, OwnPtrsAre
    <2>2. CASE schema # None
      <3>1. stuck = "no" /\ schema.items = NULL /\ AllFreed
        BY <1>1, <2>2 DEF MemInv, CleanInv, Freeing
      <3>2. schema \in Loaded
        BY <2>2 DEF TypeInv, LoadedTyped
      <3> QED
        BY <2>2, <3>1, <3>2, OwnIs, OwnPtrsAre DEF AllFreed, Live
    <2> QED
      BY <2>1, <2>2
  <1>3. clean' => clean /\ open' = IF pc' \in {"create", "load"} THEN 1 ELSE 0
    <2>1. clean => open = 0
      BY <1>1 DEF MemInv, CleanInv
    <2> QED
      BY <1>1, <2>1
  <1> QED
    BY <1>1, <1>2, <1>3, NoSchema

LEMMA LoadHeadMem == TypeInv /\ MemInv /\ LoadHead => MemInv'
  <1> SUFFICES ASSUME TypeInv, MemInv, LoadHead PROVE MemInv'
    OBVIOUS
  <1>1. /\ pc = "load" /\ stuck = "no" /\ stuck' = "no" /\ OwnPtrs = {}
        /\ others' = others /\ others \subseteq blive /\ blive \subseteq blive'
        /\ clean => blive \subseteq others /\ open = 1
    BY LoadHeadDoes, OwnPtrsAre DEF MemInv, OwnBlocks, CleanInv
  <1>2. CASE schema' = None
    <2>1. /\ pc' = "idle"
          /\ \/ open' = open - 1 /\ blive' = blive /\ clean' = clean
             \/ clean' = FALSE
      BY <1>2, NoneAssumption, LoadHeadDoes DEF Close
    <2>2. clean' => clean /\ blive' = blive /\ open' = open - 1
      BY <2>1, Zenon
    <2> QED
      BY <1>1, <1>2, <2>1, <2>2, NoSchema
  <1>3. CASE schema' # None
    <2>1. /\ schema' \in Loaded /\ schema'.items = ret' /\ schema'.names = <<>>
          /\ ret' # NULL /\ pc' = "load" /\ open' = open /\ (clean' => clean)
      <3>1. UNCHANGED <<open, pc, op, status, clean>>
        BY <1>3, LoadHeadDoes
      <3>2. clean' => clean
        BY <3>1, Zenon
      <3> QED
        BY <1>3, <3>1, <3>2, LoadHeadDoes
    <2>2. PICK b : /\ b.ptr = ret' /\ b \notin blive /\ blive' = blive \cup {b}
                   /\ \A c \in blive : ret' < c.ptr
      BY <1>3, LoadHeadDoes
    <2>3. DOMAIN schema'.names = {} /\ OwnPtrs' = {ret'}
      BY <1>3, <2>1 DEF OwnPtrs
    <2>4. Descending' /\ Freeing'
      BY <2>1, <2>3 DEF Descending, Freeing, NoneFreed
    <2>5. OwnBlocks'
      <3>1. \A c \in others : c \in blive /\ ret' < c.ptr /\ c.ptr # ret'
        <4> SUFFICES ASSUME NEW c \in others PROVE c \in blive /\ ret' < c.ptr /\ c.ptr # ret'
          OBVIOUS
        <4>1. c \in blive /\ ret' < c.ptr
          BY <1>1, <2>2
        <4>2. c.ptr \in Int /\ ret' \in Int
          BY <2>1, <4>1, OneAddress, OwnIs DEF TypeInv
        <4> QED
          BY <4>1, <4>2
      <3>2. \A c \in blive' \ others' : c.ptr = ret' \/ ret' < c.ptr
        BY <1>1, <2>2
      <3>3. b \in blive' \ others'
        BY <1>1, <2>2
      <3> QED
        BY <1>1, <2>1, <2>2, <2>3, <3>1, <3>2, <3>3 DEF OwnBlocks
    <2>6. CleanInv'
      BY <1>1, <2>1, <2>2, <2>3 DEF CleanInv
    <2> QED
      BY <2>4, <2>5, <2>6 DEF MemInv
  <1> QED
    BY <1>2, <1>3

\* The new name lies below all blocks, and so below what the client holds.
LEMMA LoadItemMem == TypeInv /\ MemInv /\ LoadItem => MemInv'
  <1> SUFFICES ASSUME TypeInv, MemInv, LoadItem PROVE MemInv'
    OBVIOUS
  <1>1. /\ pc = "load" /\ stuck = "no" /\ stuck' = "no" /\ schema # None /\ schema \in Loaded
        /\ others' = others /\ others \subseteq blive /\ blive \subseteq blive'
        /\ clean => open = 1
    BY LoadItemDoes DEF MemInv, OwnBlocks, CleanInv
  <1>2. CASE schema' = None
    <2>1. pc' = "idle" /\ ~clean'
      BY <1>1, <1>2, NoneAssumption, LoadItemDoes
    <2> QED
      BY <1>1, <1>2, <2>1, NoSchema
  <1>3. CASE schema' # None
    <2> DEFINE n == Len(schema.names)
    <2>1. /\ schema' \in Loaded /\ schema'.items = schema.items
          /\ schema'.names = Append(schema.names, ret') /\ Len(schema'.names) = n + 1
          /\ n \in Nat /\ ret' # NULL /\ pc' = "load" /\ open' = open /\ (clean' => clean)
      <3>1. UNCHANGED <<open, pc, op, status, clean>>
        BY <1>3, LoadItemDoes
      <3>2. clean' => clean
        BY <3>1, Zenon
      <3> QED
        BY <1>3, <3>1, <3>2, LoadItemDoes
    <2>2. PICK b : /\ b.ptr = ret' /\ b \notin blive /\ blive' = blive \cup {b}
                   /\ \A c \in blive : ret' < c.ptr
      BY <1>3, LoadItemDoes
    <2>3. /\ \A i \in 1 .. n : schema'.names[i] = schema.names[i]
          /\ schema'.names[n + 1] = ret'
          /\ \A i \in 1 .. n : schema.names[i] \in Int
          /\ ret' \in Int /\ schema.items \in Int
          /\ DOMAIN schema'.names = 1 .. n + 1 /\ DOMAIN schema.names = 1 .. n
      <3>1. schema.names \in Seq(Pointers)
        BY <1>1, LoadedIs
      <3>2. ret' = schema'.names[n + 1] /\ \A i \in 1 .. n : schema'.names[i] = schema.names[i]
        BY <2>1, <3>1
      <3>3. n + 1 \in 1 .. n + 1
        BY <2>1
      <3> QED
        BY <1>1, <2>1, <3>2, <3>3, OwnIs
    <2>4. \A p : p \in OwnPtrs' <=> p \in OwnPtrs \/ p = ret'
      <3>1. \A p : p \in Own(schema') <=>
              /\ p # NULL
              /\ p = schema.items \/ \E i \in 1 .. n + 1 : p = schema'.names[i]
        <4>1. \A p : p \in Own(schema') <=>
                /\ p # NULL
                /\ p = schema'.items \/ \E i \in DOMAIN schema'.names : p = schema'.names[i]
          <5>1. schema' \in Loaded
            BY <2>1
          <5> QED
            BY <5>1, OwnIs
        <4>2. schema'.items = schema.items /\ DOMAIN schema'.names = 1 .. n + 1
          BY <2>1, <2>3
        <4> QED
          BY <4>1, <4>2, Zenon
      <3>2. \A p : p \in Own(schema) <=>
              /\ p # NULL
              /\ p = schema.items \/ \E i \in 1 .. n : p = schema.names[i]
        BY <1>1, OwnIs
      <3>3. 1 .. n + 1 = 1 .. n \cup {n + 1}
        BY <2>1
      <3>4. OwnPtrs = Own(schema) /\ OwnPtrs' = Own(schema')
        BY <1>1, <1>3 DEF OwnPtrs, Own
      <3> HIDE DEF n
      <3> QED
        BY <2>1, <2>3, <3>1, <3>2, <3>3, <3>4
    <2>5. \A p \in OwnPtrs : ret' < p
      BY <1>1, <2>2 DEF MemInv, OwnBlocks
    <2>6. NoneFreed /\ schema.items # NULL
      BY <1>1 DEF MemInv, Freeing
    <2>7. /\ \A i \in 1 .. n : schema.names[i] # NULL /\ ret' < schema.names[i]
          /\ ret' < schema.items
      <3>1. \A i \in 1 .. n : schema.names[i] # NULL
        BY <2>3, <2>6 DEF NoneFreed, Live
      <3>2. schema.items \in OwnPtrs /\ \A i \in 1 .. n : schema.names[i] \in OwnPtrs
        BY <1>1, <2>6, <3>1, OwnIs, OwnPtrsAre
      <3> QED
        BY <2>5, <3>1, <3>2
    <2>8. Descending'
      <3>1. \A i, j \in 1 .. n :
              i < j => schema.names[j] < schema.names[i]
        BY <1>1, <2>3, <2>7 DEF MemInv, Descending, Live
      <3>2. \A i \in 1 .. n : schema.names[i] < schema.items
        BY <1>1, <2>3, <2>6, <2>7 DEF MemInv, Descending, Live
      <3>3. ASSUME NEW i \in 1 .. n + 1, NEW j \in 1 .. n + 1, i < j
            PROVE  schema'.names[j] < schema'.names[i]
        <4>1. i \in 1 .. n
          BY <2>1, <3>3
        <4>2. CASE j = n + 1
          BY <2>3, <2>7, <4>1, <4>2
        <4>3. CASE j # n + 1
          <5>1. j \in 1 .. n
            BY <2>1, <4>3
          <5> QED
            BY <2>3, <3>1, <3>3, <4>1, <5>1
        <4> QED
          BY <4>2, <4>3
      <3>4. ASSUME NEW i \in 1 .. n + 1 PROVE schema'.names[i] < schema'.items
        <4>1. CASE i = n + 1
          BY <2>1, <2>3, <2>7, <4>1
        <4>2. CASE i # n + 1
          <5>1. i \in 1 .. n
            BY <2>1, <4>2
          <5> QED
            BY <2>1, <2>3, <3>2, <5>1
        <4> QED
          BY <4>1, <4>2
      <3> HIDE DEF n
      <3> QED
        BY <2>3, <3>3, <3>4 DEF Descending
    <2>9. Freeing'
      <3>1. NoneFreed'
        <4>1. \A i \in 1 .. n + 1 : schema'.names[i] # NULL
          BY <2>1, <2>3, <2>7
        <4> HIDE DEF n
        <4> QED
          BY <2>3, <4>1 DEF NoneFreed, Live
      <3> QED
        BY <2>1, <2>6, <3>1 DEF Freeing
    <2>10. OwnBlocks'
      <3>1. \A c \in others : c \in blive /\ c.ptr # ret'
        <4> SUFFICES ASSUME NEW c \in others PROVE c \in blive /\ c.ptr # ret'
          OBVIOUS
        <4>1. c \in blive /\ ret' < c.ptr
          BY <1>1, <2>2
        <4>2. c.ptr \in Int
          BY <4>1, OneAddress DEF TypeInv
        <4> QED
          BY <2>3, <4>1, <4>2
      <3>2. b \in blive' \ others'
        BY <1>1, <2>2
      <3>3. ASSUME NEW p \in OwnPtrs' PROVE \E c \in blive' \ others' : c.ptr = p
        <4>1. CASE p = ret'
          BY <2>2, <3>2, <4>1
        <4>2. CASE p \in OwnPtrs
          <5>1. PICK c \in blive \ others : c.ptr = p
            BY <1>1, <4>2 DEF MemInv, OwnBlocks
          <5> QED
            BY <1>1, <5>1
        <4> QED
          BY <2>4, <4>1, <4>2
      <3>4. ASSUME NEW c \in blive' \ others', NEW p \in OwnPtrs'
            PROVE  c.ptr \in OwnPtrs' \/ p < c.ptr
        <4>1. CASE c = b
          BY <2>2, <2>4, <4>1
        <4>2. CASE c # b
          <5>1. c \in blive \ others /\ ret' < c.ptr
            BY <1>1, <2>2, <4>2
          <5>2. p = ret' \/ c.ptr \in OwnPtrs \/ p < c.ptr
            BY <1>1, <2>4, <5>1 DEF MemInv, OwnBlocks
          <5> QED
            BY <2>4, <5>1, <5>2
        <4> QED
          BY <4>1, <4>2
      <3>5. \A p \in OwnPtrs', c \in others' : c.ptr # p
        BY <1>1, <2>4, <3>1 DEF MemInv, OwnBlocks
      <3> QED
        BY <1>1, <2>1, <3>3, <3>4, <3>5 DEF OwnBlocks
    <2>11. CleanInv'
      <3>1. clean => \A c \in blive \ others : c.ptr \in OwnPtrs
        BY DEF MemInv, CleanInv
      <3>2. clean' => \A c \in blive' \ others' : c.ptr \in OwnPtrs'
        BY <1>1, <2>1, <2>2, <2>4, <3>1
      <3> QED
        BY <1>1, <2>1, <3>2 DEF CleanInv
    <2> QED
      BY <2>8, <2>9, <2>10, <2>11 DEF MemInv
  <1> QED
    BY <1>2, <1>3

LEMMA LoadCloseMem == TypeInv /\ MemInv /\ LoadClose => MemInv'
  <1> SUFFICES ASSUME TypeInv, MemInv, LoadClose PROVE MemInv'
    OBVIOUS
  <1>1. /\ pc = "load" /\ pc' = "idle" /\ open' = open - 1 /\ status' = "OK"
        /\ UNCHANGED <<schema, blive, others, stuck, clean>>
    BY DEF LoadClose, Return, Close, memory
  <1>2. Descending' /\ OwnBlocks'
    BY <1>1, SameBlocks
  <1>3. Freeing'
    BY <1>1 DEF MemInv, Freeing, NoneFreed, AllFreed, Live
  <1>4. CleanInv'
    <2>1. OwnPtrs' = OwnPtrs
      BY <1>1 DEF OwnPtrs
    <2> QED
      BY <1>1, <2>1 DEF MemInv, CleanInv
  <1> QED
    BY <1>2, <1>3, <1>4 DEF MemInv

LEMMA FreeNamesMem == TypeInv /\ MemInv /\ stuck # "stale" /\ FreeNames => MemInv'
  <1> SUFFICES ASSUME TypeInv, MemInv, stuck # "stale", FreeNames PROVE MemInv'
    OBVIOUS
  <1>1. /\ pc = "idle" /\ pc' = "free" /\ op' = [i |-> schema.num] /\ schema # None
        /\ UNCHANGED <<open, status, schema, blive, others, stuck, clean>>
    BY DEF FreeNames, memory, disk
  <1>2. Descending' /\ OwnBlocks'
    BY <1>1, SameBlocks
  <1>3. Freeing'
    <2>1. /\ DOMAIN schema.names = 1 .. schema.num /\ schema.num \in Nat
      BY <1>1, LoadedIs, OwnIs DEF TypeInv, LoadedTyped
    <2>2. stuck = "no" => (AllFreed \/ \A i \in DOMAIN schema.names : Live(i) <=> i <= schema.num)
      BY <1>1, <2>1 DEF MemInv, Freeing, NoneFreed
    <2> QED
      BY <1>1, <2>2 DEF MemInv, Freeing, NoneFreed, AllFreed, Live
  <1>4. CleanInv'
    <2>1. OwnPtrs' = OwnPtrs
      BY <1>1 DEF OwnPtrs
    <2> QED
      BY <1>1, <2>1 DEF MemInv, CleanInv
  <1> QED
    BY <1>2, <1>3, <1>4 DEF MemInv

\* A block of the client is freed at once.
LEMMA BlockFreed ==
  ASSUME TypeInv, MemInv, NEW p \in OwnPtrs, NEW b \in blive, b.ptr = p,
         blive' = blive \ {b}, others' = others, stuck' = stuck, stuck # "stale",
         OwnPtrs' = OwnPtrs \ {p}, pc' # "load"
  PROVE  /\ OwnBlocks'
         /\ clean => \A c \in blive' \ others' : c.ptr \in OwnPtrs'
  <1>1. b \notin others /\ others \subseteq blive
    BY DEF MemInv, OwnBlocks
  <1>2. \A c \in blive : c.ptr = p => c = b
    BY OneAddress DEF TypeInv
  <1>3. \A c \in blive' \ others' : c \in blive \ others /\ c.ptr # p
    BY <1>2
  <1>4. clean => \A c \in blive' \ others' : c.ptr \in OwnPtrs'
    BY <1>3 DEF MemInv, CleanInv
  <1>5. ASSUME stuck = "no", NEW q \in OwnPtrs'
        PROVE  /\ \E c \in blive' \ others' : c.ptr = q
               /\ \A c \in blive' \ others' : c.ptr \in OwnPtrs' \/ q < c.ptr
    <2>1. q \in OwnPtrs /\ q # p
      OBVIOUS
    <2>2. PICK c \in blive \ others : c.ptr = q
      BY <1>5, <2>1 DEF MemInv, OwnBlocks
    <2>3. c \in blive' \ others'
      BY <2>1, <2>2
    <2>4. \A d \in blive' \ others' : d.ptr \in OwnPtrs' \/ q < d.ptr
      BY <1>3, <1>5, <2>1 DEF MemInv, OwnBlocks
    <2> QED
      BY <2>2, <2>3, <2>4
  <1>6. \A q \in OwnPtrs', c \in others' : c.ptr # q
    BY DEF MemInv, OwnBlocks
  <1> QED
    BY <1>1, <1>4, <1>5, <1>6 DEF OwnBlocks

\* A free that fails, of a pointer that is held or of none.
LEMMA FreeFailedMem ==
  ASSUME TypeInv, MemInv, NEW p \in OwnPtrs \cup {NULL}, Bfree(p), FreeFailed(p),
         pc \in {"idle", "free"}, stuck # "stale", UNCHANGED <<disk, others>>,
         p = NULL /\ stuck = "no" => AllFreed
  PROVE  MemInv'
  <1>1. /\ pc' = "idle" /\ status' = "FAILED_TO_FREE_MEMORY" /\ open' = open
        /\ schema' = schema /\ others' = others
        /\ p = NULL => stuck' = stuck /\ clean' = clean
        /\ p # NULL => stuck' = "failed" /\ clean' = FALSE
    BY DEF FreeFailed, Return, disk
  <1>2. OwnPtrs' = OwnPtrs
    BY <1>1 DEF OwnPtrs
  <1>3. Descending'
    BY <1>1 DEF MemInv, Descending, Live
  <1>4. CASE p = NULL
    <2>1. blive' = blive
      <3>1. \A b \in blive : b.ptr # p
        <4> SUFFICES ASSUME NEW b \in blive PROVE b.ptr # p
          OBVIOUS
        <4>1. b.ptr \in Nat
          BY OneAddress, SchemaAssumption DEF TypeInv
        <4> QED
          BY <1>4, <4>1, MemoryCalls
      <3> QED
        BY <3>1, BfreeDoes DEF TypeInv
    <2>2. clean' => clean
      BY <1>1, <1>4, Zenon
    <2>3. OwnBlocks'
      BY <1>1, <1>4, <2>1, SameBlocks
    <2>4. Freeing'
      <3>1. stuck = "no" => AllFreed
        BY <1>4
      <3>2. AllFreed' = AllFreed
        BY <1>1 DEF AllFreed, Live
      <3> QED
        BY <1>1, <1>4, <3>1, <3>2 DEF Freeing
    <2>5. CleanInv'
      BY <1>1, <1>2, <1>4, <2>1, <2>2 DEF MemInv, CleanInv
    <2> QED
      BY <1>3, <2>3, <2>4, <2>5 DEF MemInv
  <1>5. CASE p # NULL
    <2>1. others \subseteq blive'
      <3>1. \A b \in blive : b.ptr = p => b \notin others
        BY <1>5 DEF MemInv, OwnBlocks
      <3> QED
        BY <3>1, BfreeDoes DEF TypeInv, MemInv, OwnBlocks
    <2>2. OwnBlocks'
      BY <1>1, <1>2, <1>5, <2>1 DEF MemInv, OwnBlocks
    <2> QED
      BY <1>1, <1>3, <1>5, <2>2 DEF MemInv, Freeing, CleanInv
  <1> QED
    BY <1>4, <1>5

\* The pointers of the client, item by item.
LEMMA Pointing ==
  ASSUME TypeInv, schema # None
  PROVE  /\ schema \in Loaded /\ DOMAIN schema.names = 1 .. Len(schema.names)
         /\ Len(schema.names) \in Nat
         /\ schema.items \in Int /\ \A i \in 1 .. Len(schema.names) : schema.names[i] \in Int
         /\ \A p : p \in OwnPtrs <=>
              /\ p # NULL
              /\ p = schema.items \/ \E i \in 1 .. Len(schema.names) : p = schema.names[i]
  <1>1. schema \in Loaded
    BY DEF TypeInv, LoadedTyped
  <1> QED
    BY <1>1, OwnIs, OwnPtrsAre

LEMMA FreeNameMem == TypeInv /\ MemInv /\ FreeName => MemInv'
  <1> SUFFICES ASSUME TypeInv, MemInv, FreeName PROVE MemInv'
    OBVIOUS
  <1> DEFINE n == Len(schema.names)
  <1>1. /\ pc = "free" /\ schema # None /\ schema \in Loaded /\ op.i \in Nat
        /\ op.i <= n /\ stuck # "stale" /\ others' = others /\ open' = open
        /\ clean => open = 0
    BY FreeNameIs DEF MemInv, OwnBlocks, CleanInv, FreeName, disk
  <1>2. /\ n \in Nat /\ DOMAIN schema.names = 1 .. n
        /\ schema.items \in Int /\ \A i \in 1 .. n : schema.names[i] \in Int
    BY <1>1, Pointing
  <1>3. CASE op.i = 0
    <2>1. /\ pc' = "idle" /\ status' = "OK" /\ UNCHANGED <<schema, blive, stuck, clean>>
      BY <1>3 DEF FreeName, Return, memory
    <2>2. Descending' /\ OwnBlocks'
      BY <1>1, <2>1, SameBlocks
    <2>3. Freeing'
      <3>1. stuck = "no" => AllFreed
        BY <1>1, <1>2, <1>3 DEF MemInv, Freeing, AllFreed
      <3>2. AllFreed' = AllFreed
        BY <2>1 DEF AllFreed, Live
      <3> QED
        BY <2>1, <3>1, <3>2 DEF Freeing
    <2>4. CleanInv'
      <3>1. OwnPtrs' = OwnPtrs
        BY <2>1 DEF OwnPtrs
      <3>2. clean' => clean
        BY <2>1, Zenon
      <3> QED
        BY <1>1, <2>1, <3>1, <3>2 DEF MemInv, CleanInv
    <2> QED
      BY <2>2, <2>3, <2>4 DEF MemInv
  <1>4. CASE op.i # 0
    <2> DEFINE p == schema.names[op.i]
    <2>1. op.i \in 1 .. n /\ op.i > 0 /\ Bfree(p)
      BY <1>1, <1>4, FreeNameIs
    <2>2. p \in OwnPtrs \cup {NULL}
      BY <1>1, <2>1, Pointing
    <2>3. stuck = "no" => p # NULL \/ AllFreed
      BY <1>1, <1>2, <2>1 DEF MemInv, Freeing, Live
    <2>4. CASE ret' # 1
      <3>1. FreeFailed(p) /\ UNCHANGED <<disk, others>>
        BY <1>4, <2>4 DEF FreeName, Refused, NameAt
      <3> HIDE DEF p
      <3> QED
        BY <1>1, <2>1, <2>2, <2>3, <3>1, FreeFailedMem
    <2>5. CASE ret' = 1
      <3>1. PICK b \in blive : b.ptr = p /\ blive' = blive \ {b}
        BY <2>1, <2>5, BfreeDoes DEF TypeInv
      <3>2. p \in Nat /\ p # NULL /\ p \in OwnPtrs
        <4>1. p \in Nat
          BY <3>1, OneAddress, SchemaAssumption DEF TypeInv
        <4> QED
          BY <2>2, <4>1, MemoryCalls
      <3>3. /\ schema' \in Loaded /\ schema'.items = schema.items
            /\ Len(schema'.names) = n
            /\ \A i \in 1 .. n : schema'.names[i] = IF i = op.i THEN NULL ELSE schema.names[i]
            /\ op' = [i |-> op.i - 1] /\ UNCHANGED <<pc, status, stuck, clean>>
        BY <2>1, <2>5, NameCleared
      <3>4. schema' # None /\ DOMAIN schema'.names = 1 .. n
        BY <3>3, NoneAssumption, OwnIs
      <3>5. \A i, j \in 1 .. n :
              /\ i < j /\ schema.names[i] # NULL /\ schema.names[j] # NULL
                   => schema.names[j] < schema.names[i]
              /\ schema.names[i] # NULL /\ schema.items # NULL
                   => schema.names[i] < schema.items
        BY <1>1, <1>2 DEF MemInv, Descending, Live
      <3>6. schema.items # p /\ \A i \in 1 .. n : i # op.i => schema.names[i] # p
        <4>1. schema.items # NULL => schema.names[op.i] < schema.items
          BY <2>1, <3>2, <3>5
        <4>2. ASSUME NEW i \in 1 .. n, i # op.i PROVE schema.names[i] # p
          <5>1. i < op.i \/ op.i < i
            BY <1>1, <1>2, <4>2
          <5>2. schema.names[i] # NULL => schema.names[i] < p \/ p < schema.names[i]
            BY <2>1, <3>2, <3>5, <5>1
          <5> HIDE DEF p, n
          <5> QED
            BY <1>2, <3>2, <5>2
        <4>3. schema.items # p
          BY <1>2, <3>2, <4>1
        <4> QED
          BY <4>2, <4>3
      <3>7. OwnPtrs' = OwnPtrs \ {p}
        <4>1. \A q : q \in OwnPtrs' <=>
                /\ q # NULL
                /\ q = schema.items \/ \E i \in 1 .. n : q = schema'.names[i]
          <5>1. OwnPtrs' = Own(schema')
            BY <3>4 DEF OwnPtrs, Own
          <5> HIDE DEF n
          <5> QED
            BY <3>3, <5>1, OwnIs
        <4>2. \A q : q \in OwnPtrs <=>
                /\ q # NULL
                /\ q = schema.items \/ \E i \in 1 .. n : q = schema.names[i]
          BY <1>1, Pointing
        <4>3. \A q : q \in OwnPtrs' <=> q \in OwnPtrs /\ q # p
          <5> TAKE q
          <5>1. (\E i \in 1 .. n : q = schema'.names[i]) /\ q # NULL
                  <=> (\E i \in 1 .. n : i # op.i /\ q = schema.names[i]) /\ q # NULL
            BY <3>3
          <5>2. (\E i \in 1 .. n : i # op.i /\ q = schema.names[i])
                  <=> (\E i \in 1 .. n : q = schema.names[i]) /\ q # p
            BY <2>1, <3>6
          <5> HIDE DEF n, p
          <5> QED
            BY <3>6, <4>1, <4>2, <5>1, <5>2
        <4> QED
          BY <4>3
      <3>8. stuck = "no" => \A i \in 1 .. n : schema.names[i] # NULL <=> i <= op.i
        BY <1>1, <1>2, <2>1, <3>2 DEF MemInv, Freeing, AllFreed, Live
      <3>9. Descending'
        <4>1. \A i, j \in 1 .. n :
                /\ i < j /\ schema'.names[i] # NULL /\ schema'.names[j] # NULL
                     => schema'.names[j] < schema'.names[i]
                /\ schema'.names[i] # NULL /\ schema'.items # NULL
                     => schema'.names[i] < schema'.items
          BY <3>3, <3>5
        <4> HIDE DEF n
        <4> QED
          BY <3>4, <4>1 DEF Descending, Live
      <3>10. Freeing'
        <4>1. stuck = "no" => \A i \in 1 .. n : schema'.names[i] # NULL <=> i <= op.i - 1
          BY <1>1, <1>2, <3>3, <3>8
        <4>2. stuck = "no" => ~AllFreed
          BY <1>2, <2>1, <3>2 DEF AllFreed, Live
        <4>3. stuck = "no" => schema.items # NULL /\ status # "FAILED_TO_FREE_MEMORY"
          BY <1>1, <4>2 DEF MemInv, Freeing
        <4> HIDE DEF n
        <4> QED
          BY <1>1, <3>3, <3>4, <4>1, <4>3 DEF Freeing, Live
      <3>11. OwnBlocks' /\ (clean => \A c \in blive' \ others' : c.ptr \in OwnPtrs')
        <4>1. pc' # "load" /\ stuck' = stuck
          BY <1>1, <3>3
        <4> HIDE DEF p
        <4> QED
          BY <1>1, <3>1, <3>2, <3>7, <4>1, BlockFreed
      <3>12. CleanInv'
        <4>1. clean' => clean
          BY <3>3, Zenon
        <4> QED
          BY <1>1, <3>3, <3>11, <4>1 DEF MemInv, CleanInv
      <3> QED
        BY <3>9, <3>10, <3>11, <3>12 DEF MemInv
    <2> QED
      BY <2>4, <2>5
  <1> QED
    BY <1>3, <1>4

LEMMA FreeItemsMem == TypeInv /\ MemInv /\ stuck # "stale" /\ FreeItems => MemInv'
  <1> SUFFICES ASSUME TypeInv, MemInv, stuck # "stale", FreeItems PROVE MemInv'
    OBVIOUS
  <1> DEFINE n == Len(schema.names)
             p == schema.items
  <1>1. /\ pc = "idle" /\ pc' = "idle" /\ schema # None /\ Bfree(p)
        /\ others' = others /\ open' = open /\ UNCHANGED disk
        /\ clean => open = 0
    BY DEF FreeItems, FreeFailed, Return, disk, MemInv, CleanInv
  <1>2. /\ n \in Nat /\ DOMAIN schema.names = 1 .. n /\ schema \in Loaded
        /\ p \in Int /\ \A i \in 1 .. n : schema.names[i] \in Int
        /\ p # NULL => p \in OwnPtrs
        /\ \A i \in 1 .. n : schema.names[i] # NULL => schema.names[i] \in OwnPtrs
    BY <1>1, Pointing
  <1>3. CASE ret' # 1
    <2>1. FreeFailed(p)
      BY <1>3 DEF FreeItems, Refused
    <2>2. p = NULL /\ stuck = "no" => AllFreed
      BY <1>1 DEF MemInv, Freeing
    <2>3. p \in OwnPtrs \cup {NULL}
      BY <1>2
    <2> HIDE DEF p
    <2> QED
      BY <1>1, <2>1, <2>2, <2>3, FreeFailedMem
  <1>4. CASE ret' = 1
    <2>1. PICK b \in blive : b.ptr = p /\ blive' = blive \ {b} /\ Back!Topmost(b)
      BY <1>1, <1>4, BfreeDoes DEF TypeInv
    <2>2. p # NULL /\ p \in OwnPtrs
      <3>1. p \in Nat
        BY <2>1, OneAddress, SchemaAssumption DEF TypeInv
      <3> QED
        BY <1>2, <3>1, MemoryCalls
    <2>3. /\ schema' = [schema EXCEPT !.items = NULL] /\ status' = "OK"
          /\ UNCHANGED <<stuck, clean>>
      BY <1>4 DEF FreeItems, Refused, Cleared, Return
    <2>4. /\ schema' \in Loaded /\ schema'.items = NULL /\ schema'.names = schema.names
          /\ schema' # None
      <3>1. NULL \in Pointers
        BY DEF Pointers
      <3> QED
        BY <1>2, <2>3, <3>1, ItemsSet, NoneAssumption
    <2>5. \A i \in 1 .. n : schema.names[i] # NULL => schema.names[i] < p
      BY <1>1, <1>2, <2>2 DEF MemInv, Descending, Live
    <2>6. OwnPtrs' = OwnPtrs \ {p}
      <3>1. \A q : q \in OwnPtrs' <=> q # NULL /\ \E i \in 1 .. n : q = schema.names[i]
        <4>1. OwnPtrs' = Own(schema')
          BY <2>4 DEF OwnPtrs, Own
        <4> QED
          BY <2>4, <4>1, OwnIs
      <3>2. \A q : q \in OwnPtrs <=> q # NULL /\ (q = p \/ \E i \in 1 .. n : q = schema.names[i])
        BY <1>1, Pointing
      <3>3. \A i \in 1 .. n : schema.names[i] # NULL => schema.names[i] # p
        BY <1>2, <2>5
      <3> HIDE DEF n, p
      <3> QED
        BY <3>1, <3>2, <3>3
    <2>7. stuck = "no" => AllFreed
      <3> SUFFICES ASSUME stuck = "no", NEW i \in 1 .. n, schema.names[i] # NULL PROVE FALSE
        BY <1>2 DEF AllFreed, Live
      <3>1. PICK c \in blive : c.ptr = schema.names[i]
        BY <1>2 DEF MemInv, OwnBlocks
      <3>2. p <= c.ptr
        BY <2>1, <3>1 DEF Back!Topmost
      <3> QED
        BY <1>2, <2>5, <3>1, <3>2
    <2>8. Descending'
      BY <1>1, <2>4 DEF MemInv, Descending, Live
    <2>9. OwnBlocks' /\ (clean => \A c \in blive' \ others' : c.ptr \in OwnPtrs')
      <3>1. pc' # "load" /\ stuck' = stuck
        BY <1>1, <2>3
      <3> HIDE DEF p
      <3> QED
        BY <1>1, <2>1, <2>2, <2>6, <3>1, BlockFreed
    <2>10. Freeing'
      <3>1. stuck = "no" => AllFreed'
        BY <2>4, <2>7 DEF AllFreed, Live
      <3> QED
        BY <1>1, <2>3, <3>1 DEF Freeing
    <2>11. CleanInv'
      <3>1. clean' => clean
        BY <2>3, Zenon
      <3> QED
        BY <1>1, <2>3, <2>9, <3>1 DEF MemInv, CleanInv
    <2> QED
      BY <2>8, <2>9, <2>10, <2>11 DEF MemInv
  <1> QED
    BY <1>3, <1>4

LEMMA DeleteMem == TypeInv /\ MemInv /\ (\E t \in Tables : Delete(t)) => MemInv'
  <1> SUFFICES ASSUME TypeInv, MemInv, NEW t \in Tables, Delete(t) PROVE MemInv'
    OBVIOUS
  <1>1. /\ pc = "idle" /\ pc' = "idle" /\ open' = open
        /\ status' # "FAILED_TO_FREE_MEMORY"
        /\ UNCHANGED <<schema, blive, others, stuck, clean>>
    BY DEF Delete, Return, memory
  <1>2. Descending' /\ OwnBlocks'
    BY <1>1, SameBlocks
  <1>3. Freeing'
    BY <1>1 DEF MemInv, Freeing, NoneFreed, AllFreed, Live
  <1>4. CleanInv'
    <2>1. OwnPtrs' = OwnPtrs
      BY <1>1 DEF OwnPtrs
    <2>2. clean' => clean
      BY <1>1, Zenon
    <2> QED
      BY <1>1, <2>1, <2>2 DEF MemInv, CleanInv
  <1> QED
    BY <1>2, <1>3, <1>4 DEF MemInv

\* Another client takes and gives back blocks of its own.
LEMMA OtherKeeps ==
  ASSUME TypeInv, MemInv, pc = "idle", UNCHANGED <<disk, schema, pc, op, status, clean>>,
         others' \subseteq blive', blive' \ others' = blive \ others,
         stuck' = stuck \/ (stuck # "no" /\ stuck' = "stale"),
         stuck' # "stale" => \A p \in OwnPtrs, b \in others' : b.ptr # p
  PROVE  MemInv'
  <1>1. OwnPtrs' = OwnPtrs
    BY DEF OwnPtrs
  <1>2. Descending'
    BY DEF MemInv, Descending, Live
  <1>3. OwnBlocks'
    BY <1>1 DEF MemInv, OwnBlocks
  <1>4. Freeing'
    BY DEF MemInv, Freeing, NoneFreed, AllFreed, Live
  <1>5. CleanInv'
    <2>1. clean' => clean
      BY Zenon
    <2>2. open' = open
      BY DEF disk
    <2> QED
      BY <1>1, <2>1, <2>2 DEF MemInv, CleanInv
  <1> QED
    BY <1>2, <1>3, <1>4, <1>5 DEF MemInv

LEMMA OtherAllocMem ==
  TypeInv /\ MemInv /\ (\E n \in OtherSizes : OtherAlloc(n)) => MemInv'
  <1> SUFFICES ASSUME TypeInv, MemInv, NEW n \in OtherSizes, OtherAlloc(n) PROVE MemInv'
    OBVIOUS
  <1>1. /\ pc = "idle" /\ UNCHANGED <<disk, schema, pc, op, status, clean>>
        /\ others \subseteq blive
        /\ stuck # "stale" => \A p \in OwnPtrs, b \in others : b.ptr # p
    BY DEF OtherAlloc, MemInv, OwnBlocks
  <1>2. CASE blive' = blive /\ others' = others /\ stuck' = stuck
    BY <1>1, <1>2, OtherKeeps
  <1>3. CASE ~(blive' = blive /\ others' = others /\ stuck' = stuck)
    <2> DEFINE b == [ptr |-> ret', size |-> n]
    <2>1. /\ stuck' = IF stuck = "no" THEN stuck ELSE "stale"
          /\ b \notin blive /\ blive' = blive \cup {b} /\ others' = others \cup {b}
          /\ \A c \in blive : b.ptr < c.ptr
      BY <1>3, OtherAllocDoes DEF TypeInv
    <2> HIDE DEF b
    <2>2. others' \subseteq blive' /\ blive' \ others' = blive \ others
      BY <1>1, <2>1
    <2>3. stuck = "no" => \A p \in OwnPtrs : b.ptr # p
      <3> SUFFICES ASSUME stuck = "no", NEW p \in OwnPtrs PROVE b.ptr # p
        OBVIOUS
      <3>1. PICK c \in blive : c.ptr = p
        BY DEF MemInv, OwnBlocks
      <3>2. b.ptr < c.ptr /\ c.ptr \in 0 .. SegSize
        BY <2>1, <3>1, OneAddress DEF TypeInv
      <3>3. c.ptr \in Int
        BY <3>2, SchemaAssumption
      <3> QED
        BY <3>1, <3>2, <3>3
    <2>4. stuck' # "stale" => stuck = "no"
      BY <2>1
    <2>5. stuck' # "stale" => \A p \in OwnPtrs, c \in others' : c.ptr # p
      BY <1>1, <2>1, <2>3, <2>4
    <2> QED
      BY <1>1, <2>1, <2>2, <2>5, OtherKeeps
  <1> QED
    BY <1>2, <1>3

LEMMA OtherFreeMem ==
  TypeInv /\ MemInv /\ (\E b \in others : OtherFree(b)) => MemInv'
  <1> SUFFICES ASSUME TypeInv, MemInv, NEW b \in others, OtherFree(b) PROVE MemInv'
    OBVIOUS
  <1>1. /\ pc = "idle" /\ UNCHANGED <<disk, schema, pc, op, status, stuck, clean>>
        /\ others' = others \ (blive \ blive') /\ Memory!BFree(b)
        /\ others \subseteq blive /\ b \in blive
        /\ stuck # "stale" => \A p \in OwnPtrs, c \in others : c.ptr # p
    BY DEF OtherFree, MemInv, OwnBlocks
  <1>2. blive' = blive \ {b} \/ blive' = blive
    BY <1>1, MemoryCalls, Back!FreeStep DEF TypeInv
  <1>3. others' \subseteq blive' /\ blive' \ others' = blive \ others /\ others' \subseteq others
    BY <1>1, <1>2
  <1> QED
    BY <1>1, <1>3, OtherKeeps

LEMMA PowerMem == TypeInv /\ MemInv /\ PowerFailure => MemInv'
  <1> SUFFICES ASSUME TypeInv, MemInv, PowerFailure PROVE MemInv'
    OBVIOUS
  <1>1. /\ schema' = None /\ pc' = "idle" /\ stuck' = "no" /\ open' = 0
        /\ blive' = {} /\ others' = {}
    BY DEF PowerFailure, Return
  <1>2. OwnPtrs' = {}
    BY <1>1 DEF OwnPtrs
  <1> QED
    BY <1>1, <1>2 DEF MemInv, Descending, OwnBlocks, Freeing, CleanInv

LEMMA MemStays ==
  ASSUME MemInv, UNCHANGED held
  PROVE  MemInv'
  <1>1. UNCHANGED <<schema, pc, op, status, open, blive, others, stuck, clean>>
    BY DEF held
  <1>2. Descending' /\ OwnBlocks'
    BY <1>1, SameBlocks DEF MemInv, OwnBlocks
  <1>3. Freeing'
    BY <1>1 DEF MemInv, Freeing, NoneFreed, AllFreed, Live
  <1>4. OwnPtrs' = OwnPtrs
    BY <1>1 DEF OwnPtrs
  <1>5. clean' => clean
    BY <1>1, Zenon
  <1>6. CleanInv'
    BY <1>1, <1>4, <1>5 DEF MemInv, CleanInv
  <1> QED
    BY <1>2, <1>3, <1>6 DEF MemInv

LEMMA NextMem == TypeInv /\ MemInv /\ [Next]_vars => MemInv'
  <1> SUFFICES ASSUME TypeInv, MemInv, [Next]_vars PROVE MemInv'
    OBVIOUS
  <1>1. CASE UNCHANGED vars
    BY <1>1, MemStays DEF vars, held
  <1>2. CASE \E t \in Tables : LoadOpen(t)
    BY <1>2, LoadOpenMem
  <1>3. CASE \E t \in Tables : Delete(t)
    BY <1>3, DeleteMem
  <1>4. CASE \/ \E t \in Tables, s \in Schemas : CreateOpen(t, s)
             \/ CreateWrite \/ CreateClose
    BY <1>4, CreateMem
  <1>5. CASE stuck # "stale" /\ (FreeNames \/ FreeItems)
    BY <1>5, FreeNamesMem, FreeItemsMem
  <1>6. CASE \E n \in OtherSizes : OtherAlloc(n)
    BY <1>6, OtherAllocMem
  <1>7. CASE \E b \in others : OtherFree(b)
    BY <1>7, OtherFreeMem
  <1>8. CASE LoadHead \/ LoadItem \/ LoadClose \/ FreeName
    BY <1>8, LoadHeadMem, LoadItemMem, LoadCloseMem, FreeNameMem
  <1>9. CASE PowerFailure
    BY <1>9, PowerMem
  <1> QED
    BY <1>1, <1>2, <1>3, <1>4, <1>5, <1>6, <1>7, <1>8, <1>9, Actions

LEMMA SpecMem == Spec => [](TypeInv /\ MemInv)
  <1>1. Init => TypeInv /\ MemInv
    BY InitType, InitMem
  <1>2. TypeInv /\ MemInv /\ [Next]_vars => TypeInv' /\ MemInv'
    BY NextType, NextMem
  <1> QED
    BY <1>1, <1>2, PTL DEF Spec

\* No function of the schema store frees a block of another client of the memory
\* manager.
THEOREM OtherBlocksKept == Spec => []OthersKept
  <1>1. TypeInv /\ MemInv => OthersKept
    BY DEF MemInv, OwnBlocks, OthersKept
  <1> QED
    BY <1>1, SpecMem, PTL

LEMMA MemLost == MemInv => NothingLost
  <1> SUFFICES ASSUME MemInv, pc = "idle", clean
               PROVE  {b.ptr : b \in blive \ others} = OwnPtrs /\ open = 0
    BY DEF NothingLost
  <1>1. stuck = "no" /\ open = 0 /\ \A b \in blive \ others : b.ptr \in OwnPtrs
    BY DEF MemInv, CleanInv
  <1>2. \A p \in OwnPtrs : \E b \in blive \ others : b.ptr = p
    BY <1>1 DEF MemInv, OwnBlocks
  <1> QED
    BY <1>1, <1>2

\* As long as no call has failed half way, the loads have taken what the client
\* holds and the frees can give back, and no file stays open.
THEOREM LoadsGivenBack == Spec => []NothingLost
  BY MemLost, SpecMem, PTL

\* A free that fails, of a pointer that is held: a lower block is in the way.
LEMMA LowerBlock ==
  ASSUME TypeInv, MemInv, stuck = "no", NEW p \in OwnPtrs, Bfree(p), ret' # 1
  PROVE  \/ p = SegSize
         \/ \E b \in others : b.ptr < p
         \/ \E q \in OwnPtrs : q < p
  <1>1. PICK b \in blive \ others : b.ptr = p
    BY DEF MemInv, OwnBlocks
  <1>2. CASE blive' = blive
    <2>1. p = SegSize \/ \E d \in blive : d.ptr = p /\ blive' = blive \ {d}
      BY <1>1, BfreeDoes DEF TypeInv
    <2> QED
      BY <1>2, <2>1
  <1>3. CASE blive' # blive
    <2>1. PICK d \in blive : d.ptr = p /\ ~Back!Topmost(d)
      BY <1>3, BfreeDoes DEF TypeInv
    <2>2. PICK c \in blive : ~(d.ptr <= c.ptr)
      BY <2>1 DEF Back!Topmost
    <2>3. c.ptr < p /\ ~(p < c.ptr)
      <3>1. c.ptr \in 0 .. SegSize /\ d.ptr \in 0 .. SegSize
        BY <2>1, <2>2, OneAddress DEF TypeInv
      <3>2. c.ptr \in Int /\ d.ptr \in Int
        BY <3>1, SchemaAssumption
      <3> QED
        BY <2>1, <2>2, <3>2
    <2>4. c \in others \/ c.ptr \in OwnPtrs
      BY <2>3 DEF MemInv, OwnBlocks
    <2> QED
      BY <2>3, <2>4
  <1> QED
    BY <1>2, <1>3

\* The frees of a loaded schema go from the top of the back stack down: one fails only
\* for a block of another client, for what is freed already, or for the attributes
\* before the names.
THEOREM OrderOfFrees == Spec => FreesInOrder
  <1> DEFINE Held(p) ==
        \/ p \in {NULL, SegSize}
        \/ \E b \in others : b.ptr < p
        \/ p = schema.items /\ \E i \in DOMAIN schema.names : schema.names[i] # NULL
  <1>1. ASSUME TypeInv, MemInv, FreeName, stuck = "no", status' = "FAILED_TO_FREE_MEMORY"
        PROVE  Held(call'[2])
    <2> DEFINE n == Len(schema.names)
               p == schema.names[op.i]
    <2>1. /\ pc = "free" /\ schema # None /\ schema \in Loaded /\ op.i \in Nat
          /\ op.i > 0 => op.i \in 1 .. n /\ Bfree(p)
      BY <1>1, FreeNameIs
    <2>2. /\ n \in Nat /\ DOMAIN schema.names = 1 .. n
          /\ schema.items \in Int /\ \A i \in 1 .. n : schema.names[i] \in Int
      BY <1>1, <2>1, Pointing
    <2>3. op.i > 0
      <3>1. CASE op.i = 0
        BY <1>1, <3>1 DEF FreeName, Return
      <3> QED
        BY <2>1, <3>1
    <2>4. call'[2] = p
      BY <1>1, <2>1, <2>3, BfreeDoes DEF TypeInv
    <2>5. CASE p = NULL
      BY <2>4, <2>5
    <2>6. CASE p # NULL
      <3>1. p \in OwnPtrs
        BY <1>1, <2>1, <2>3, <2>6, Pointing
      <3>2. /\ \A i \in 1 .. n : schema.names[i] # NULL <=> i <= op.i
            /\ schema.items # NULL
            /\ status # "FAILED_TO_FREE_MEMORY"
        BY <1>1, <2>1, <2>2, <2>3, <2>6 DEF MemInv, Freeing, AllFreed, Live
      <3>3. ret' # 1
        BY <1>1, <2>3, <3>2, NameCleared
      <3>4. \A q \in OwnPtrs : ~(q < p)
        <4> SUFFICES ASSUME NEW q \in OwnPtrs, q < p PROVE FALSE
          OBVIOUS
        <4>1. p < schema.items
          BY <1>1, <2>1, <2>2, <2>3, <2>6, <3>2 DEF MemInv, Descending, Live
        <4>2. CASE q = schema.items
          BY <2>1, <2>2, <2>3, <4>1, <4>2
        <4>3. ASSUME NEW i \in 1 .. n, q = schema.names[i], q # NULL PROVE FALSE
          <5>1. i <= op.i
            BY <3>2, <4>3
          <5>2. i < op.i => p < schema.names[i]
            BY <1>1, <2>1, <2>2, <2>3, <2>6, <4>3 DEF MemInv, Descending, Live
          <5>3. i # op.i
            BY <2>1, <2>2, <2>3, <4>3
          <5>4. p < q
            BY <2>1, <2>2, <4>3, <5>1, <5>2, <5>3
          <5>5. p \in Int /\ q \in Int
            BY <2>1, <2>2, <2>3, <4>3
          <5> HIDE DEF p
          <5> QED
            BY <5>4, <5>5
        <4> QED
          BY <1>1, <2>1, <4>2, <4>3, Pointing
      <3>5. p = SegSize \/ \E b \in others : b.ptr < p
        <4> HIDE DEF p
        <4> QED
          BY <1>1, <2>1, <2>3, <3>1, <3>3, <3>4, LowerBlock
      <3> QED
        BY <2>4, <3>5
    <2> QED
      BY <2>5, <2>6
  <1>2. ASSUME TypeInv, MemInv, FreeItems, stuck = "no", status' = "FAILED_TO_FREE_MEMORY"
        PROVE  Held(call'[2])
    <2> DEFINE p == schema.items
    <2>1. schema # None /\ Bfree(p) /\ ret' # 1
      BY <1>2 DEF FreeItems, Refused, Return
    <2>2. call'[2] = p
      BY <1>2, <2>1, BfreeDoes DEF TypeInv
    <2>3. CASE p = NULL
      BY <2>2, <2>3
    <2>4. CASE p # NULL
      <3>1. p \in OwnPtrs
        BY <1>2, <2>1, <2>4, Pointing
      <3>2. ASSUME NEW q \in OwnPtrs, q < p
            PROVE  \E i \in DOMAIN schema.names : schema.names[i] # NULL
        BY <1>2, <2>1, <3>2, Pointing
      <3> QED
        BY <1>2, <2>1, <2>2, <3>1, <3>2, LowerBlock
    <2> QED
      BY <2>3, <2>4
  <1> DEFINE Ordered ==
        /\ FreeName \/ FreeItems
        /\ stuck = "no"
        /\ status' = "FAILED_TO_FREE_MEMORY"
        => Held(call'[2])
  <1>3. TypeInv /\ MemInv /\ [Next]_vars => [Ordered]_vars
    <2> HIDE DEF Held
    <2> QED
      BY <1>1, <1>2
  <1>4. Spec => [][Ordered]_vars
    BY <1>3, SpecMem, PTL DEF Spec
  <1> QED
    BY <1>4 DEF FreesInOrder
==============================================================================
