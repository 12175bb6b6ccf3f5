--------------------------- MODULE SchemaRefinement ---------------------------
(***************************************************************************)
(* Schema implements SchemaStore, when fopen fails only for files that are *)
(* not there, or when no more can be open, and fclose writes what is       *)
(* buffered.                                                               *)
(***************************************************************************)
EXTENDS SchemaProofs

FaultsRule == Faults \cap {"open", "close"} = {}

\* What has been written of a schema, all of whose fields have bytes.
Begins(p, s) ==
  /\ p \in Prefixes(FileOf[s])
  /\ \A i \in DOMAIN s.items : NameLen[s.items[i].name] < Byte
  /\ \A k \in 1 .. Len(p) : p[k][2] > 0

\* Every file begins as that of a schema that was created.
FilesBegin ==
  \A t \in Tables : files[t] # None => \E s \in Schemas : Begins(files[t], s)

\* A create writes its own schema.
Creates == pc = "create" => Begins(File, op.of)

\* A load has read the file as far as it has come.
Reads ==
  pc = "load" /\ schema # None =>
    /\ 2 + 4 * Len(schema.names) <= Len(File)
    /\ schema.id = File[1][1] /\ schema.num = File[2][1]
    /\ \A i \in 1 .. Len(schema.names) : schema.read[i] = Item(File, i)

FileInv == FilesBegin /\ Creates /\ Reads
------------------------------------------------------------------------------
(***************************************************************************)
(* Files and the schemas they hold.                                        *)
(***************************************************************************)
\* A prefix, field by field.
LEMMA FileParts ==
  ASSUME NEW s \in Schemas, NEW p \in Prefixes(FileOf[s])
  PROVE  /\ Len(p) \in Nat /\ Len(p) <= 2 + 4 * Len(s.items) /\ Len(s.items) \in Nat
         /\ \A k \in 1 .. Len(p) : p[k] = FileOf[s][k]
         /\ \E S : p \in Seq(S) /\ FileOf[s] \in Seq(S)
  <1>1. PICK S : FileOf[s] \in Seq(S)
    BY FileIs
  <1> QED
    BY <1>1, PrefixIs, FileIs

\* A prefix as long as the file is the file.
LEMMA WholeFile ==
  ASSUME NEW s \in Schemas, NEW p \in Prefixes(FileOf[s]), Len(p) >= 2 + 4 * Len(s.items)
  PROVE  p = FileOf[s]
  <1>1. /\ Len(p) \in Nat /\ Len(p) = 2 + 4 * Len(s.items)
        /\ \A k \in 1 .. Len(p) : p[k] = FileOf[s][k]
    BY FileParts
  <1>2. PICK S : p \in Seq(S) /\ FileOf[s] \in Seq(S)
    BY FileParts
  <1>3. Len(FileOf[s]) = Len(p)
    BY <1>1, FileIs
  <1> QED
    BY <1>1, <1>2, <1>3, SeqEqual

\* No file of a schema is the beginning of that of another.
LEMMA OneFile ==
  ASSUME NEW s \in Schemas, NEW r \in Schemas, FileOf[r] \in Prefixes(FileOf[s])
  PROVE  r = s
  <1> DEFINE p == FileOf[r]
  <1>1. /\ Len(p) = 2 + 4 * Len(r.items) /\ Len(r.items) \in Nat
        /\ \A k \in 1 .. Len(p) : p[k] = FileOf[s][k]
    BY FileIs, FileParts
  <1>2. r.id = s.id /\ Len(r.items) = Len(s.items)
    <2>1. 1 \in 1 .. Len(p) /\ 2 \in 1 .. Len(p)
      BY <1>1
    <2>2. p[1] = FileOf[s][1] /\ p[2] = FileOf[s][2]
      BY <1>1, <2>1
    <2>3. <<r.id, 1>> = <<s.id, 1>> /\ <<Len(r.items), 1>> = <<Len(s.items), 1>>
      BY <2>2, FileIs
    <2> QED
      BY <2>3
  <1>3. ASSUME NEW i \in 1 .. Len(r.items) PROVE r.items[i] = s.items[i]
    <2>1. ASSUME NEW k \in 1 .. 4 PROVE ItemField(r.items[i], k) = ItemField(s.items[i], k)
      <3>1. 2 + 4 * (i - 1) + k \in 1 .. Len(p)
        BY <1>1
      <3>2. p[2 + 4 * (i - 1) + k] = FileOf[s][2 + 4 * (i - 1) + k]
        BY <1>1, <3>1
      <3> QED
        BY <1>2, <3>2, FileIs
    <2>2. /\ ItemField(r.items[i], 2) = ItemField(s.items[i], 2)
          /\ ItemField(r.items[i], 3) = ItemField(s.items[i], 3)
          /\ ItemField(r.items[i], 4) = ItemField(s.items[i], 4)
      BY <2>1
    <2>3. /\ r.items[i].name = s.items[i].name
          /\ r.items[i].type = s.items[i].type
          /\ r.items[i].size = s.items[i].size
      BY <2>2 DEF ItemField
    <2>4. r.items[i] \in Attributes /\ s.items[i] \in Attributes
      BY <1>2, FileIs
    <2> QED
      BY <2>3, <2>4 DEF Attributes
  <1>4. r.items = s.items
    <2>1. r.items \in Seq(Attributes) /\ s.items \in Seq(Attributes)
      BY FileIs
    <2> QED
      BY <1>2, <1>3, <2>1, SeqEqual
  <1> QED
    BY <1>2, <1>4, FileIs

\* The schema a beginning holds: the whole one, or none that can be used.
LEMMA SchemaInIs ==
  /\ SchemaIn(None) = None
  /\ \A s \in Schemas : \A p \in Prefixes(FileOf[s]) :
       SchemaIn(p) = (IF p = FileOf[s] THEN s ELSE Damaged) /\ SchemaIn(p) # None
  <1>1. SchemaIn(None) = None
    BY DEF SchemaIn
  <1>2. ASSUME NEW s \in Schemas, NEW p \in Prefixes(FileOf[s])
        PROVE  SchemaIn(p) = (IF p = FileOf[s] THEN s ELSE Damaged) /\ SchemaIn(p) # None
    <2>1. p # None /\ s # None /\ Damaged # None
      BY NoneAssumption
    <2>2. \A r \in Schemas : p = FileOf[r] => r = s
      BY OneFile
    <2>3. CASE p = FileOf[s]
      <3>1. (CHOOSE r \in Schemas : p = FileOf[r]) = s
        BY <2>2, <2>3
      <3> QED
        BY <2>1, <2>3, <3>1 DEF SchemaIn
    <2>4. CASE p # FileOf[s]
      <3>1. ~ \E r \in Schemas : p = FileOf[r]
        BY <2>2, <2>4
      <3> QED
        BY <2>1, <2>4, <3>1 DEF SchemaIn
    <2> QED
      BY <2>3, <2>4
  <1> QED
    BY <1>1, <1>2

\* The empty file, what is left of a beginning, and one more field.
LEMMA BeginsMore ==
  ASSUME NEW s \in Schemas, \A i \in DOMAIN s.items : NameLen[s.items[i].name] < Byte
  PROVE  /\ Begins(<<>>, s)
         /\ \A p : Begins(p, s) => \A q \in Prefixes(p) : Begins(q, s)
         /\ \A p : /\ Begins(p, s) /\ Len(p) < Len(FileOf[s])
                   /\ FileOf[s][Len(p) + 1][2] > 0
                   => Begins(Append(p, FileOf[s][Len(p) + 1]), s)
  <1>1. PICK S : FileOf[s] \in Seq(S)
    BY FileIs
  <1>2. FileOf[s] \in Prefixes(FileOf[s])
    BY <1>1, PrefixIs
  <1>3. Begins(<<>>, s)
    <2>1. <<>> \in Prefixes(FileOf[s])
      BY <1>1, <1>2, MorePrefixes
    <2>2. \A k \in 1 .. Len(<<>>) : <<>>[k][2] > 0
      OBVIOUS
    <2> QED
      BY <2>1, <2>2 DEF Begins
  <1>4. ASSUME NEW p, Begins(p, s), NEW q \in Prefixes(p) PROVE Begins(q, s)
    <2>1. p \in Prefixes(FileOf[s]) /\ \A k \in 1 .. Len(p) : p[k][2] > 0
      BY <1>4 DEF Begins
    <2>2. q \in Prefixes(FileOf[s])
      BY <1>1, <1>4, <2>1, MorePrefixes
    <2>3. p \in Seq(S) /\ Len(p) \in Nat
      BY <1>1, <2>1, PrefixIs
    <2>4. Len(q) <= Len(p) /\ Len(q) \in Nat /\ \A k \in 1 .. Len(q) : q[k] = p[k]
      BY <1>4, <2>3, PrefixIs
    <2>5. \A k \in 1 .. Len(q) : q[k][2] > 0
      BY <2>1, <2>3, <2>4
    <2> QED
      BY <2>2, <2>5 DEF Begins
  <1>5. ASSUME NEW p, Begins(p, s), Len(p) < Len(FileOf[s]), FileOf[s][Len(p) + 1][2] > 0
        PROVE  Begins(Append(p, FileOf[s][Len(p) + 1]), s)
    <2> DEFINE f == FileOf[s][Len(p) + 1]
               q == Append(p, f)
    <2>1. p \in Prefixes(FileOf[s]) /\ \A k \in 1 .. Len(p) : p[k][2] > 0
      BY <1>5 DEF Begins
    <2>2. q \in Prefixes(FileOf[s]) /\ p \in Seq(S) /\ Len(p) \in Nat
      BY <1>1, <1>5, <2>1, MorePrefixes, PrefixIs
    <2>3. f \in S
      BY <1>1, <1>5, <2>2
    <2>4. /\ Len(q) = Len(p) + 1 /\ q[Len(p) + 1] = f
          /\ \A k \in 1 .. Len(p) : q[k] = p[k]
      BY <2>2, <2>3, AppendProperties
    <2> HIDE DEF q
    <2>5. \A k \in 1 .. Len(q) : q[k][2] > 0
      BY <1>5, <2>1, <2>2, <2>4
    <2>6. Begins(q, s)
      BY <2>2, <2>5 DEF Begins
    <2> QED
      BY <2>6 DEF q
  <1> QED
    BY <1>3, <1>4, <1>5

\* What has been written whole is read back as it was created: no name is cut short.
LEMMA ReadBack ==
  ASSUME NEW s \in Schemas, Begins(FileOf[s], s), NEW i \in 1 .. Len(s.items)
  PROVE  Item(FileOf[s], i) = s.items[i]
  <1>1. /\ Len(s.items) \in Nat /\ Len(FileOf[s]) = 2 + 4 * Len(s.items)
        /\ s.items \in Seq(Attributes) /\ s.items[i] \in Attributes
    BY FileIs
  <1> DEFINE a == s.items[i]
             k == 2 + 4 * (i - 1) + 2
  <1>2. /\ a.name \in DOMAIN NameLen /\ a.type \in Nat /\ a.size \in Nat
        /\ a = [name |-> a.name, type |-> a.type, size |-> a.size]
    BY <1>1 DEF Attributes
  <1>3. NameLen[a.name] \in Nat /\ NameLen[a.name] < Byte /\ Byte \in Nat \ {0}
    BY <1>1, <1>2, SchemaAssumption DEF Begins
  <1>4. NameBytes(a) > 0
    <2>1. k \in 1 .. Len(FileOf[s])
      BY <1>1
    <2>2. FileOf[s][k] = ItemField(a, 2)
      BY FileIs
    <2>3. FileOf[s][k][2] > 0
      BY <2>1 DEF Begins
    <2> HIDE DEF a, k
    <2> QED
      BY <2>2, <2>3 DEF ItemField
  <1>5. NameBytes(a) = NameLen[a.name] + 1
    <2> DEFINE m == NameLen[a.name]
    <2>1. m \in Nat /\ m < Byte /\ Byte \in Nat \ {0} /\ (m + 1) % Byte > 0
      BY <1>3, <1>4 DEF NameBytes
    <2> HIDE DEF m
    <2>2. m + 1 # Byte
      BY <2>1
    <2>3. (m + 1) % Byte = m + 1
      BY <2>1, <2>2
    <2> QED
      BY <2>3 DEF m, NameBytes
  <1>6. Text(ItemField(a, 2)) = a.name
    <2> HIDE DEF a
    <2> QED
      BY <1>5 DEF Text, ItemField
  <1>7. Item(FileOf[s], i) = [name |-> Text(ItemField(a, 2)), type |-> a.type, size |-> a.size]
    <2>1. FileOf[s] \in Prefixes(FileOf[s])
      BY DEF Begins
    <2>2. i \in Nat \ {0} /\ 2 + 4 * (i - 1) + 4 <= Len(FileOf[s])
      BY <1>1
    <2> QED
      BY <2>1, <2>2, ItemTyped
  <1> QED
    BY <1>2, <1>6, <1>7

------------------------------------------------------------------------------
(***************************************************************************)
(* Files begin as those of schemas, and a load has read what it holds.     *)
(***************************************************************************)
\* The files stay, and no create and no load goes on.
LEMMA FilesStay ==
  ASSUME FileInv, UNCHANGED files, pc' # "create", pc' = "load" => schema' = None
  PROVE  FileInv'
  BY DEF FileInv, FilesBegin, Creates, Reads

\* A file is written.
LEMMA FileWritten ==
  ASSUME FilesTyped, FileInv, NEW t \in Tables, NEW s \in Schemas, NEW p, Begins(p, s),
         files' = [files EXCEPT ![t] = p],
         pc' = "create" => op'.tbl = t /\ op'.of = s, pc' # "load"
  PROVE  FileInv'
  <1>1. files'[t] = p /\ \A u \in Tables : u # t => files'[u] = files[u]
    BY DEF FilesTyped
  <1>2. FilesBegin'
    BY <1>1 DEF FileInv, FilesBegin
  <1>3. Creates'
    BY <1>1 DEF Creates, File
  <1> QED
    BY <1>2, <1>3 DEF FileInv, Reads

LEMMA CreateFiles ==
  ASSUME TypeInv, FileInv,
         \/ \E t \in Tables, s \in Schemas : NamesRule(t, s) /\ CreateOpen(t, s)
         \/ CreateWrite \/ CreateClose
  PROVE  FileInv'
  <1>1. ASSUME NEW t \in Tables, NEW s \in Schemas, NamesRule(t, s), CreateOpen(t, s)
        PROVE  FileInv'
    <2>1. CASE UNCHANGED files /\ pc' = "idle"
      BY <2>1, FilesStay
    <2>2. CASE files' = [files EXCEPT ![t] = <<>>] /\ pc' = "create"
               /\ op' = [tbl |-> t, of |-> s]
      <3>1. \A i \in DOMAIN s.items : NameLen[s.items[i].name] < Byte
        BY <1>1 DEF NamesRule
      <3>2. Begins(<<>>, s)
        BY <3>1, BeginsMore
      <3> QED
        BY <2>2, <3>2, FileWritten DEF TypeInv
    <2> QED
      BY <1>1, <2>1, <2>2 DEF CreateOpen, Return, disk
  <1>2. ASSUME CreateWrite \/ CreateClose PROVE FileInv'
    <2>1. /\ pc = "create" /\ op.tbl \in Tables /\ op.of \in Schemas /\ Begins(File, op.of)
      BY <1>2 DEF CreateWrite, CreateClose, TypeInv, CallTyped, FileInv, Creates
    <2>2. \A i \in DOMAIN op.of.items : NameLen[op.of.items[i].name] < Byte
      BY <2>1 DEF Begins
    <2>3. CASE UNCHANGED files /\ pc' = "idle"
      BY <2>3, FilesStay
    <2>4. CASE (\E q \in Prefixes(File) : SetFile(q)) /\ pc' = "idle"
      <3>1. PICK q \in Prefixes(File) : SetFile(q)
        BY <2>4
      <3>2. Begins(q, op.of)
        BY <2>1, <2>2, BeginsMore
      <3> QED
        BY <2>1, <2>4, <3>1, <3>2, FileWritten DEF TypeInv, SetFile
    <2>5. CASE /\ Len(File) < Len(FileOf[op.of]) /\ FileOf[op.of][Len(File) + 1][2] > 0
               /\ SetFile(Append(File, FileOf[op.of][Len(File) + 1]))
               /\ UNCHANGED <<pc, op>>
      <3> DEFINE q == Append(File, FileOf[op.of][Len(File) + 1])
      <3>1. Begins(q, op.of)
        BY <2>1, <2>2, <2>5, BeginsMore
      <3>2. files' = [files EXCEPT ![op.tbl] = q]
        BY <2>5 DEF SetFile
      <3> HIDE DEF q
      <3> QED
        BY <2>1, <2>5, <3>1, <3>2, FileWritten DEF TypeInv
    <2> QED
      BY <1>2, <2>3, <2>4, <2>5 DEF CreateWrite, CreateClose, Return
  <1> QED
    BY <1>1, <1>2

LEMMA LoadFiles ==
  ASSUME TypeInv, FileInv, LoadHead \/ LoadItem
  PROVE  FileInv'
  <1>1. UNCHANGED files /\ pc' # "create" /\ pc = "load"
    BY LoadHeadDoes, LoadItemDoes
  <1>2. CASE schema' = None
    BY <1>1, <1>2, FilesStay
  <1>3. CASE LoadHead /\ schema' # None
    <2>1. /\ Len(File) >= 2 /\ schema'.names = <<>> /\ op' = op
          /\ schema'.id = File[1][1] /\ schema'.num = File[2][1]
      BY <1>3, LoadHeadDoes
    <2>2. File' = File /\ Len(schema'.names) = 0
      BY <1>1, <2>1 DEF File
    <2>3. Reads'
      BY <2>1, <2>2 DEF Reads
    <2> QED
      BY <1>1, <2>3 DEF FileInv, FilesBegin, Creates
  <1>4. CASE LoadItem /\ schema' # None
    <2> DEFINE n == Len(schema.names)
    <2>1. /\ 2 + 4 * n + 4 <= Len(File) /\ op' = op /\ schema # None /\ n \in Nat
          /\ schema'.id = schema.id /\ schema'.num = schema.num
          /\ schema'.read = Append(schema.read, Item(File, n + 1))
          /\ Len(schema'.names) = n + 1 /\ Len(schema.read) = n
          /\ schema \in Loaded
      BY <1>4, LoadItemDoes
    <2>2. File' = File
      BY <1>1, <2>1 DEF File
    <2>3. \A i \in 1 .. n + 1 : schema'.read[i] = Item(File, i)
      <3>1. \A i \in 1 .. n : schema.read[i] = Item(File, i)
        BY <1>1, <2>1 DEF FileInv, Reads
      <3>2. schema.read \in Seq(ReadItems)
        BY <2>1, LoadedIs
      <3> DEFINE e == Item(File, n + 1)
      <3>3. /\ \A i \in 1 .. n : schema'.read[i] = schema.read[i]
            /\ schema'.read[n + 1] = e
        <4> HIDE DEF e
        <4>1. schema'.read = Append(schema.read, e)
          BY <2>1 DEF e
        <4> HIDE DEF n
        <4> QED
          BY <2>1, <3>2, <4>1
      <3> HIDE DEF n
      <3>4. ASSUME NEW i \in 1 .. n + 1 PROVE schema'.read[i] = Item(File, i)
        <4>1. i \in 1 .. n \/ i = n + 1
          BY <2>1
        <4> QED
          BY <3>1, <3>3, <4>1
      <3> QED
        BY <3>4
    <2>4. /\ schema.id = File[1][1] /\ schema.num = File[2][1]
      BY <1>1, <2>1 DEF FileInv, Reads
    <2>5. 2 + 4 * (n + 1) <= Len(File)
      <3>1. 2 + 4 * n + 4 = 2 + 4 * (n + 1)
        BY <2>1
      <3> QED
        BY <2>1, <3>1
    <2> HIDE DEF n
    <2>6. Reads'
      BY <2>1, <2>2, <2>3, <2>4, <2>5 DEF Reads, Item
    <2> QED
      BY <1>1, <2>6 DEF FileInv, FilesBegin, Creates
  <1> QED
    BY <1>2, <1>3, <1>4

LEMMA PowerFiles ==
  ASSUME TypeInv, FileInv, PowerFailure
  PROVE  FileInv'
  <1>1. pc' = "idle"
    BY DEF PowerFailure, Return
  <1>2. CASE UNCHANGED files
    BY <1>1, <1>2, FilesStay
  <1>3. CASE pc = "create" /\ \E q \in Prefixes(File) \cup {None} : SetFile(q)
    <2>1. /\ op.tbl \in Tables /\ op.of \in Schemas /\ Begins(File, op.of)
      BY <1>3 DEF TypeInv, CallTyped, FileInv, Creates
    <2>2. PICK q \in Prefixes(File) \cup {None} : SetFile(q)
      BY <1>3
    <2>3. CASE q = None
      <3>1. FilesBegin'
        BY <2>1, <2>2, <2>3 DEF SetFile, TypeInv, FilesTyped, FileInv, FilesBegin
      <3> QED
        BY <1>1, <3>1 DEF FileInv, Creates, Reads
    <2>4. CASE q \in Prefixes(File)
      <3>1. Begins(q, op.of)
        BY <2>1, <2>4, BeginsMore DEF Begins
      <3> QED
        BY <1>1, <2>1, <2>2, <3>1, FileWritten DEF TypeInv, SetFile
    <2> QED
      BY <2>3, <2>4
  <1> QED
    BY <1>2, <1>3 DEF PowerFailure

LEMMA FilesHeld ==
  ASSUME FileInv, UNCHANGED held
  PROVE  FileInv'
  BY DEF held, FileInv, FilesBegin, Creates, Reads, File, Item

LEMMA NextFiles == TypeInv /\ FileInv /\ [Next]_vars => FileInv'
  <1> SUFFICES ASSUME TypeInv, FileInv, [Next]_vars PROVE FileInv'
    OBVIOUS
  <1>1. CASE UNCHANGED vars
    BY <1>1, FilesHeld DEF vars, held
  <1>2. CASE \/ \E t \in Tables, s \in Schemas : NamesRule(t, s) /\ CreateOpen(t, s)
             \/ CreateWrite \/ CreateClose
    BY <1>2, CreateFiles
  <1>3. CASE \E t \in Tables : Delete(t)
    <2>1. PICK t \in Tables : Delete(t)
      BY <1>3
    <2>2. pc' = "idle" /\ (files' = files \/ files' = [files EXCEPT ![t] = None])
      BY <2>1 DEF Delete, Return
    <2>3. FilesBegin'
      BY <2>2 DEF TypeInv, FilesTyped, FileInv, FilesBegin
    <2> QED
      BY <2>2, <2>3 DEF FileInv, Creates, Reads
  <1>4. CASE LoadHead \/ LoadItem
    BY <1>4, LoadFiles
  <1>5. CASE \E t \in Tables : LoadOpen(t)
    <2>1. UNCHANGED files /\ pc' # "create" /\ schema' = None
      BY <1>5 DEF LoadOpen, Return
    <2> QED
      BY <2>1, FilesStay
  <1>6. CASE FreeNames \/ FreeItems \/ FreeName \/ LoadClose
    <2>1. UNCHANGED files /\ pc' \in {"idle", "free"}
      BY <1>6 DEF FreeNames, FreeItems, FreeName, FreeFailed, LoadClose, Return, disk
    <2> QED
      BY <2>1, FilesStay
  <1>7. CASE \/ \E n \in OtherSizes : OtherAlloc(n)
             \/ \E b \in others : OtherFree(b)
    <2>1. UNCHANGED files /\ pc' = "idle"
      BY <1>7 DEF OtherAlloc, OtherFree, disk
    <2> QED
      BY <2>1, FilesStay
  <1>8. CASE PowerFailure
    BY <1>8, PowerFiles
  <1> QED
    BY <1>1, <1>2, <1>3, <1>4, <1>5, <1>6, <1>7, <1>8, Actions

\* Everything there is to know of a state of the schema store.
AllInv == TypeInv /\ MemInv /\ FileInv

LEMMA InitAll == Init => AllInv
  BY InitType, InitMem DEF Init, AllInv, FileInv, FilesBegin, Creates, Reads

LEMMA NextAll == AllInv /\ [Next]_vars => AllInv'
  BY NextType, NextMem, NextFiles DEF AllInv

LEMMA AllStays == AllInv /\ UNCHANGED held => AllInv'
  BY TypeStays, MemStays, FilesHeld DEF AllInv

------------------------------------------------------------------------------
(***************************************************************************)
(* The mapping, step by step.                                              *)
(***************************************************************************)
\* What the client has loaded, as SchemaStore sees it.
ClientHas ==
  IF pc # "load" /\ stuck = "no" /\ schema # None
       /\ NULL \notin {schema.items} \cup {schema.names[i] : i \in DOMAIN schema.names}
    THEN [id |-> schema.id, items |-> schema.read] ELSE None

\* What is stored, table by table.
LEMMA StoredIs ==
  ASSUME TypeInv
  PROVE  /\ Stored \in [Tables -> Schemas \cup {Damaged, None}]
         /\ \A t \in Tables : Stored[t] =
              IF Creating /\ op.tbl = t THEN None ELSE SchemaIn(files[t])
         /\ \A t \in Tables :
              ~(Creating /\ op.tbl = t) => (Stored[t] = None <=> files[t] = None)
  <1>1. ASSUME NEW t \in Tables
        PROVE  /\ SchemaIn(files[t]) \in Schemas \cup {Damaged, None}
               /\ SchemaIn(files[t]) = None <=> files[t] = None
    <2>1. CASE files[t] = None
      BY <2>1, SchemaInIs
    <2>2. CASE files[t] # None
      <3>1. PICK s \in Schemas : files[t] \in Prefixes(FileOf[s])
        BY <2>2, FileBegins DEF TypeInv
      <3> QED
        BY <2>2, <3>1, SchemaInIs
    <2> QED
      BY <2>1, <2>2
  <1> QED
    BY <1>1 DEF Stored

\* No schema is made, before and after, and the files stay.
LEMMA StoredStays ==
  ASSUME UNCHANGED files, pc # "create", pc' # "create"
  PROVE  Stored' = Stored /\ Making = None /\ Making' = None
  <1>1. ~Creating /\ ~Creating'
    BY DEF Creating
  <1> QED
    BY <1>1 DEF Stored, Making, SchemaIn

LEMMA CreateOpenRefines ==
  ASSUME TypeInv, FaultsRule, NEW t \in Tables, NEW s \in Schemas, CreateOpen(t, s)
  PROVE  \/ pc' = "idle" /\ Store!RefuseCreate(t)
         \/ pc' = "create" /\ Store!BeginCreate(t, s)
  <1>1. /\ pc = "idle" /\ UNCHANGED <<schema, stuck>> /\ pc' # "load"
        /\ "open" \notin Faults /\ ~Creating /\ Making = None
    BY DEF CreateOpen, Return, FaultsRule, Creating, Making
  <1>2. ClientHas' = ClientHas
    BY <1>1 DEF ClientHas
  <1>3. CASE UNCHANGED files /\ pc' = "idle" /\ CanRead(t) /\ status' = "TABLE_ALREADY_EXISTS"
    <2>1. Stored' = Stored /\ Making' = None
      BY <1>1, <1>3, StoredStays
    <2>2. Stored[t] # None
      BY <1>1, <1>3, StoredIs DEF CanRead
    <2> QED
      BY <1>1, <1>2, <1>3, <2>1, <2>2 DEF Store!RefuseCreate, ClientHas
  <1>4. CASE UNCHANGED files /\ pc' = "idle" /\ status' = "FILE_NOT_CREATED"
    <2>1. Stored' = Stored /\ Making' = None
      BY <1>1, <1>4, StoredStays
    <2> QED
      BY <1>1, <1>2, <1>4, <2>1 DEF Store!RefuseCreate, ClientHas
  <1>5. CASE /\ MayFailToRead(t) /\ open < MaxOpen /\ files' = [files EXCEPT ![t] = <<>>]
             /\ pc' = "create" /\ op' = [tbl |-> t, of |-> s] /\ UNCHANGED status
    <2>1. files[t] = None
      BY <1>1, <1>5 DEF MayFailToRead, CanRead
    <2>2. Creating' /\ Making' = [tbl |-> t, of |-> s]
      BY <1>5 DEF Creating, Making
    <2>3. \A u \in Tables : u # t => files'[u] = files[u]
      BY <1>5 DEF TypeInv, FilesTyped
    <2>4. Stored[t] = None
      BY <1>1, <2>1, StoredIs
    <2>5. Stored' = Stored
      <3>1. \A u \in Tables : Stored'[u] = Stored[u]
        <4> TAKE u \in Tables
        <4>1. CASE u = t
          BY <1>5, <2>2, <2>4, <4>1 DEF Stored
        <4>2. CASE u # t
          BY <1>1, <1>5, <2>2, <2>3, <4>2 DEF Stored, SchemaIn
        <4> QED
          BY <4>1, <4>2
      <3> QED
        BY <3>1 DEF Stored
    <2> QED
      BY <1>1, <1>2, <1>5, <2>2, <2>4, <2>5 DEF Store!BeginCreate, ClientHas
  <1> QED
    BY <1>3, <1>4, <1>5 DEF CreateOpen, Return, disk

\* A create ends with its schema stored, or with a damaged one.
LEMMA CreateEnds ==
  ASSUME TypeInv, pc = "create", pc' = "idle", UNCHANGED <<schema, stuck>>,
         NEW p \in Prefixes(FileOf[op.of]), files' = [files EXCEPT ![op.tbl] = p],
         \/ status' = "OK" /\ p = FileOf[op.of]
         \/ status' = "FILE_BAD_WRITE" /\ p # FileOf[op.of]
  PROVE  Store!EndCreate
  <1>1. /\ op.tbl \in Tables /\ op.of \in Schemas /\ op # None
        /\ Creating /\ ~Creating' /\ Making = op /\ Making' = None
    BY NoneAssumption DEF TypeInv, CallTyped, Creating, Making
  <1>2. ClientHas' = ClientHas
    BY DEF ClientHas
  <1>3. Stored' = [Stored EXCEPT ![op.tbl] = SchemaIn(p)]
    <2>1. files'[op.tbl] = p /\ \A u \in Tables : u # op.tbl => files'[u] = files[u]
      BY <1>1 DEF TypeInv, FilesTyped
    <2>2. \A u \in Tables : Stored'[u] = SchemaIn(files'[u])
      BY <1>1 DEF Stored, SchemaIn
    <2>3. \A u \in Tables : u # op.tbl => Stored[u] = SchemaIn(files[u])
      BY StoredIs
    <2>4. \A u \in Tables :
            Stored'[u] = IF u = op.tbl THEN SchemaIn(p) ELSE Stored[u]
      <3> TAKE u \in Tables
      <3>1. CASE u = op.tbl
        BY <2>1, <2>2, <3>1
      <3>2. CASE u # op.tbl
        <4>1. Stored'[u] = SchemaIn(files[u]) /\ Stored[u] = SchemaIn(files[u])
          BY <2>1, <2>2, <2>3, <3>2
        <4> QED
          BY <3>2, <4>1
      <3> QED
        BY <3>1, <3>2
    <2> QED
      BY <1>1, <2>4 DEF Stored
  <1>4. SchemaIn(p) = IF p = FileOf[op.of] THEN op.of ELSE Damaged
    BY <1>1, SchemaInIs
  <1>5. \/ status' = "OK" /\ Stored' = [Stored EXCEPT ![Making.tbl] = Making.of]
        \/ status' = "FILE_BAD_WRITE" /\ Stored' = [Stored EXCEPT ![Making.tbl] = Damaged]
    BY <1>1, <1>3, <1>4
  <1> QED
    BY <1>1, <1>2, <1>5 DEF Store!EndCreate, ClientHas

LEMMA CreateStepsRefine ==
  ASSUME TypeInv, FaultsRule, CreateWrite \/ CreateClose
  PROVE  \/ pc' = "idle" /\ Store!EndCreate
         \/ pc' = "create" /\ UNCHANGED Store!avars
  <1>1. /\ pc = "create" /\ op.tbl \in Tables /\ op.of \in Schemas
        /\ File \in Prefixes(FileOf[op.of]) /\ UNCHANGED <<schema, stuck>>
    BY DEF CreateWrite, CreateClose, TypeInv, CallTyped, File
  <1>2. PICK S : FileOf[op.of] \in Seq(S)
    BY <1>1, FileIs
  <1>3. CASE CreateClose
    <2>1. UNCHANGED files /\ pc' = "idle" /\ status' = "OK"
      BY <1>3 DEF CreateClose, FaultsRule, Return
    <2>2. File = FileOf[op.of]
      BY <1>1, <1>3, FileIs, WholeFile DEF CreateClose
    <2>3. files' = [files EXCEPT ![op.tbl] = FileOf[op.of]]
      BY <1>1, <2>1, <2>2 DEF File, TypeInv, FilesTyped
    <2> QED
      BY <1>1, <2>1, <2>2, <2>3, CreateEnds
  <1>4. CASE CreateWrite /\ pc' = "idle"
    <2>1. PICK q \in Prefixes(File) : SetFile(q) /\ status' = "FILE_BAD_WRITE"
      BY <1>1, <1>4 DEF CreateWrite, Return
    <2>2. q \in Prefixes(FileOf[op.of]) /\ Len(q) <= Len(File)
      <3>1. File \in Seq(S)
        BY <1>1, <1>2, PrefixIs
      <3> QED
        BY <1>1, <1>2, <2>1, <3>1, MorePrefixes, PrefixIs
    <2>3. q # FileOf[op.of]
      <3>1. Len(File) < Len(FileOf[op.of])
        BY <1>4 DEF CreateWrite
      <3>2. Len(q) \in Nat /\ Len(File) \in Nat /\ Len(FileOf[op.of]) \in Nat
        BY <1>1, <2>2, FileParts, FileIs
      <3> QED
        BY <2>2, <3>1, <3>2
    <2> QED
      BY <1>1, <1>4, <2>1, <2>2, <2>3, CreateEnds DEF SetFile
  <1>5. CASE CreateWrite /\ pc' # "idle"
    <2>1. PICK q : SetFile(q) /\ UNCHANGED <<pc, op, status>>
      BY <1>5 DEF CreateWrite, Return
    <2>2. Creating /\ Creating' /\ Making' = Making
      BY <1>1, <2>1 DEF Creating, Making
    <2>3. Stored' = Stored
      BY <1>1, <2>1, <2>2 DEF Stored, SchemaIn, SetFile, TypeInv, FilesTyped
    <2>4. ClientHas' = ClientHas
      BY <1>1, <2>1 DEF ClientHas
    <2> QED
      BY <1>1, <2>1, <2>2, <2>3, <2>4 DEF Store!avars, ClientHas
  <1> QED
    BY <1>3, <1>4, <1>5

\* A load that ends without a schema.
LEMMA LoadFails ==
  ASSUME UNCHANGED files, pc # "create", pc' # "create", ClientHas = None, schema' = None,
         status' \in Store!Errors, NEW t \in Tables
  PROVE  Store!Next
  <1>1. Stored' = Stored /\ Making = None /\ Making' = None
    BY StoredStays
  <1>2. ClientHas' = None
    BY DEF ClientHas
  <1>3. Store!Load(t)
    BY <1>1, <1>2 DEF Store!Load, ClientHas
  <1> QED
    BY <1>3 DEF Store!Next

\* A step that neither files nor answers show, and that leaves the client what it has.
LEMMA Unseen ==
  ASSUME UNCHANGED <<files, status>>, pc # "create", pc' # "create", ClientHas' = ClientHas
  PROVE  UNCHANGED Store!avars
  <1>1. Stored' = Stored /\ Making = None /\ Making' = None
    BY StoredStays
  <1> QED
    BY <1>1 DEF Store!avars, ClientHas

LEMMA LoadOpenRefines ==
  ASSUME TypeInv, NEW t \in Tables, LoadOpen(t)
  PROVE  [Store!Next]_(Store!avars)
  <1>1. /\ pc = "idle" /\ schema' = None /\ UNCHANGED files
        /\ schema # None => schema.items = NULL \/ stuck # "no"
        /\ \/ pc' = "idle" /\ status' \in {"FILE_NOT_OPENED", "FILE_BAD_SEEK"}
           \/ pc' = "load" /\ status' = status
    BY DEF LoadOpen, Return
  <1>2. ClientHas = None /\ ClientHas' = None
    BY <1>1 DEF ClientHas
  <1>3. CASE pc' = "idle"
    BY <1>1, <1>2, <1>3, LoadFails DEF Store!Errors
  <1>4. CASE pc' = "load"
    BY <1>1, <1>2, <1>4, Unseen
  <1> QED
    BY <1>1, <1>3, <1>4

LEMMA LoadStepsRefine ==
  ASSUME TypeInv, LoadHead \/ LoadItem
  PROVE  [Store!Next]_(Store!avars)
  <1>1. /\ pc = "load" /\ op.tbl \in Tables /\ UNCHANGED files
        /\ \/ schema' = None /\ pc' = "idle" /\ status' \in {"FILE_BAD_READ", "OUT_OF_MEMORY"}
           \/ pc' = "load" /\ status' = status
    <2>1. pc = "load" /\ op.tbl \in Tables /\ UNCHANGED files
      BY LoadHeadDoes, LoadItemDoes DEF TypeInv, CallTyped
    <2>2. \/ schema' = None /\ pc' = "idle" /\ status' \in {"FILE_BAD_READ", "OUT_OF_MEMORY"}
          \/ pc' = "load" /\ status' = status
      <3>1. CASE LoadHead
        BY <2>1, <3>1 DEF LoadHead, BadRead, OutOfMemory, Return
      <3>2. CASE LoadItem
        BY <2>1, <3>2 DEF LoadItem, BadRead, OutOfMemory, Return
      <3> QED
        BY <3>1, <3>2
    <2> QED
      BY <2>1, <2>2
  <1>2. ClientHas = None
    BY <1>1 DEF ClientHas
  <1>3. CASE pc' = "idle"
    BY <1>1, <1>2, <1>3, LoadFails DEF Store!Errors
  <1>4. CASE pc' = "load"
    <2>1. ClientHas' = None
      BY <1>4 DEF ClientHas
    <2> QED
      BY <1>1, <1>2, <1>4, <2>1, Unseen
  <1> QED
    BY <1>1, <1>3, <1>4

\* A load that answers OK has the schema that is stored, whole.
LEMMA LoadsWhole ==
  ASSUME TypeInv, FileInv, LoadClose
  PROVE  Stored[op.tbl] \in Schemas /\ [id |-> schema.id, items |-> schema.read] = Stored[op.tbl]
  <1> DEFINE n == Len(schema.names)
  <1>1. /\ pc = "load" /\ pc' = "idle" /\ status' = "OK" /\ schema # None
        /\ UNCHANGED <<files, schema, stuck>> /\ op.tbl \in Tables /\ File # None
        /\ ~(n < schema.num)
    BY DEF LoadClose, Return, MoreItems, TypeInv, CallTyped, File
  <1>2. /\ schema \in Loaded /\ schema.num \in Nat /\ n \in Nat /\ n = schema.num
        /\ Len(schema.read) = n /\ schema.read \in Seq(ReadItems)
    <2>1. schema \in Loaded /\ Len(schema.read) = n /\ n <= schema.num
      BY <1>1 DEF TypeInv, LoadedTyped
    <2>2. schema.num \in Nat /\ n \in Nat /\ schema.read \in Seq(ReadItems)
      BY <2>1, LoadedIs, OwnIs
    <2> QED
      BY <1>1, <2>1, <2>2
  <1>3. PICK s \in Schemas : Begins(File, s)
    BY <1>1 DEF FileInv, FilesBegin, File
  <1>4. /\ 2 + 4 * n <= Len(File) /\ schema.id = File[1][1] /\ schema.num = File[2][1]
        /\ \A i \in 1 .. n : schema.read[i] = Item(File, i)
    BY <1>1 DEF FileInv, Reads
  <1>5. Len(File) \in Nat /\ File \in Prefixes(FileOf[s])
    BY <1>3, FileParts DEF Begins
  <1>6. schema.id = s.id /\ n = Len(s.items) /\ s.items \in Seq(Attributes)
    <2>1. Len(File) >= 2
      BY <1>2, <1>4, <1>5
    <2>2. File[1][1] = s.id /\ File[2][1] = Len(s.items)
      BY <1>5, <2>1, HeadTyped
    <2> QED
      BY <1>2, <1>4, <2>2, FileIs
  <1>7. File = FileOf[s]
    <2>1. Len(File) >= 2 + 4 * Len(s.items)
      BY <1>2, <1>4, <1>5, <1>6
    <2> QED
      BY <1>5, <2>1, WholeFile
  <1>8. schema.read = s.items
    <2>1. \A i \in 1 .. n : schema.read[i] = s.items[i]
      <3> TAKE i \in 1 .. n
      <3>1. i \in 1 .. Len(s.items)
        BY <1>6
      <3>2. Item(FileOf[s], i) = s.items[i]
        BY <1>3, <1>7, <3>1, ReadBack
      <3> QED
        BY <1>4, <1>7, <3>2
    <2> HIDE DEF n
    <2> QED
      BY <1>2, <1>6, <2>1, SeqEqual
  <1>9. [id |-> schema.id, items |-> schema.read] = s
    BY <1>6, <1>8, FileIs
  <1>10. Stored[op.tbl] = s
    <2>1. Stored[op.tbl] = SchemaIn(File)
      BY <1>1, StoredIs DEF Creating, File
    <2> QED
      BY <1>5, <1>7, <2>1, SchemaInIs
  <1> QED
    BY <1>9, <1>10

LEMMA LoadCloseRefines ==
  ASSUME TypeInv, MemInv, FileInv, LoadClose
  PROVE  \E t \in Tables : Store!Load(t)
  <1>1. /\ pc = "load" /\ pc' = "idle" /\ status' = "OK" /\ schema # None
        /\ UNCHANGED <<files, schema, stuck>> /\ op.tbl \in Tables
    BY DEF LoadClose, Return, TypeInv, CallTyped
  <1>2. ClientHas' = Stored[op.tbl]
    <2>1. stuck = "no" /\ schema.items # NULL /\ \A i \in DOMAIN schema.names : schema.names[i] # NULL
      BY <1>1 DEF MemInv, OwnBlocks, Freeing, NoneFreed, Live
    <2> QED
      BY <1>1, <2>1, LoadsWhole DEF ClientHas
  <1>3. Stored' = Stored /\ Making = None /\ Making' = None
    BY <1>1, StoredStays
  <1>4. PICK t \in Tables : t = op.tbl
    BY <1>1
  <1>5. Store!Load(t)
    BY <1>1, <1>2, <1>3, <1>4, LoadsWhole DEF Store!Load, ClientHas
  <1> QED
    BY <1>5

\* The client has what it had, or nothing any more.
LEMMA Releases ==
  ASSUME UNCHANGED files, pc \in {"idle", "free"}, pc' \in {"idle", "free"},
         status' \in {status, "OK", "FAILED_TO_FREE_MEMORY"},
         ClientHas' \in {ClientHas, None}
  PROVE  Store!Next
  <1>1. Stored' = Stored /\ Making = None /\ Making' = None
    BY StoredStays
  <1>2. Store!Release
    BY <1>1 DEF Store!Release, ClientHas
  <1> QED
    BY <1>2 DEF Store!Next

LEMMA FreesRefine ==
  ASSUME TypeInv, FreeNames \/ FreeName \/ FreeItems
  PROVE  [Store!Next]_(Store!avars)
  <1>1. CASE FreeNames
    <2>1. /\ UNCHANGED <<files, status, schema, stuck>> /\ pc = "idle" /\ pc' = "free"
      BY <1>1 DEF FreeNames, disk
    <2>2. ClientHas' = ClientHas
      BY <2>1 DEF ClientHas
    <2> QED
      BY <2>1, <2>2, Unseen
  <1>2. ASSUME NEW p, FreeFailed(p), UNCHANGED files, pc \in {"idle", "free"}
        PROVE  Store!Next
    <2>1. /\ pc' = "idle" /\ status' = "FAILED_TO_FREE_MEMORY" /\ schema' = schema
          /\ stuck' \in {stuck, "failed"}
      BY <1>2 DEF FreeFailed, Return
    <2>2. ClientHas' \in {ClientHas, None}
      BY <1>2, <2>1 DEF ClientHas
    <2> QED
      BY <1>2, <2>1, <2>2, Releases
  <1>3. CASE FreeName
    <2>1. /\ pc = "free" /\ UNCHANGED files /\ schema # None /\ schema \in Loaded
          /\ op.i \in Nat
      BY <1>3, FreeNameIs DEF FreeName, disk
    <2>2. CASE op.i = 0
      <3>1. pc' = "idle" /\ status' = "OK" /\ UNCHANGED <<schema, stuck>>
        BY <1>3, <2>2 DEF FreeName, Return
      <3>2. ClientHas' = ClientHas
        BY <2>1, <3>1 DEF ClientHas
      <3> QED
        BY <2>1, <3>1, <3>2, Releases
    <2>3. CASE op.i > 0 /\ ret' = 1
      <3>1. /\ schema' \in Loaded /\ op.i \in 1 .. Len(schema.names)
            /\ Len(schema'.names) = Len(schema.names)
            /\ schema'.names[op.i] = NULL /\ UNCHANGED <<pc, status>>
        <4>1. op.i \in 1 .. Len(schema.names)
          BY <1>3, <2>3, FreeNameIs
        <4> QED
          BY <1>3, <2>3, <4>1, NameCleared
      <3>2. op.i \in DOMAIN schema'.names
        BY <3>1, OwnIs
      <3>3. ClientHas' = None
        BY <3>1, <3>2 DEF ClientHas
      <3> QED
        BY <2>1, <3>1, <3>3, Releases
    <2>4. CASE op.i > 0 /\ ret' # 1
      <3>1. \E p : FreeFailed(p)
        BY <1>3, <2>1, <2>4 DEF FreeName, Refused
      <3> QED
        BY <1>2, <2>1, <3>1
    <2> QED
      BY <2>1, <2>2, <2>3, <2>4
  <1>4. CASE FreeItems
    <2>1. /\ pc = "idle" /\ UNCHANGED files /\ schema # None /\ schema \in Loaded
      BY <1>4 DEF FreeItems, disk, TypeInv, LoadedTyped
    <2>2. CASE ret' = 1
      <3>1. /\ pc' = "idle" /\ status' = "OK" /\ schema' = [schema EXCEPT !.items = NULL]
        BY <1>4, <2>2 DEF FreeItems, Refused, Cleared, Return
      <3>2. schema'.items = NULL
        <4>1. NULL \in Pointers
          BY DEF Pointers
        <4> QED
          BY <2>1, <3>1, <4>1, ItemsSet
      <3>3. ClientHas' = None
        BY <3>2 DEF ClientHas
      <3> QED
        BY <2>1, <3>1, <3>3, Releases
    <2>3. CASE ret' # 1
      <3>1. \E p : FreeFailed(p)
        BY <1>4, <2>3 DEF FreeItems, Refused
      <3> QED
        BY <1>2, <2>1, <3>1
    <2> QED
      BY <2>2, <2>3
  <1> QED
    BY <1>1, <1>3, <1>4

LEMMA DeleteRefines ==
  ASSUME TypeInv, NEW t \in Tables, Delete(t)
  PROVE  Store!Delete(t)
  <1>1. /\ pc = "idle" /\ pc' = "idle" /\ UNCHANGED <<schema, stuck>>
        /\ \/ files[t] # None /\ files' = [files EXCEPT ![t] = None] /\ status' = "OK"
           \/ UNCHANGED files /\ status' = "FILE_NOT_REMOVED"
    BY DEF Delete, Return
  <1>2. ClientHas' = ClientHas /\ ~Creating /\ ~Creating' /\ Making = None /\ Making' = None
    BY <1>1 DEF ClientHas, Creating, Making
  <1>3. CASE UNCHANGED files /\ status' = "FILE_NOT_REMOVED"
    <2>1. Stored' = Stored
      BY <1>1, <1>3, StoredStays
    <2> QED
      BY <1>2, <1>3, <2>1 DEF Store!Delete, ClientHas
  <1>4. CASE files[t] # None /\ files' = [files EXCEPT ![t] = None] /\ status' = "OK"
    <2>1. Stored[t] # None
      BY <1>2, <1>4, StoredIs
    <2>2. Stored' = [Stored EXCEPT ![t] = None]
      <3>1. files'[t] = None /\ \A u \in Tables : u # t => files'[u] = files[u]
        BY <1>4 DEF TypeInv, FilesTyped
      <3>2. \A u \in Tables : Stored'[u] = IF u = t THEN None ELSE Stored[u]
        BY <1>2, <3>1 DEF Stored, SchemaIn
      <3> QED
        BY <3>2 DEF Stored
    <2> QED
      BY <1>2, <1>4, <2>1, <2>2 DEF Store!Delete, ClientHas
  <1> QED
    BY <1>1, <1>3, <1>4

LEMMA OtherRefines ==
  ASSUME \/ \E n \in OtherSizes : OtherAlloc(n)
         \/ \E b \in others : OtherFree(b)
  PROVE  UNCHANGED Store!avars
  <1>1. /\ pc = "idle" /\ UNCHANGED <<files, schema, pc, status>>
        /\ stuck' = stuck \/ (stuck # "no" /\ stuck' = "stale")
    BY DEF OtherAlloc, OtherFree, disk
  <1>2. ClientHas' = ClientHas
    BY <1>1 DEF ClientHas
  <1> QED
    BY <1>1, <1>2, Unseen

\* Of a schema being made a power failure leaves nothing, a part, or all.
LEMMA PowerRefines ==
  ASSUME TypeInv, PowerFailure
  PROVE  Store!PowerFailure
  <1>1. /\ pc' = "idle" /\ schema' = None /\ status' = "none"
        /\ ~Creating' /\ Making' = None /\ ClientHas' = None
    BY DEF PowerFailure, Return, Creating, Making, ClientHas
  <1>2. CASE pc # "create"
    <2>1. Stored' = Stored /\ Making = None
      BY <1>1, <1>2, StoredStays DEF PowerFailure
    <2> QED
      BY <1>1, <2>1 DEF Store!PowerFailure, ClientHas
  <1>3. CASE pc = "create"
    <2>1. /\ op.tbl \in Tables /\ op.of \in Schemas /\ op # None
          /\ File \in Prefixes(FileOf[op.of]) /\ Creating /\ Making = op
      BY <1>3, NoneAssumption DEF TypeInv, CallTyped, File, Creating, Making
    <2>2. PICK q \in Prefixes(File) \cup {None} : files' = [files EXCEPT ![op.tbl] = q]
      BY <1>3 DEF PowerFailure, SetFile
    <2>3. SchemaIn(q) \in {None, Damaged, op.of}
      <3>1. PICK S : FileOf[op.of] \in Seq(S)
        BY <2>1, FileIs
      <3>2. Prefixes(File) \subseteq Prefixes(FileOf[op.of])
        BY <2>1, <3>1, MorePrefixes
      <3> QED
        BY <2>1, <2>2, <3>2, SchemaInIs
    <2>4. Stored' = [Stored EXCEPT ![op.tbl] = SchemaIn(q)]
      <3>1. files'[op.tbl] = q /\ \A u \in Tables : u # op.tbl => files'[u] = files[u]
        BY <2>1, <2>2 DEF TypeInv, FilesTyped
      <3>2. \A u \in Tables :
              Stored'[u] = IF u = op.tbl THEN SchemaIn(q) ELSE Stored[u]
        BY <1>1, <2>1, <3>1 DEF Stored, SchemaIn
      <3> QED
        BY <2>1, <3>2 DEF Stored
    <2>5. \E left \in {None, Damaged, Making.of} :
            Stored' = [Stored EXCEPT ![Making.tbl] = left]
      BY <2>1, <2>3, <2>4
    <2> QED
      BY <1>1, <2>1, <2>5 DEF Store!PowerFailure, ClientHas
  <1> QED
    BY <1>2, <1>3

\* The functions implement a store of whole schemas: a load that answers OK gives the
\* schema that was created, never part of one, whatever write or read failed and wherever
\* the power did; creating never replaces a schema.
THEOREM StoreOfWholeSchemas == FaultsRule => (Spec => ImplementsStore)
  <1> SUFFICES ASSUME FaultsRule PROVE Spec => ImplementsStore
    OBVIOUS
  <1>1. Init => Store!Init
    <2> SUFFICES ASSUME Init PROVE Store!Init
      OBVIOUS
    <2>1. Stored = [t \in Tables |-> None]
      BY SchemaInIs DEF Init, Stored, Creating
    <2>2. Making = None /\ ClientHas = None
      BY DEF Init, Making, Creating, ClientHas
    <2> QED
      BY <2>1, <2>2 DEF Init, Store!Init, ClientHas
  <1>2. ASSUME AllInv, [Next]_vars
        PROVE  [Store!Next]_(Store!avars)
    <2> USE <1>2 DEF AllInv
    <2>1. CASE UNCHANGED vars
      <3>1. Stored' = Stored /\ Making' = Making /\ ClientHas' = ClientHas
        BY <2>1 DEF vars, Stored, Making, Creating, SchemaIn, ClientHas
      <3> QED
        BY <2>1, <3>1 DEF vars, Store!avars, ClientHas
    <2>2. CASE \E t \in Tables, s \in Schemas : NamesRule(t, s) /\ CreateOpen(t, s)
      BY <2>2, CreateOpenRefines DEF Store!Next
    <2>3. CASE CreateWrite \/ CreateClose
      BY <2>3, CreateStepsRefine DEF Store!Next
    <2>4. CASE \E t \in Tables : LoadOpen(t)
      BY <2>4, LoadOpenRefines
    <2>5. CASE LoadHead \/ LoadItem
      BY <2>5, LoadStepsRefine
    <2>6. CASE LoadClose
      BY <2>6, LoadCloseRefines DEF Store!Next
    <2>7. CASE FreeNames \/ FreeName \/ FreeItems
      BY <2>7, FreesRefine
    <2>8. CASE \E t \in Tables : Delete(t)
      BY <2>8, DeleteRefines DEF Store!Next
    <2>9. CASE \/ \E n \in OtherSizes : OtherAlloc(n)
               \/ \E b \in others : OtherFree(b)
      BY <2>9, OtherRefines
    <2>10. CASE PowerFailure
      BY <2>10, PowerRefines DEF Store!Next
    <2> QED
      BY <2>1, <2>2, <2>3, <2>4, <2>5, <2>6, <2>7, <2>8, <2>9, <2>10, Actions
  <1> QED
    BY <1>1, <1>2, InitAll, NextAll, PTL DEF Spec, ImplementsStore, Store!Spec
==============================================================================
