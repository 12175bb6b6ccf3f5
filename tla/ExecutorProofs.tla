--------------------------- MODULE ExecutorProofs ----------------------------
(***************************************************************************)
(* The theorems about Executor.                                            *)
(***************************************************************************)
EXTENDS Executor, TLAPS

Back == INSTANCE BackStack
  WITH flive <- {}, PtrSize <- IntSize, Requests <- OtherSizes
------------------------------------------------------------------------------
(***************************************************************************)
(* The inductive invariants.  TypeInv is inductive as it stands and holds  *)
(* for all plans; PlanInv, about what the instructions before the current  *)
(* one have defined, needs PlansRule; MemoryInv needs both; ListInv needs  *)
(* MemoryInv, to know that nothing is written over the list; DictInv needs *)
(* ListInv, to know what the items are.                                    *)
(***************************************************************************)
Creating == pc \in {"close", "schema", "store", "free"}

\* The conjuncts about the plan and the instruction that is running.
PlanTyped ==
  /\ plan \in Executable /\ plan.idx <= Len(plan.code)
  /\ pc \in {"idle", "run", "close", "schema", "store", "free"}
  /\ pc # "idle" => ~Ended
  /\ Creating => Cur.op = "CREATE_TABLE"

StoreTyped ==
  /\ store \in [Tables -> TableSchema \cup {None, Damaged}]
  /\ making \in [tbl : Tables, of : TableSchema] \cup {None}
  /\ pc = "store" <=> making # None
  /\ making # None => making.tbl = Cur.arg /\ store[Cur.arg] = None

DictsTyped ==
  dicts \in Seq({dicts[i] : i \in 1 .. Len(dicts)}) /\ Len(dicts) <= MaxDicts

MemoryTyped ==
  /\ cells \in [Addr -> Item \cup {Junk}] /\ defs \in Seq(Item)
  /\ clean \in BOOLEAN /\ kept \in BOOLEAN
  /\ Back!BackOK

TypeInv == PlanTyped /\ StoreTyped /\ DictsTyped /\ MemoryTyped

\* Since the last CREATE_TABLE, or since the start, nothing has been defined.
Spent ==
  \E i \in 0 .. plan.idx :
    /\ i > 0 => plan.code[i].op = "CREATE_TABLE"
    /\ \A j \in i + 1 .. plan.idx : plan.code[j].op # "DEFINE_ATTRIBUTE"

\* A list that has been used is not used again.
PlanInv ==
  /\ defs = <<>> => Spent \/ (~Ended /\ Cur.op = "CREATE_TABLE")
  /\ pc \in {"run", "close", "schema"} /\ Cur.op = "CREATE_TABLE" /\ defs = <<>> =>
       store[Cur.arg] # None
  /\ pc = "store" => defs # <<>>
  /\ pc = "free" => defs = <<>>
  /\ plan.prev = "DEFINE_ATTRIBUTE" /\ defs = <<>> => ~Ended /\ Cur.op = "CREATE_TABLE"

\* The block at plan->pointer.
InList(b) == b.ptr <= plan.pointer /\ plan.pointer < b.ptr + b.size
\* There is a list: it has not been given back to the memory manager.
Listing == defs # <<>> \/ pc = "free"

ListBlock ==
  [ptr |-> plan.pointer - (plan.count - 1) * ItemSize, size |-> plan.count * ItemSize]

\* The list is in a block of the executor's own.  As long as it may be extended that
\* is the topmost block, which bextend extends.  When nothing was given up it is the
\* only one.
MemoryInv ==
  /\ others \subseteq blive
  /\ Listing => \E b \in blive \ others : InList(b)
  /\ plan.prev = "DEFINE_ATTRIBUTE" =>
       plan.count >= 1 /\ ListBlock \notin others /\ Back!Topmost(ListBlock)
  /\ clean /\ kept => \A b \in blive \ others : Listing /\ InList(b)

\* The attributes in the cells of the list are those defined, a single one also when
\* other clients have used the memory manager since.
ListInv ==
  /\ plan.prev = "DEFINE_ATTRIBUTE" /\ defs # <<>> =>
       /\ plan.count <= Len(defs)
       /\ \A k \in 1 .. plan.count :
            cells[plan.pointer - (k - 1) * ItemSize] = defs[Len(defs) - plan.count + k]
  /\ Len(defs) = 1 =>
       plan.count = 1 /\ plan.pointer \in Addr /\ cells[plan.pointer] = defs[1]

\* CREATE_TABLE has made a dictionary and not yet its schema.
Pending == pc \in {"close", "schema", "store"}
DictInv ==
  /\ \A t \in Stored : store[t].id \in 1 .. Len(dicts)
  /\ \A t, u \in Stored : store[t].id = store[u].id => t = u
  /\ \A t \in Stored : dicts[store[t].id] = ValueSize(store[t].items)
  /\ clean => \A i \in 1 .. Len(dicts) :
       (Pending /\ i = Len(dicts)) \/ \E t \in Stored : store[t].id = i
  /\ Pending => Len(dicts) > 0 /\ \A t \in Stored : store[t].id # Len(dicts)
  /\ pc \in {"close", "schema"} => dicts[Len(dicts)] = ValueSize(Items)
  /\ pc = "store" => /\ dicts[Len(dicts)] = ValueSize(making.of.items)
                     /\ making.of.id = Len(dicts)
                     /\ Len(defs) = 1 => making.of.items = defs
------------------------------------------------------------------------------
(***************************************************************************)
(* Instructions and types.                                                 *)
(***************************************************************************)
LEMMA Remainders ==
  ASSUME NEW b \in Nat \ {0}
  PROVE  /\ \A a \in Nat : a % b \in 0 .. b - 1 /\ (a < b => a % b = a)
         /\ b % b = 0
  OBVIOUS

\* While the plan has not ended there is an instruction, and unless it stops the
\* plan there is one after it.
LEMMA Instruction ==
  ASSUME TypeInv, ~Ended
  PROVE  /\ plan.idx + 1 \in 1 .. Len(plan.code) /\ plan.idx + 1 <= Byte
         /\ IsInstruction(Cur)
         /\ Cur.op \notin {"HALT", "UNDEFINED"} =>
              plan.idx + 1 < Len(plan.code) /\ (plan.idx + 1) % Byte = plan.idx + 1
         /\ plan.idx + 1 < Byte => (plan.idx + 1) % Byte = plan.idx + 1
         /\ plan.idx + 1 = Byte => (plan.idx + 1) % Byte = 0
  <1>1. /\ plan.code \in Plans /\ plan.idx \in 0 .. Byte - 1
        /\ plan.idx <= Len(plan.code) /\ plan.idx # Len(plan.code)
    BY DEF TypeInv, PlanTyped, Executable, Ended
  <1>2. /\ Len(plan.code) \in 1 .. Byte /\ Byte \in Nat \ {0, 1}
        /\ plan.code[Len(plan.code)].op \in {"HALT", "UNDEFINED"}
        /\ \A k \in 1 .. Len(plan.code) : IsInstruction(plan.code[k])
    BY <1>1, ExecutorAssumption
  <1>3. plan.idx + 1 \in 1 .. Len(plan.code) /\ plan.idx + 1 <= Byte
    BY <1>1, <1>2
  <1>4. plan.idx + 1 < Byte => (plan.idx + 1) % Byte = plan.idx + 1
    <2>1. plan.idx + 1 \in Nat /\ Byte \in Nat \ {0}
      BY <1>1, <1>2
    <2> QED
      BY <2>1, Remainders
  <1>5. plan.idx + 1 = Byte => (plan.idx + 1) % Byte = 0
    BY <1>2, Remainders
  <1>6. Cur.op \notin {"HALT", "UNDEFINED"} => plan.idx + 1 < Len(plan.code)
    BY <1>2, <1>3 DEF Cur
  <1> QED
    BY <1>2, <1>3, <1>4, <1>5, <1>6 DEF Cur

\* The index stays in the plan when an instruction has been executed.
LEMMA NextTyped ==
  ASSUME TypeInv, ~Ended, NEW p \in Executable, p.idx = plan.idx, p.code = plan.code,
         Cur.op \in Opcodes, plan' = NextInstruction(p)
  PROVE  /\ plan' \in Executable /\ plan'.idx <= Len(plan'.code)
         /\ plan'.code = plan.code /\ plan'.prev = Cur.op
         /\ plan'.count = p.count /\ plan'.pointer = p.pointer
         /\ Cur.op # "HALT" => plan'.idx = plan.idx + 1 /\ plan'.idx # Len(plan'.code)
         /\ plan'.idx \in {0, plan.idx + 1}
  <1>1. plan' = [p EXCEPT !.prev = Cur.op, !.idx = (plan.idx + 1) % Byte]
    BY DEF NextInstruction
  <1>2. plan.idx \in 0 .. Byte - 1 /\ Len(plan.code) \in 1 .. Byte /\ Byte \in Nat
    BY ExecutorAssumption DEF TypeInv, PlanTyped, Executable
  <1>3. /\ (plan.idx + 1) % Byte \in {0, plan.idx + 1}
        /\ (plan.idx + 1) % Byte \in 0 .. Byte - 1
        /\ (plan.idx + 1) % Byte <= Len(plan.code)
    BY <1>2, Instruction
  <1>4. Cur.op # "HALT" =>
          (plan.idx + 1) % Byte = plan.idx + 1 /\ plan.idx + 1 # Len(plan.code)
    BY <1>2, Instruction DEF Opcodes
  <1> QED
    BY <1>1, <1>3, <1>4 DEF Executable

\* What is read of a list has the type of a list.
LEMMA ItemsTyped ==
  ASSUME TypeInv
  PROVE  Items \in Seq(Item \cup {Junk})
  <1>1. plan.count % Byte \in Nat
    <2>1. plan.count \in Nat
      BY DEF TypeInv, PlanTyped, Executable
    <2>2. Byte \in Nat \ {0}
      BY ExecutorAssumption
    <2> QED
      BY <2>1, <2>2
  <1>2. \A a : ItemAt(a) \in Item \cup {Junk}
    BY DEF TypeInv, MemoryTyped, ItemAt
  <1> QED
    BY <1>1, <1>2 DEF Items

LEMMA ItemOfTyped ==
  ASSUME NEW arg \in [name : STRING, type : Nat, size : Nat]
  PROVE  ItemOf(arg) \in Item
  <1>1. arg.type % Byte \in 0 .. Byte - 1 /\ arg.size % Byte \in 0 .. Byte - 1
    BY ExecutorAssumption, Remainders
  <1> QED
    BY <1>1 DEF Item, ItemOf

LEMMA OverwrittenTyped ==
  ASSUME TypeInv, NEW p, NEW n
  PROVE  Overwritten(p, n) \in [Addr -> Item \cup {Junk}]
  BY DEF TypeInv, MemoryTyped, Overwritten

\* Appending to a sequence adds one element at its end.
LEMMA Appended ==
  ASSUME NEW S, NEW s \in Seq(S), NEW T, S \subseteq T, NEW e \in T
  PROVE  /\ Append(s, e) \in Seq(T) /\ Len(Append(s, e)) = Len(s) + 1
         /\ \A i \in 1 .. Len(s) : Append(s, e)[i] = s[i]
         /\ Append(s, e)[Len(s) + 1] = e
  OBVIOUS

\* A sequence is one of its elements.
LEMMA SeqOfElements ==
  ASSUME NEW S, NEW s \in Seq(S)
  PROVE  s \in Seq({s[i] : i \in 1 .. Len(s)})
  <1> DEFINE T == {s[i] : i \in 1 .. Len(s)}
  <1>1. Len(s) \in Nat /\ s = [i \in 1 .. Len(s) |-> s[i]]
    OBVIOUS
  <1>2. \A i \in 1 .. Len(s) : s[i] \in T
    OBVIOUS
  <1>3. [i \in 1 .. Len(s) |-> s[i]] \in Seq(T)
    <2> HIDE DEF T
    <2> QED
      BY <1>1, <1>2
  <1> QED
    BY <1>1, <1>3

LEMMA OneDictMore ==
  ASSUME TypeInv, NEW v, dicts' = Append(dicts, v)
  PROVE  /\ dicts' \in Seq({dicts'[i] : i \in 1 .. Len(dicts')})
         /\ Len(dicts') = Len(dicts) + 1 /\ Len(dicts) \in Nat
         /\ \A i \in 1 .. Len(dicts) : dicts'[i] = dicts[i]
         /\ dicts'[Len(dicts')] = v
  <1> DEFINE S == {dicts[i] : i \in 1 .. Len(dicts)}
  <1>1. dicts \in Seq(S)
    BY DEF TypeInv, DictsTyped
  <1>2. /\ dicts' \in Seq(S \cup {v}) /\ Len(dicts') = Len(dicts) + 1
        /\ \A i \in 1 .. Len(dicts) : dicts'[i] = dicts[i]
        /\ dicts'[Len(dicts) + 1] = v
    <2> HIDE DEF S
    <2> QED
      BY <1>1, Appended
  <1>3. Len(dicts) \in Nat
    BY <1>1
  <1>4. dicts' \in Seq({dicts'[i] : i \in 1 .. Len(dicts')})
    BY <1>2, SeqOfElements
  <1> QED
    BY <1>2, <1>3, <1>4

\* The calls of the memory manager are those of TwoStacks that BackStack is about.
LEMMA Calls ==
  /\ Back!Sizes
  /\ \A n : Memory!BAlloc(n) => Back!BAlloc(n)
  /\ \A n : Memory!BExtend(n) => Back!BExtend(n)
  /\ \A b : Memory!BFree(b) => Back!BFree(b)
  /\ \A p : Memory!BFreeNotHeld(p) => Back!BFreeNotHeld(p)
  /\ NULL = -1 /\ Back!NULL = -1
  <1>1. Back!Sizes
    BY ExecutorAssumption DEF Back!Sizes
  <1>2. /\ Memory!BTop = Back!BTop /\ Memory!FTop = Back!FTop
        /\ \A b : Memory!BStart(b) = Back!BStart(b)
        /\ NULL = -1 /\ Back!NULL = -1 /\ Memory!NULL = -1
    BY DEF Memory!BTop, Back!BTop, Memory!FTop, Back!FTop, Memory!BStart, Back!BStart,
           Memory!FEnd, Back!FEnd, NULL, Memory!NULL, Back!NULL
  <1> QED
    BY <1>1, <1>2 DEF Memory!BAlloc, Back!BAlloc, Memory!BExtend, Back!BExtend,
       Memory!BFree, Back!BFree, Memory!BFreeNotHeld, Back!BFreeNotHeld

\* What the calls of the memory manager do.
LEMMA ListCallDoes ==
  ASSUME TypeInv, ListCall
  PROVE  /\ Back!BackOK'
         /\ \/ ret' = NULL /\ blive' = blive
            \/ /\ plan.prev # "DEFINE_ATTRIBUTE"
               /\ LET b == [ptr |-> ret', size |-> ItemSize] IN
                  /\ ret' \in IntSize .. SegSize - ItemSize /\ b \notin blive
                  /\ blive' = blive \cup {b}
                  /\ \A c \in blive : b.ptr + b.size + IntSize <= c.ptr
            \/ /\ plan.prev = "DEFINE_ATTRIBUTE"
               /\ \E b \in blive :
                    /\ Back!Topmost(b) /\ ret' = b.ptr - ItemSize /\ ret' >= IntSize
                    /\ blive' = (blive \ {b}) \cup
                                 {[ptr |-> ret', size |-> b.size + ItemSize]}
  <1>1. ItemSize \in Nat /\ Back!BackOK
    BY ExecutorAssumption DEF TypeInv, MemoryTyped
  <1>2. CASE plan.prev = "DEFINE_ATTRIBUTE"
    BY <1>1, <1>2, Calls, Back!ExtendStep DEF ListCall
  <1>3. CASE plan.prev # "DEFINE_ATTRIBUTE"
    BY <1>1, <1>3, Calls, Back!AllocStep DEF ListCall
  <1> QED
    BY <1>2, <1>3

LEMMA BfreeDoes ==
  ASSUME TypeInv, NEW p, Bfree(p)
  PROVE  /\ Back!BackOK'
         /\ \/ blive' = blive /\ ret' # 1
               /\ \A b \in blive : b.ptr = p => p = SegSize
            \/ \E b \in blive : b.ptr = p /\ blive' = blive \ {b}
                               /\ (ret' = 1 <=> Back!Topmost(b))
  <1>1. Back!BackOK
    BY DEF TypeInv, MemoryTyped
  <1>2. ASSUME NEW b \in blive, b.ptr = p, Memory!BFree(b)
        PROVE  /\ Back!BackOK'
               /\ \/ blive' = blive \ {b} /\ (ret' = 1 <=> Back!Topmost(b))
                  \/ blive' = blive /\ ret' # 1 /\ p = SegSize
    BY <1>1, <1>2, Calls, Back!FreeStep
  <1>3. ASSUME Memory!BFreeNotHeld(p)
        PROVE  Back!BackOK' /\ blive' = blive /\ ret' # 1 /\ \A b \in blive : b.ptr # p
    BY <1>1, <1>3, Calls, Back!FreeNotHeldStep
  <1> QED
    BY <1>2, <1>3 DEF Bfree

LEMMA OtherAllocDoes ==
  ASSUME TypeInv, NEW n \in OtherSizes, OtherAlloc(n)
  PROVE  /\ Back!BackOK'
         /\ LET b == [ptr |-> ret', size |-> n] IN
            /\ ret' \in IntSize .. SegSize - n /\ b \notin blive
            /\ blive' = blive \cup {b} /\ others' = others \cup {b}
            /\ \A c \in blive : b.ptr + b.size + IntSize <= c.ptr
  <1>1. n \in Nat /\ Back!BackOK
    BY ExecutorAssumption DEF TypeInv, MemoryTyped
  <1>2. Back!BAlloc(n) /\ ret' # NULL /\ others' = others \cup (blive' \ blive)
    BY Calls DEF OtherAlloc
  <1>3. /\ Back!BackOK'
        /\ LET b == [ptr |-> ret', size |-> n] IN
           /\ ret' \in IntSize .. SegSize - n /\ b \notin blive
           /\ blive' = blive \cup {b}
           /\ \A c \in blive : b.ptr + b.size + IntSize <= c.ptr
    BY <1>1, <1>2, Calls, Back!AllocStep
  <1>4. others' = others \cup {[ptr |-> ret', size |-> n]}
    BY <1>2, <1>3
  <1> QED
    BY <1>3, <1>4

LEMMA OtherFreeDoes ==
  ASSUME TypeInv, others \subseteq blive, NEW b \in others, OtherFree(b)
  PROVE  /\ Back!BackOK'
         /\ \/ blive' = blive \ {b} /\ others' = others \ {b}
            \/ blive' = blive /\ others' = others
  <1>1. b \in blive /\ Back!BackOK
    BY DEF TypeInv, MemoryTyped
  <1>2. Back!BFree(b) /\ others' = others \ (blive \ blive')
    BY Calls DEF OtherFree
  <1>3. Back!BackOK' /\ (blive' = blive \ {b} \/ blive' = blive)
    BY <1>1, <1>2, Calls, Back!FreeStep
  <1> QED
    BY <1>1, <1>2, <1>3
------------------------------------------------------------------------------
(***************************************************************************)
(* Types.                                                                  *)
(***************************************************************************)
LEMMA InitType == Init => TypeInv
  <1> SUFFICES ASSUME Init PROVE TypeInv
    OBVIOUS
  <1>1. PICK p \in Plans : plan = ion_table_init_executable(p)
    BY DEF Init
  <1>2. plan \in Executable /\ plan.idx = 0 /\ Len(plan.code) \in Nat
    BY <1>1, ExecutorAssumption DEF ion_table_init_executable, Executable, Opcodes
  <1>3. Back!BackOK
    BY DEF Init, Back!BackOK
  <1>4. dicts = <<>> /\ defs = <<>>
    BY DEF Init
  <1>5. cells \in [Addr -> Item \cup {Junk}] /\ store \in [Tables -> TableSchema \cup {None, Damaged}]
    BY DEF Init
  <1> QED
    BY <1>2, <1>3, <1>4, <1>5, ExecutorAssumption DEF Init, TypeInv, PlanTyped,
       StoreTyped, DictsTyped, MemoryTyped, Creating

\* Listing an attribute at an address keeps the code and the index.
LEMMA ListedTyped ==
  ASSUME plan \in Executable, NEW ptr \in Addr
  PROVE  /\ Listed(ptr) \in Executable /\ Listed(ptr).idx = plan.idx
         /\ Listed(ptr).code = plan.code
         /\ plan.prev = "DEFINE_ATTRIBUTE" =>
              Listed(ptr).count = plan.count + 1 /\ Listed(ptr).pointer = plan.pointer
         /\ plan.prev # "DEFINE_ATTRIBUTE" =>
              Listed(ptr).count = 1 /\ Listed(ptr).pointer = ptr
  <1>1. CASE plan.prev = "DEFINE_ATTRIBUTE"
    BY <1>1 DEF Listed, Executable
  <1>2. CASE plan.prev # "DEFINE_ATTRIBUTE"
    <2> DEFINE q == [plan EXCEPT !.count = 1]
    <2>1. q \in Executable /\ q.idx = plan.idx /\ q.code = plan.code /\ q.count = 1
      BY DEF Executable
    <2>2. Listed(ptr) = [q EXCEPT !.pointer = ptr]
      BY <1>2 DEF Listed
    <2> HIDE DEF q
    <2> QED
      BY <1>2, <2>1, <2>2 DEF Executable
  <1> QED
    BY <1>1, <1>2

LEMMA DefineAttributeType == TypeInv /\ DefineAttribute => TypeInv'
  <1> SUFFICES ASSUME TypeInv, DefineAttribute PROVE TypeInv'
    OBVIOUS
  <1>1. /\ ~Ended /\ Cur.op = "DEFINE_ATTRIBUTE" /\ pc = "run" /\ making = None
        /\ UNCHANGED <<dicts, store, making>> /\ DictsTyped'
    BY DEF DefineAttribute, Runs, TypeInv, PlanTyped, StoreTyped,
       DictsTyped, schemas
  <1>2. ItemOf(Cur.arg) \in Item
    BY <1>1, Instruction, ItemOfTyped DEF IsInstruction
  <1>3. Back!BackOK'
    BY ListCallDoes DEF DefineAttribute
  <1>4. CASE ret' = NULL
    <2>1. pc' = "idle" /\ UNCHANGED <<plan, cells, defs, kept>> /\ clean' = FALSE
      BY <1>4 DEF DefineAttribute, Fail
    <2>2. PlanTyped' /\ StoreTyped'
      BY <1>1, <2>1 DEF TypeInv, PlanTyped, StoreTyped, Ended, Cur, Creating
    <2> QED
      BY <1>1, <1>3, <2>1, <2>2 DEF TypeInv, MemoryTyped
  <1>5. CASE ret' # NULL
    <2>1. /\ plan' = NextInstruction(Listed(ret'))
          /\ cells' = [Overwritten(ret', ItemSize) EXCEPT ![ret'] = ItemOf(Cur.arg)]
          /\ defs' = Append(defs, ItemOf(Cur.arg))
          /\ kept' \in BOOLEAN /\ UNCHANGED <<pc, clean>>
      BY <1>5 DEF DefineAttribute
    <2>2. ret' \in Addr
      <3>1. /\ \A b \in blive : b \in [ptr : Nat, size : Nat] /\ b.ptr + b.size <= SegSize
            /\ SegSize \in Nat /\ IntSize \in Nat /\ ItemSize \in Nat \ {0}
        BY ExecutorAssumption DEF TypeInv, MemoryTyped, Back!BackOK
      <3> QED
        BY <1>5, <3>1, ListCallDoes DEF DefineAttribute, Addr
    <2>3. /\ Listed(ret') \in Executable /\ Listed(ret').idx = plan.idx
          /\ Listed(ret').code = plan.code
      BY <2>2, ListedTyped DEF TypeInv, PlanTyped
    <2>4. PlanTyped'
      BY <1>1, <2>1, <2>3, NextTyped DEF PlanTyped, Opcodes, Ended, Creating
    <2>5. StoreTyped'
      BY <1>1, <2>1 DEF TypeInv, StoreTyped
    <2>6. cells' \in [Addr -> Item \cup {Junk}]
      BY <1>2, <2>1, OverwrittenTyped
    <2>7. defs' \in Seq(Item) /\ clean' \in BOOLEAN
      BY <1>2, <2>1 DEF TypeInv, MemoryTyped
    <2> QED
      BY <1>1, <1>3, <2>1, <2>4, <2>5, <2>6, <2>7 DEF TypeInv, MemoryTyped
  <1> QED
    BY <1>4, <1>5

LEMMA BackKept ==
  ASSUME TypeInv, blive' = blive
  PROVE  Back!BackOK'
  BY DEF TypeInv, MemoryTyped, Back!BackOK, Back!Apart

\* Returning from an execute keeps the types.
LEMMA ReturnType ==
  ASSUME TypeInv, pc' = "idle", UNCHANGED <<plan, store>>, making' = None
  PROVE  PlanTyped' /\ StoreTyped'
  BY DEF TypeInv, PlanTyped, StoreTyped, Ended, Creating, Cur

LEMMA DictionaryType == TypeInv /\ (CreateDictionary \/ CloseDictionary) => TypeInv'
  <1> SUFFICES ASSUME TypeInv, CreateDictionary \/ CloseDictionary PROVE TypeInv'
    OBVIOUS
  <1>1. /\ pc \in {"run", "close"} /\ making = None /\ ~Ended /\ Cur.op = "CREATE_TABLE"
        /\ UNCHANGED <<plan, cells, store, making, blive, defs, kept>>
        /\ \/ pc' = "idle" /\ clean' = FALSE
           \/ pc' \in {"close", "schema"} /\ UNCHANGED clean
        /\ dicts' = dicts \/ (Len(dicts) < MaxDicts /\ dicts' = Append(dicts, DictionarySize))
    BY DEF TypeInv, PlanTyped, StoreTyped, Creating, CreateDictionary, CloseDictionary,
           Runs, Fail, schemas, memory
  <1>2. PlanTyped' /\ StoreTyped'
    BY <1>1 DEF TypeInv, PlanTyped, StoreTyped, Ended, Creating, Cur
  <1>3. DictsTyped'
    BY <1>1, OneDictMore, ExecutorAssumption DEF TypeInv, DictsTyped
  <1>4. MemoryTyped'
    BY <1>1, BackKept DEF TypeInv, MemoryTyped
  <1> QED
    BY <1>2, <1>3, <1>4 DEF TypeInv

LEMMA BeginSchemaType == TypeInv /\ BeginSchema => TypeInv'
  <1> SUFFICES ASSUME TypeInv, BeginSchema PROVE TypeInv'
    OBVIOUS
  <1>1. /\ pc = "schema" /\ making = None /\ ~Ended /\ Cur.op = "CREATE_TABLE"
        /\ Cur.arg \in Tables
        /\ UNCHANGED <<plan, cells, dicts, store, blive, defs, kept>>
    BY Instruction DEF TypeInv, PlanTyped, StoreTyped, Creating, BeginSchema, memory,
       Store!RefuseCreate, Store!BeginCreate, IsInstruction
  <1>2. CASE Store!RefuseCreate(Cur.arg) /\ Fail("TABLE_ALREADY_EXISTS")
    <2>1. pc' = "idle" /\ making' = None /\ clean' = FALSE
      BY <1>1, <1>2 DEF Fail, Store!RefuseCreate
    <2> QED
      BY <1>1, <2>1, ReturnType, BackKept DEF TypeInv, DictsTyped, MemoryTyped
  <1>3. CASE /\ Store!BeginCreate(Cur.arg, [id |-> IdOf, items |-> Items])
             /\ pc' = "store" /\ UNCHANGED <<status, clean>>
    <2>1. [id |-> IdOf, items |-> Items] \in TableSchema
      BY ItemsTyped DEF TypeInv, DictsTyped, IdOf, TableSchema
    <2>2. /\ making' = [tbl |-> Cur.arg, of |-> [id |-> IdOf, items |-> Items]]
          /\ making' \in [tbl : Tables, of : TableSchema] /\ store[Cur.arg] = None
      BY <1>1, <1>3, <2>1 DEF Store!BeginCreate
    <2>3. making' # None
      BY <2>2, NoneAssumption
    <2>4. PlanTyped'
      BY <1>1, <1>3 DEF TypeInv, PlanTyped, Ended, Creating, Cur
    <2>5. StoreTyped'
      BY <1>1, <1>3, <2>2, <2>3 DEF TypeInv, StoreTyped, Cur
    <2> QED
      BY <1>1, <1>3, <2>4, <2>5, BackKept DEF TypeInv, DictsTyped, MemoryTyped
  <1> QED
    BY <1>2, <1>3 DEF BeginSchema

LEMMA EndSchemaType == TypeInv /\ EndSchema => TypeInv'
  <1> SUFFICES ASSUME TypeInv, EndSchema PROVE TypeInv'
    OBVIOUS
  <1>1. /\ pc = "store" /\ making \in [tbl : Tables, of : TableSchema] /\ ~Ended
        /\ Cur.op = "CREATE_TABLE"
        /\ UNCHANGED <<plan, cells, dicts, blive, kept>>
        /\ making' = None
        /\ \/ pc' = "idle" /\ clean' = FALSE /\ defs' = defs
           \/ pc' = "free" /\ clean' = clean /\ defs' = <<>>
        /\ store' \in {[store EXCEPT ![making.tbl] = making.of],
                       [store EXCEPT ![making.tbl] = Damaged]}
    BY DEF TypeInv, PlanTyped, StoreTyped, EndSchema, Creating, memory, Store!EndCreate, Fail
  <1>2. PlanTyped'
    BY <1>1 DEF TypeInv, PlanTyped, Ended, Creating, Cur
  <1>3. StoreTyped'
    BY <1>1 DEF TypeInv, StoreTyped
  <1>4. DictsTyped'
    BY <1>1 DEF TypeInv, DictsTyped
  <1>5. MemoryTyped'
    <2>1. <<>> \in Seq(Item)
      OBVIOUS
    <2>2. defs' \in Seq(Item)
      BY <1>1, <2>1 DEF TypeInv, MemoryTyped
    <2>3. clean' \in BOOLEAN
      BY <1>1 DEF TypeInv, MemoryTyped
    <2> QED
      BY <1>1, <2>2, <2>3, BackKept DEF TypeInv, MemoryTyped
  <1> QED
    BY <1>2, <1>3, <1>4, <1>5 DEF TypeInv

LEMMA FreeListType == TypeInv /\ FreeList => TypeInv'
  <1> SUFFICES ASSUME TypeInv, FreeList PROVE TypeInv'
    OBVIOUS
  <1>1. /\ pc = "free" /\ making = None /\ ~Ended /\ Cur.op = "CREATE_TABLE"
        /\ UNCHANGED <<dicts, store, making, defs, kept>>
        /\ Back!BackOK'
    BY BfreeDoes DEF TypeInv, PlanTyped, StoreTyped, FreeList, Creating, schemas
  <1>2. DictsTyped'
    BY <1>1 DEF TypeInv, DictsTyped
  <1>3. CASE Fail("FAILED_TO_FREE_MEMORY") /\ UNCHANGED plan /\ cells' \in FlaggedAt(plan.pointer)
    <2>1. cells' \in [Addr -> Item \cup {Junk}]
      BY <1>3 DEF TypeInv, MemoryTyped, FlaggedAt
    <2>2. PlanTyped' /\ StoreTyped'
      BY <1>1, <1>3, ReturnType DEF Fail
    <2> QED
      BY <1>1, <1>2, <1>3, <2>1, <2>2 DEF TypeInv, MemoryTyped, Fail
  <1>4. CASE pc' = "run" /\ plan' = NextInstruction(plan) /\ UNCHANGED <<status, cells, clean>>
    <2>1. PlanTyped'
      BY <1>1, <1>4, NextTyped DEF TypeInv, PlanTyped, Opcodes, Ended, Creating
    <2>2. StoreTyped'
      BY <1>1, <1>4 DEF TypeInv, StoreTyped
    <2> QED
      BY <1>1, <1>2, <1>4, <2>1, <2>2 DEF TypeInv, MemoryTyped
  <1> QED
    BY <1>3, <1>4 DEF FreeList

\* The instructions that do not touch the memory or the tables.
LEMMA SimpleType == TypeInv /\ (Nop \/ Halt \/ Undefined) => TypeInv'
  <1> SUFFICES ASSUME TypeInv, Nop \/ Halt \/ Undefined PROVE TypeInv'
    OBVIOUS
  <1>1. /\ pc = "run" /\ making = None /\ ~Ended
        /\ UNCHANGED <<cells, dicts, store, making, blive, defs, kept>>
        /\ clean' \in {clean, FALSE}
    BY DEF TypeInv, PlanTyped, StoreTyped, Nop, Halt, Undefined, Runs, Fail, schemas, memory
  <1>2. DictsTyped' /\ MemoryTyped'
    BY <1>1, BackKept DEF TypeInv, DictsTyped, MemoryTyped
  <1>3. CASE Undefined
    BY <1>1, <1>2, <1>3, ReturnType DEF Undefined, Fail, TypeInv
  <1>4. CASE Nop \/ Halt
    <2>1. /\ Cur.op \in Opcodes /\ plan' = NextInstruction(plan)
          /\ \/ pc' = "run" /\ Cur.op # "HALT"
             \/ pc' = "idle"
      BY <1>4 DEF Nop, Halt, Runs, Stopped, Opcodes
    <2>2. PlanTyped'
      BY <1>1, <2>1, NextTyped DEF TypeInv, PlanTyped, Ended, Creating
    <2>3. StoreTyped'
      BY <1>1, <2>1 DEF TypeInv, StoreTyped
    <2> QED
      BY <1>2, <2>2, <2>3 DEF TypeInv
  <1> QED
    BY <1>3, <1>4

\* The client, between two calls.
LEMMA PlanCallsType ==
  ASSUME TypeInv, (~Ended /\ Execute) \/ \E p \in Plans : InitExecutable(p)
  PROVE  TypeInv'
  <1>1. /\ pc = "idle" /\ making = None
        /\ UNCHANGED <<cells, dicts, store, making, blive, clean>>
        /\ defs' \in {defs, <<>>}
    BY DEF TypeInv, StoreTyped, Execute, InitExecutable, schemas, memory
  <1>2. kept' \in BOOLEAN
    BY Zenon DEF TypeInv, MemoryTyped, Execute, InitExecutable
  <1>3. defs' \in Seq(Item)
    <2>1. <<>> \in Seq(Item)
      OBVIOUS
    <2> QED
      BY <1>1, <2>1 DEF TypeInv, MemoryTyped
  <1>4. DictsTyped' /\ MemoryTyped'
    BY <1>1, <1>2, <1>3, BackKept DEF TypeInv, DictsTyped, MemoryTyped
  <1>5. CASE ~Ended /\ Execute
    <2>1. plan' = plan /\ pc' = "run"
      BY <1>5 DEF Execute
    <2> QED
      BY <1>1, <1>4, <1>5, <2>1 DEF TypeInv, PlanTyped, StoreTyped, Ended, Creating
  <1>6. ASSUME NEW p \in Plans, InitExecutable(p) PROVE TypeInv'
    <2>1. pc' = "idle" /\ plan' = ion_table_init_executable(p)
      BY <1>1, <1>6 DEF InitExecutable
    <2>2. plan' \in Executable /\ plan'.idx = 0 /\ Len(plan'.code) \in Nat
      BY <2>1, ExecutorAssumption DEF ion_table_init_executable, Executable, Opcodes
    <2> QED
      BY <1>1, <1>4, <2>1, <2>2 DEF TypeInv, PlanTyped, StoreTyped, Creating
  <1> QED
    BY <1>5, <1>6

LEMMA OtherCallsType ==
  ASSUME TypeInv,
         \/ \E n \in OtherSizes : OtherAlloc(n)
         \/ \E b \in others : OtherFree(b)
         \/ \E t \in Tables : DeleteTable(t)
  PROVE  TypeInv'
  <1>1. /\ pc = "idle" /\ pc' = "idle" /\ making = None
        /\ UNCHANGED <<plan, dicts, making, defs, kept>> /\ clean' \in {clean, FALSE}
        /\ \/ store' = store
           \/ \E t \in Tables : store' = [store EXCEPT ![t] = None]
    BY DEF TypeInv, StoreTyped, OtherAlloc, OtherFree, DeleteTable, schemas, Store!Delete
  <1>2. PlanTyped' /\ StoreTyped' /\ DictsTyped'
    BY <1>1 DEF TypeInv, PlanTyped, StoreTyped, DictsTyped, Ended, Creating
  <1>3. Back!BackOK'
    <2>1. ASSUME NEW b, OtherFree(b) PROVE Back!BackOK'
      BY <2>1, Calls, Back!FreeKeeps DEF TypeInv, MemoryTyped, OtherFree
    <2>2. ASSUME NEW t, DeleteTable(t) PROVE Back!BackOK'
      BY <2>2, BackKept DEF DeleteTable, memory
    <2> QED
      BY <2>1, <2>2, OtherAllocDoes
  <1>4. cells' \in [Addr -> Item \cup {Junk}]
    BY OverwrittenTyped DEF TypeInv, MemoryTyped, OtherAlloc, OtherFree, DeleteTable
  <1> QED
    BY <1>1, <1>2, <1>3, <1>4 DEF TypeInv, MemoryTyped

LEMMA PowerFailureType == TypeInv /\ PowerFailure => TypeInv'
  <1> SUFFICES ASSUME TypeInv, PowerFailure PROVE TypeInv'
    OBVIOUS
  <1>1. PICK p \in Plans : plan' = ion_table_init_executable(p)
    BY DEF PowerFailure
  <1>2. plan' \in Executable /\ plan'.idx = 0 /\ Len(plan'.code) \in Nat
    BY <1>1, ExecutorAssumption DEF ion_table_init_executable, Executable, Opcodes
  <1>3. /\ pc' = "idle" /\ making' = None /\ dicts' = dicts
        /\ defs' = <<>> /\ clean' = FALSE /\ kept' = TRUE /\ blive' = {}
        /\ cells' = [a \in Addr |-> Junk]
    BY DEF PowerFailure, Store!PowerFailure
  <1>4. store' \in [Tables -> TableSchema \cup {None, Damaged}]
    BY DEF TypeInv, StoreTyped, PowerFailure, Store!PowerFailure
  <1>5. PlanTyped' /\ StoreTyped'
    BY <1>2, <1>3, <1>4 DEF PlanTyped, StoreTyped, Creating
  <1>6. Back!BackOK'
    BY <1>3 DEF Back!BackOK
  <1>7. DictsTyped'
    BY <1>3 DEF TypeInv, DictsTyped
  <1>8. MemoryTyped'
    <2>1. defs' \in Seq(Item)
      BY <1>3
    <2> QED
      BY <1>3, <1>6, <2>1 DEF MemoryTyped
  <1> QED
    BY <1>5, <1>7, <1>8 DEF TypeInv

\* What the invariants are about: everything but the answers of the last calls.
held ==
  <<plan, pc, cells, dicts, store, making, blive, others, defs, clean, kept>>

LEMMA TypeStays ==
  ASSUME TypeInv, UNCHANGED held
  PROVE  TypeInv'
  <1>1. UNCHANGED <<plan, pc, cells, dicts, store, making, blive, defs, clean, kept>>
    BY DEF held
  <1> QED
    BY <1>1, BackKept DEF TypeInv, PlanTyped, StoreTyped, DictsTyped, MemoryTyped, Ended,
       Creating, Cur

LEMMA NextType == TypeInv /\ [Next]_vars => TypeInv'
  BY DefineAttributeType, DictionaryType, BeginSchemaType, EndSchemaType, FreeListType,
     SimpleType, PlanCallsType, OtherCallsType, PowerFailureType, TypeStays
     DEF Next, Steps, Client, vars, held

\* Every state is typed, and the blocks in memory are apart.
LEMMA SpecType == Spec => []TypeInv
  BY InitType, NextType, PTL DEF Spec

LEMMA Typed == TypeInv => TypeOK
  BY DEF TypeInv, PlanTyped, StoreTyped, DictsTyped, TypeOK

\* The index of an executable stays inside its plan, also between an instruction that
\* failed and its next try, and the executor waits for a schema exactly while one is
\* being made.
THEOREM TypeCorrect == Spec => []TypeOK
  BY Typed, SpecType, PTL
------------------------------------------------------------------------------
(***************************************************************************)
(* Lists that have been used.                                              *)
(***************************************************************************)
\* Between a CREATE_TABLE, or the start, and the next one there is a definition.
LEMMA DefinedBetween ==
  ASSUME PlansRule, NEW p \in Plans, NEW k \in 0 .. Len(p) - 1, NEW i \in 0 .. k,
         p[k + 1].op = "CREATE_TABLE", i > 0 => p[i].op = "CREATE_TABLE"
  PROVE  \E j \in i + 1 .. k : p[j].op = "DEFINE_ATTRIBUTE"
  <1>1. Len(p) \in Nat
    BY ExecutorAssumption
  <1>2. k + 1 \in 1 .. Len(p) /\ i \in 0 .. Len(p) /\ i < k + 1
    BY <1>1
  <1>3. PICK j \in i + 1 .. k + 1 : p[j].op = "DEFINE_ATTRIBUTE"
    BY <1>2 DEF PlansRule, TablesRule
  <1>4. j # k + 1
    BY <1>3
  <1> QED
    BY <1>1, <1>3, <1>4

\* An instruction that is reached with everything spent is not a CREATE_TABLE.
LEMMA SpentNext ==
  ASSUME PlansRule, TypeInv', Spent', ~Ended'
  PROVE  Cur'.op # "CREATE_TABLE"
  <1>1. /\ plan'.code \in Plans /\ Len(plan'.code) \in Nat
        /\ plan'.idx \in 0 .. Len(plan'.code) - 1
    BY ExecutorAssumption DEF TypeInv, PlanTyped, Executable, Ended
  <1>2. PICK i \in 0 .. plan'.idx :
          /\ i > 0 => plan'.code[i].op = "CREATE_TABLE"
          /\ \A j \in i + 1 .. plan'.idx : plan'.code[j].op # "DEFINE_ATTRIBUTE"
    BY DEF Spent
  <1> QED
    BY <1>1, <1>2, DefinedBetween DEF Cur

\* After an instruction that defines nothing, what was spent stays so, and after a
\* CREATE_TABLE everything is.
LEMMA SpentKept ==
  ASSUME TypeInv, ~Ended, Cur.op \in Opcodes \ {"DEFINE_ATTRIBUTE"},
         plan' = NextInstruction(plan), Spent \/ Cur.op = "CREATE_TABLE"
  PROVE  Spent'
  <1>1. /\ plan'.code = plan.code /\ plan'.idx \in {0, plan.idx + 1} /\ plan.idx \in Nat
        /\ Cur.op # "HALT" => plan'.idx = plan.idx + 1
    BY NextTyped DEF TypeInv, PlanTyped, Executable
  <1>2. CASE plan'.idx = 0
    BY <1>2 DEF Spent
  <1>3. CASE plan'.idx = plan.idx + 1 /\ Cur.op = "CREATE_TABLE"
    <2>1. plan.idx + 1 \in 0 .. plan'.idx /\ plan'.code[plan.idx + 1].op = "CREATE_TABLE"
      BY <1>1, <1>3 DEF Cur
    <2> QED
      BY <1>1, <1>3, <2>1 DEF Spent
  <1>4. CASE plan'.idx = plan.idx + 1 /\ Spent
    <2>1. PICK i \in 0 .. plan.idx :
            /\ i > 0 => plan.code[i].op = "CREATE_TABLE"
            /\ \A j \in i + 1 .. plan.idx : plan.code[j].op # "DEFINE_ATTRIBUTE"
      BY <1>4 DEF Spent
    <2>2. plan.code[plan.idx + 1].op # "DEFINE_ATTRIBUTE"
      BY DEF Cur
    <2>3. \A j \in i + 1 .. plan'.idx : plan'.code[j].op # "DEFINE_ATTRIBUTE"
      BY <1>1, <1>4, <2>1, <2>2
    <2>4. i \in 0 .. plan'.idx
      BY <1>1, <1>4
    <2> QED
      BY <1>1, <2>1, <2>3, <2>4 DEF Spent
  <1> QED
    BY <1>1, <1>2, <1>3, <1>4

LEMMA InitPlan == Init => PlanInv
  <1> SUFFICES ASSUME Init PROVE PlanInv
    OBVIOUS
  <1>1. PICK p \in Plans : plan = ion_table_init_executable(p)
    BY DEF Init
  <1>2. plan.idx = 0 /\ plan.prev = "NOP"
    BY <1>1 DEF ion_table_init_executable
  <1> QED
    BY <1>2 DEF Init, PlanInv, Spent

\* Steps that leave the plan and the definitions alone.
LEMMA PlanStays ==
  ASSUME PlanInv, UNCHANGED <<plan, defs>>,
         pc' \in {"idle", pc}, pc' \in {"run", "close", "schema"} => store' = store
  PROVE  PlanInv'
  BY DEF PlanInv, Spent, Ended, Cur

LEMMA NextPlan ==
  ASSUME PlansRule, TypeInv, TypeInv', PlanInv, Next
  PROVE  PlanInv'
  <1>1. CASE DefineAttribute
    <2>1. CASE ret' = NULL
      <3>1. UNCHANGED <<plan, defs>> /\ pc' = "idle"
        BY <1>1, <2>1 DEF DefineAttribute, Fail
      <3> QED
        BY <3>1, PlanStays
    <2>2. CASE ret' # NULL
      <3>1. pc = "run" /\ pc' = "run" /\ defs' = Append(defs, ItemOf(Cur.arg))
        BY <1>1, <2>2 DEF DefineAttribute, Runs
      <3>2. defs' # <<>>
        BY <3>1 DEF TypeInv, MemoryTyped
      <3> QED
        BY <3>1, <3>2 DEF PlanInv
    <2> QED
      BY <2>1, <2>2
  <1>2. CASE CreateDictionary \/ CloseDictionary
    <2>1. /\ UNCHANGED <<plan, defs, store>> /\ pc \in {"run", "close"}
          /\ pc = "run" => Cur.op = "CREATE_TABLE" /\ pc' \in {"idle", "close"}
          /\ pc = "close" => pc' \in {"idle", "schema"}
      BY <1>2 DEF CreateDictionary, CloseDictionary, Runs, Fail, schemas
    <2> QED
      BY <2>1 DEF PlanInv, Spent, Ended, Cur
  <1>3. CASE BeginSchema
    <2>1. /\ UNCHANGED <<plan, defs, store>> /\ pc = "schema" /\ Cur.op = "CREATE_TABLE"
          /\ pc' = "idle" \/ (pc' = "store" /\ store[Cur.arg] = None)
      BY <1>3 DEF BeginSchema, Fail, Store!RefuseCreate, Store!BeginCreate, TypeInv, PlanTyped,
              Creating
    <2> QED
      BY <2>1 DEF PlanInv, Spent, Ended, Cur
  <1>4. CASE EndSchema
    <2>1. /\ plan' = plan /\ pc = "store" /\ Cur.op = "CREATE_TABLE" /\ ~Ended
          /\ \/ pc' = "idle" /\ defs' = defs
             \/ pc' = "free" /\ defs' = <<>>
      BY <1>4 DEF EndSchema, Fail, TypeInv, PlanTyped, Creating
    <2> QED
      BY <2>1 DEF PlanInv, Spent, Ended, Cur
  <1>5. CASE FreeList
    <2>1. /\ defs' = defs /\ pc = "free" /\ Cur.op = "CREATE_TABLE" /\ ~Ended
          /\ \/ plan' = plan /\ pc' = "idle"
             \/ plan' = NextInstruction(plan) /\ pc' = "run"
      BY <1>5 DEF FreeList, Fail, TypeInv, PlanTyped, Creating
    <2>2. CASE plan' = plan /\ pc' = "idle"
      BY <2>1, <2>2, PlanStays
    <2>3. CASE plan' = NextInstruction(plan) /\ pc' = "run"
      <3>1. Spent' /\ plan'.prev = "CREATE_TABLE"
        BY <2>1, <2>3, SpentKept, NextTyped DEF Opcodes, TypeInv, PlanTyped
      <3>2. ~Ended'
        BY <2>3 DEF TypeInv, PlanTyped
      <3> QED
        BY <2>3, <3>1, <3>2, SpentNext DEF PlanInv
    <2> QED
      BY <2>1, <2>2, <2>3
  <1>6. CASE Nop \/ Halt
    <2>1. /\ UNCHANGED <<defs, store>> /\ plan' = NextInstruction(plan) /\ ~Ended
          /\ Cur.op \in {"NOP", "HALT"} /\ pc' \in {"run", "idle"}
      BY <1>6 DEF Nop, Halt, Runs, schemas, Stopped, TypeInv, PlanTyped
    <2>2. plan'.prev # "DEFINE_ATTRIBUTE"
      BY <2>1, NextTyped DEF Opcodes, TypeInv, PlanTyped
    <2>3. ASSUME defs = <<>> PROVE Spent' /\ (pc' = "run" => Cur'.op # "CREATE_TABLE")
      <3>1. Spent
        BY <2>1, <2>3 DEF PlanInv
      <3>2. Spent'
        BY <2>1, <3>1, SpentKept DEF Opcodes
      <3>3. pc' = "run" => ~Ended'
        BY DEF TypeInv, PlanTyped
      <3> QED
        BY <3>2, <3>3, SpentNext
    <2> QED
      BY <2>1, <2>2, <2>3 DEF PlanInv
  <1>7. CASE Undefined
    BY <1>7, PlanStays DEF Undefined, Fail
  <1>8. CASE ~Ended /\ ListRule /\ Execute
    <2>1. UNCHANGED <<plan, defs, store>> /\ pc' = "run"
      BY <1>8 DEF Execute, schemas
    <2>2. Cur.op = "CREATE_TABLE" /\ defs = <<>> => store[Cur.arg] # None
      BY <1>8 DEF ListRule
    <2> QED
      BY <2>1, <2>2 DEF PlanInv, Spent, Ended, Cur
  <1>9. ASSUME NEW p \in Plans,
               InitExecutable(p) \/ (PowerFailure /\ plan' = ion_table_init_executable(p))
        PROVE  PlanInv'
    <2>1. plan'.idx = 0 /\ plan'.prev = "NOP" /\ pc' = "idle"
      BY <1>9 DEF InitExecutable, PowerFailure, ion_table_init_executable
    <2> QED
      BY <2>1 DEF PlanInv, Spent
  <1>10. CASE \/ \E n \in OtherSizes : OtherAlloc(n)
              \/ \E b \in others : OtherFree(b)
              \/ \E t \in Tables : DeleteTable(t)
    <2>1. UNCHANGED <<plan, defs>> /\ pc = "idle" /\ pc' = "idle"
      BY <1>10 DEF OtherAlloc, OtherFree, DeleteTable
    <2> QED
      BY <2>1, PlanStays
  <1> QED
    BY <1>1, <1>2, <1>3, <1>4, <1>5, <1>6, <1>7, <1>8, <1>9, <1>10
       DEF Next, Steps, Client, PowerFailure
------------------------------------------------------------------------------
(***************************************************************************)
(* The list in memory.                                                     *)
(***************************************************************************)
\* The list lies between the start of its block and the end of the item at pointer.
LEMMA ListBlockIs ==
  ASSUME TypeInv, plan.count >= 1
  PROVE  /\ plan.pointer \in Int /\ plan.count \in Nat /\ ItemSize \in Nat \ {0}
         /\ (plan.count - 1) * ItemSize \in Nat
         /\ plan.count * ItemSize = (plan.count - 1) * ItemSize + ItemSize
         /\ (plan.count + 1) * ItemSize = plan.count * ItemSize + ItemSize
         /\ InList(ListBlock)
  <1>1. plan.pointer \in Int /\ plan.count \in Nat /\ ItemSize \in Nat \ {0}
    BY ExecutorAssumption DEF TypeInv, PlanTyped, Executable, Addr, NULL, Memory!NULL
  <1>2. /\ (plan.count - 1) * ItemSize \in Nat
        /\ plan.count * ItemSize = (plan.count - 1) * ItemSize + ItemSize
        /\ (plan.count + 1) * ItemSize = plan.count * ItemSize + ItemSize
    BY <1>1
  <1>3. InList(ListBlock)
    BY <1>1, <1>2 DEF InList, ListBlock
  <1> QED
    BY <1>1, <1>2, <1>3

\* There is one block at the list, and one topmost block.
LEMMA OneList ==
  ASSUME TypeInv, NEW b \in blive, NEW c \in blive
  PROVE  /\ InList(b) /\ InList(c) => b = c
         /\ InList(b) /\ c.ptr = plan.pointer => b = c
         /\ Back!Topmost(b) /\ Back!Topmost(c) => b = c
  <1>1. /\ b \in [ptr : Nat, size : Nat] /\ c \in [ptr : Nat, size : Nat]
        /\ Back!BackOK /\ Back!Sizes
    BY Calls DEF TypeInv, MemoryTyped, Back!BackOK
  <1>2. ASSUME InList(b), InList(c) PROVE b = c
    <2>1. plan.pointer \in Int
      BY DEF TypeInv, PlanTyped, Executable, Addr, NULL, Memory!NULL
    <2>2. \/ b.ptr <= c.ptr /\ c.ptr < b.ptr + b.size
          \/ c.ptr <= b.ptr /\ b.ptr < c.ptr + c.size
      BY <1>1, <1>2, <2>1 DEF InList
    <2> QED
      BY <1>1, <2>2, Back!OneBlock
  <1>3. ASSUME InList(b), c.ptr = plan.pointer PROVE b = c
    BY <1>1, <1>3, Back!OneBlock DEF InList
  <1>4. ASSUME Back!Topmost(b), Back!Topmost(c) PROVE b = c
    <2>1. b.ptr <= c.ptr /\ b.ptr = c.ptr
      BY <1>1, <1>4 DEF Back!Topmost
    <2> QED
      BY <1>1, <2>1, Back!OneBlock
  <1> QED
    BY <1>2, <1>3, <1>4

LEMMA InitMemory == Init => MemoryInv
  <1> SUFFICES ASSUME Init PROVE MemoryInv
    OBVIOUS
  <1>1. plan.prev = "NOP"
    BY DEF Init, ion_table_init_executable
  <1> QED
    BY <1>1 DEF Init, MemoryInv, Listing

\* Steps that leave the list and the blocks alone.
LEMMA MemoryStays ==
  ASSUME MemoryInv, UNCHANGED <<blive, others>>, Listing' => Listing,
         plan'.pointer = plan.pointer,
         plan'.prev = "DEFINE_ATTRIBUTE" => plan' = plan,
         clean' /\ kept' => clean /\ kept /\ (Listing => Listing')
  PROVE  MemoryInv'
  BY DEF MemoryInv, InList, ListBlock, Back!Topmost

LEMMA DefineAttributeMemory ==
  ASSUME TypeInv, MemoryInv, DefineAttribute
  PROVE  MemoryInv'
  <1>1. /\ pc = "run" /\ ~Ended /\ Cur.op = "DEFINE_ATTRIBUTE" /\ ListCall
        /\ others' = others /\ others \subseteq blive
        /\ Back!BackOK /\ IntSize \in Nat \ {0} /\ ItemSize \in Nat \ {0}
    BY ExecutorAssumption
       DEF DefineAttribute, Runs, TypeInv, PlanTyped, MemoryTyped, MemoryInv
  <1>2. CASE ret' = NULL
    <2>1. blive' = blive /\ UNCHANGED <<plan, defs>> /\ clean' = FALSE /\ pc' = "idle"
      <3>1. blive' = blive
        BY <1>1, <1>2, ListCallDoes, Calls DEF Back!BackOK
      <3> QED
        BY <1>2, <3>1 DEF DefineAttribute, Fail
    <2> QED
      BY <1>1, <2>1, MemoryStays DEF Listing
  <1>3. ASSUME NEW r, ret' = r, r # NULL PROVE MemoryInv'
    <2>1. /\ plan' = NextInstruction(Listed(r)) /\ pc' = "run" /\ clean' = clean
          /\ defs' = Append(defs, ItemOf(Cur.arg))
          /\ kept' = (kept /\ (plan.prev = "DEFINE_ATTRIBUTE" \/ defs = <<>>))
      BY <1>1, <1>3 DEF DefineAttribute
    <2>2. Listing'
      BY <2>1 DEF Listing, TypeInv, MemoryTyped
    <2>3. r \in Addr
      <3>1. /\ \A b \in blive : b \in [ptr : Nat, size : Nat] /\ b.ptr + b.size <= SegSize
            /\ SegSize \in Nat
        BY ExecutorAssumption DEF TypeInv, MemoryTyped, Back!BackOK
      <3> QED
        BY <1>1, <1>3, <3>1, ListCallDoes DEF Addr
    <2>4. /\ plan'.prev = "DEFINE_ATTRIBUTE"
          /\ plan.prev = "DEFINE_ATTRIBUTE" =>
               plan'.count = plan.count + 1 /\ plan'.pointer = plan.pointer
          /\ plan.prev # "DEFINE_ATTRIBUTE" => plan'.count = 1 /\ plan'.pointer = r
      BY <1>1, <2>1, <2>3, NextTyped, ListedTyped DEF Opcodes, TypeInv, PlanTyped
    <2>5. CASE plan.prev # "DEFINE_ATTRIBUTE"
      <3> DEFINE c == [ptr |-> r, size |-> ItemSize]
      <3>1. /\ c \notin blive /\ blive' = blive \cup {c}
            /\ \A b \in blive : r <= b.ptr
        <4>1. /\ c \notin blive /\ blive' = blive \cup {c}
              /\ \A b \in blive : r + ItemSize + IntSize <= b.ptr
          BY <1>1, <1>3, <2>5, ListCallDoes
        <4>2. r \in Nat /\ \A b \in blive : b.ptr \in Nat
          BY <1>1, <2>3 DEF Addr, Back!BackOK
        <4> HIDE DEF c
        <4> QED
          BY <1>1, <4>1, <4>2
      <3>2. ListBlock' = c /\ InList(c)'
        BY <1>1, <2>3, <2>4, <2>5 DEF ListBlock, InList, Addr
      <3>3. Back!Topmost(c)'
        BY <3>1, <2>3 DEF Back!Topmost, Addr
      <3>4. clean' /\ kept' => blive \ others = {}
        BY <1>1, <2>1, <2>5 DEF MemoryInv, Listing
      <3> HIDE DEF c
      <3> QED
        BY <1>1, <2>2, <2>4, <2>5, <3>1, <3>2, <3>3, <3>4 DEF MemoryInv
    <2>6. CASE plan.prev = "DEFINE_ATTRIBUTE"
      <3>1. PICK b \in blive :
              /\ Back!Topmost(b) /\ r = b.ptr - ItemSize /\ r >= IntSize
              /\ blive' = (blive \ {b}) \cup {[ptr |-> r, size |-> b.size + ItemSize]}
        BY <1>1, <1>3, <2>6, ListCallDoes
      <3>2. /\ plan.count >= 1 /\ b = ListBlock /\ b \notin others
            /\ InList(b) /\ b \in [ptr : Nat, size : Nat]
        BY <1>1, <2>6, <3>1, OneList, ListBlockIs DEF MemoryInv, Back!Topmost, Back!BackOK
      <3> DEFINE c == [ptr |-> r, size |-> b.size + ItemSize]
      <3>3. ListBlock' = c /\ InList(c)'
        <4>1. /\ b.ptr = plan.pointer - (plan.count - 1) * ItemSize
              /\ b.size = plan.count * ItemSize
          BY <3>2 DEF ListBlock
        <4>2. ListBlock' = c
          <5>1. plan'.count - 1 = plan.count /\ plan'.count = plan.count + 1
            <6>1. plan.count \in Nat
              BY <3>2, ListBlockIs
            <6> QED
              BY <2>4, <2>6, <6>1
          <5>2. (plan'.count - 1) * ItemSize = b.size
            BY <4>1, <5>1
          <5>3. plan'.count * ItemSize = b.size + ItemSize
            BY <3>2, <4>1, <5>1, ListBlockIs
          <5>4. plan'.pointer - b.size = r
            BY <2>4, <2>6, <3>1, <3>2, <4>1, ListBlockIs
          <5> QED
            BY <5>2, <5>3, <5>4 DEF ListBlock
        <4>3. InList(c)'
          BY <1>1, <2>4, <2>6, <3>1, <3>2, ListBlockIs DEF InList
        <4> QED
          BY <4>2, <4>3
      <3>4. c \notin blive /\ Back!Topmost(c)'
        <4>1. r < b.ptr /\ r \in Int /\ \A d \in blive : b.ptr <= d.ptr /\ d.ptr \in Nat
          BY <1>1, <3>1, <3>2 DEF Back!Topmost, Back!BackOK
        <4> QED
          BY <3>1, <4>1 DEF Back!Topmost
      <3>5. ASSUME clean', kept', NEW d \in blive' \ others PROVE d = c
        <4>1. d # c => d \in blive \ others /\ d # b /\ InList(d)
          BY <2>1, <3>1, <3>5 DEF MemoryInv
        <4> QED
          BY <3>2, <4>1, OneList
      <3>6. others' \subseteq blive'
        BY <1>1, <3>1, <3>2
      <3>7. c \in blive' \ others' /\ plan'.count >= 1
        BY <1>1, <2>4, <2>6, <3>1, <3>2, <3>4, ListBlockIs
      <3> HIDE DEF c
      <3> QED
        BY <1>1, <2>2, <2>4, <3>3, <3>4, <3>5, <3>6, <3>7 DEF MemoryInv
    <2> QED
      BY <2>5, <2>6
  <1> QED
    BY <1>2, <1>3

LEMMA FreeListMemory ==
  ASSUME TypeInv, PlanInv, MemoryInv, FreeList
  PROVE  MemoryInv'
  <1>1. /\ pc = "free" /\ Bfree(plan.pointer) /\ others' = others /\ defs' = <<>>
        /\ \/ ret' # 1 /\ plan' = plan /\ pc' = "idle" /\ clean' = FALSE
           \/ ret' = 1 /\ plan' = NextInstruction(plan) /\ pc' = "run" /\ clean' = clean
        /\ kept' = kept /\ ~Ended /\ Cur.op = "CREATE_TABLE"
    BY DEF FreeList, Fail, PlanInv, TypeInv, PlanTyped, Creating
  <1>2. PICK list \in blive \ others : InList(list)
    BY <1>1 DEF MemoryInv, Listing
  <1>3. \/ blive' = blive /\ ret' # 1
        \/ blive' = blive \ {list} /\ (ret' = 1 <=> Back!Topmost(list))
    <2>1. \A b \in blive : b.ptr = plan.pointer => b = list
      BY <1>2, OneList
    <2> QED
      BY <1>1, <2>1, BfreeDoes
  <1>4. ~Listing' /\ others' \subseteq blive'
    BY <1>1, <1>2, <1>3 DEF Listing, MemoryInv
  <1>5. ASSUME plan'.prev = "DEFINE_ATTRIBUTE"
        PROVE  plan' = plan /\ blive' = blive
    <2>1. plan' = plan /\ ret' # 1
      BY <1>1, <1>5, NextTyped DEF TypeInv, PlanTyped, Opcodes
    <2>2. plan.count >= 1 /\ ListBlock \in blive /\ Back!Topmost(ListBlock)
      BY <1>5, <2>1 DEF MemoryInv, Back!Topmost
    <2>3. ListBlock = list
      BY <1>2, <2>2, ListBlockIs, OneList
    <2> QED
      BY <1>3, <2>1, <2>2, <2>3
  <1>6. ASSUME clean', kept' PROVE blive' \ others' = {}
    <2>1. \A b \in blive \ others : b = list
      BY <1>1, <1>2, <1>6, OneList DEF MemoryInv
    <2> QED
      BY <1>1, <1>3, <1>6, <2>1
  <1>7. plan'.prev = "DEFINE_ATTRIBUTE" =>
          plan'.count >= 1 /\ ListBlock' \notin others' /\ Back!Topmost(ListBlock)'
    <2> SUFFICES ASSUME plan'.prev = "DEFINE_ATTRIBUTE"
                 PROVE  plan'.count >= 1 /\ ListBlock' \notin others' /\ Back!Topmost(ListBlock)'
      OBVIOUS
    <2>1. plan' = plan /\ blive' = blive
      BY <1>5
    <2> QED
      BY <1>1, <2>1 DEF MemoryInv, ListBlock, Back!Topmost
  <1> QED
    BY <1>4, <1>6, <1>7 DEF MemoryInv

\* Another client allocates below the list, which is not extended any more.
LEMMA OtherAllocMemory ==
  ASSUME TypeInv, MemoryInv, plan.prev # "DEFINE_ATTRIBUTE",
         NEW n \in OtherSizes, OtherAlloc(n)
  PROVE  MemoryInv'
  <1> DEFINE b == [ptr |-> ret', size |-> n]
  <1>1. /\ blive' = blive \cup {b} /\ others' = others \cup {b} /\ b \notin blive
        /\ UNCHANGED <<plan, pc, defs, clean, kept>>
    BY OtherAllocDoes DEF OtherAlloc
  <1>2. blive' \ others' = blive \ others
    BY <1>1 DEF MemoryInv
  <1> HIDE DEF b
  <1> QED
    BY <1>1, <1>2 DEF MemoryInv, Listing, InList

\* Another client frees a block of its own, which is not the list.
LEMMA OtherFreeMemory ==
  ASSUME TypeInv, MemoryInv, NEW b \in others, OtherFree(b)
  PROVE  MemoryInv'
  <1>1. /\ UNCHANGED <<plan, pc, defs, clean, kept>>
        /\ \/ blive' = blive \ {b} /\ others' = others \ {b}
           \/ blive' = blive /\ others' = others
    BY OtherFreeDoes DEF OtherFree, MemoryInv
  <1>2. others' \subseteq blive' /\ blive' \ others' = blive \ others
    BY <1>1 DEF MemoryInv
  <1>3. ASSUME plan'.prev = "DEFINE_ATTRIBUTE"
        PROVE  plan'.count >= 1 /\ ListBlock' \notin others' /\ Back!Topmost(ListBlock)'
    <2>1. /\ plan.count >= 1 /\ ListBlock \notin others /\ ListBlock' = ListBlock
          /\ Back!Topmost(ListBlock)
      BY <1>1, <1>3 DEF MemoryInv, ListBlock
    <2> QED
      BY <1>1, <2>1 DEF Back!Topmost
  <1> QED
    BY <1>1, <1>2, <1>3 DEF MemoryInv, Listing, InList

LEMMA NextMemory ==
  ASSUME TypeInv, PlanInv, MemoryInv, Next
  PROVE  MemoryInv'
  <1>1. CASE CreateDictionary \/ CloseDictionary \/ BeginSchema
    <2>1. /\ UNCHANGED <<plan, defs, kept, blive, others>>
          /\ pc \in {"run", "close", "schema"}
          /\ \/ pc' = "idle" /\ clean' = FALSE
             \/ pc' \in {"close", "schema", "store"} /\ clean' = clean
      BY <1>1 DEF CreateDictionary, CloseDictionary, BeginSchema, Runs, Fail, memory
    <2> QED
      BY <2>1, MemoryStays DEF Listing
  <1>2. CASE EndSchema
    <2>1. /\ UNCHANGED <<plan, kept, blive, others>> /\ pc = "store" /\ defs # <<>>
          /\ \/ pc' = "idle" /\ clean' = FALSE /\ defs' = defs
             \/ pc' = "free" /\ clean' = clean
      BY <1>2 DEF EndSchema, Fail, PlanInv, memory
    <2> QED
      BY <2>1, MemoryStays DEF Listing
  <1>3. CASE Nop \/ Halt
    <2>1. /\ UNCHANGED <<defs, clean, kept, blive, others>> /\ ~Ended
          /\ plan' = NextInstruction(plan) /\ Cur.op \in {"NOP", "HALT"}
          /\ pc = "run" /\ pc' \in {"run", "idle"}
      BY <1>3 DEF Nop, Halt, Runs, memory, Stopped, TypeInv, PlanTyped
    <2>2. plan'.prev # "DEFINE_ATTRIBUTE" /\ plan'.pointer = plan.pointer
      BY <2>1, NextTyped DEF Opcodes, TypeInv, PlanTyped
    <2> QED
      BY <2>1, <2>2, MemoryStays DEF Listing
  <1>4. CASE Undefined \/ Execute \/ \E t \in Tables : DeleteTable(t)
    <2>1. /\ UNCHANGED <<plan, defs, kept, blive, others>> /\ pc \in {"run", "idle"}
          /\ pc' \in {"run", "idle"} /\ (clean' = clean \/ clean' = FALSE)
      BY <1>4 DEF Undefined, Runs, Fail, Execute, DeleteTable, memory
    <2> QED
      BY <2>1, MemoryStays DEF Listing
  <1>5. ASSUME NEW p \in Plans, InitExecutable(p) PROVE MemoryInv'
    <2>1. /\ plan'.prev = "NOP" /\ defs' = <<>> /\ pc = "idle" /\ pc' = "idle"
          /\ clean' = clean /\ kept' = (kept /\ defs = <<>>) /\ UNCHANGED <<blive, others>>
      BY <1>5 DEF InitExecutable, ion_table_init_executable, memory
    <2>2. clean' /\ kept' => blive \ others = {}
      BY <2>1 DEF MemoryInv, Listing
    <2> QED
      BY <2>1, <2>2 DEF MemoryInv, Listing
  <1>6. CASE PowerFailure
    <2>1. /\ blive' = {} /\ others' = {} /\ defs' = <<>> /\ pc' = "idle"
          /\ plan'.prev = "NOP"
      BY <1>6 DEF PowerFailure, ion_table_init_executable
    <2> QED
      BY <2>1 DEF MemoryInv, Listing
  <1> QED
    BY <1>1, <1>2, <1>3, <1>4, <1>5, <1>6, DefineAttributeMemory, FreeListMemory,
       OtherAllocMemory, OtherFreeMemory DEF Next, Steps, Client

------------------------------------------------------------------------------
(***************************************************************************)
(* The attributes in the list.                                             *)
(***************************************************************************)
LEMMA Multiples ==
  ASSUME NEW n \in Nat, NEW i \in Nat, NEW j \in Nat
  PROVE  /\ i * n \in Nat
         /\ i <= j => i * n <= j * n
         /\ (i + 1) * n = i * n + n
  OBVIOUS

\* The items of the list lie in its block.
LEMMA ItemsInBlock ==
  ASSUME TypeInv, plan.count >= 1, ListBlock \in blive, NEW k \in 1 .. plan.count
  PROVE  /\ plan.pointer - (k - 1) * ItemSize \in Addr
         /\ ListBlock.ptr <= plan.pointer - (k - 1) * ItemSize
         /\ plan.pointer - (k - 1) * ItemSize <= plan.pointer
  <1>1. /\ ListBlock.ptr \in Nat /\ ListBlock.ptr + ListBlock.size <= SegSize
        /\ SegSize \in Nat
    BY ExecutorAssumption DEF TypeInv, MemoryTyped, Back!BackOK
  <1>2. /\ plan.pointer \in Int /\ plan.count \in Nat /\ ItemSize \in Nat \ {0}
        /\ plan.count * ItemSize = (plan.count - 1) * ItemSize + ItemSize
    BY ListBlockIs
  <1>3. /\ (k - 1) * ItemSize \in Nat /\ (plan.count - 1) * ItemSize \in Nat
        /\ (k - 1) * ItemSize <= (plan.count - 1) * ItemSize
    <2>1. k - 1 \in Nat /\ plan.count - 1 \in Nat /\ k - 1 <= plan.count - 1
      BY <1>2
    <2> QED
      BY <1>2, <2>1, Multiples
  <1>4. /\ ListBlock.ptr = plan.pointer - (plan.count - 1) * ItemSize
        /\ ListBlock.size = plan.count * ItemSize
    BY DEF ListBlock
  <1> HIDE DEF ListBlock
  <1> QED
    BY <1>1, <1>2, <1>3, <1>4 DEF Addr

LEMMA InitList == Init => ListInv
  BY DEF Init, ion_table_init_executable, ListInv

\* Steps that leave the definitions, or give them up, and do not write to the list.
LEMMA ListStays ==
  ASSUME ListInv, cells' = cells,
         defs' = <<>> \/ (defs' = defs /\ UNCHANGED <<plan.count, plan.pointer>>),
         plan'.prev = "DEFINE_ATTRIBUTE" => plan' = plan
  PROVE  ListInv'
  BY DEF ListInv

\* A new attribute is placed at r, and what lies above stays.
LEMMA DefineAttributeList ==
  ASSUME TypeInv, PlanInv, MemoryInv, ListInv, DefineAttribute
  PROVE  ListInv'
  <1>1. /\ ~Ended /\ Cur.op = "DEFINE_ATTRIBUTE" /\ ListCall
        /\ Back!BackOK /\ IntSize \in Nat \ {0} /\ ItemSize \in Nat \ {0}
        /\ SegSize \in Nat /\ defs \in Seq(Item)
        /\ ItemOf(Cur.arg) \in Item
    BY ExecutorAssumption, Instruction, ItemOfTyped
       DEF DefineAttribute, Runs, TypeInv, PlanTyped, MemoryTyped, IsInstruction
  <1>2. CASE ret' = NULL
    BY <1>2, ListStays DEF DefineAttribute
  <1>3. ASSUME NEW r, ret' = r, r # NULL PROVE ListInv'
    <2>1. /\ plan' = NextInstruction(Listed(r))
          /\ cells' = [Overwritten(r, ItemSize) EXCEPT ![r] = ItemOf(Cur.arg)]
          /\ defs' = Append(defs, ItemOf(Cur.arg))
      BY <1>3 DEF DefineAttribute
    <2>2. r \in Addr
      <3>1. \A b \in blive : b \in [ptr : Nat, size : Nat] /\ b.ptr + b.size <= SegSize
        BY <1>1 DEF Back!BackOK
      <3> QED
        BY <1>1, <1>3, <3>1, ListCallDoes DEF Addr
    <2>3. /\ plan'.prev = "DEFINE_ATTRIBUTE"
          /\ plan.prev = "DEFINE_ATTRIBUTE" =>
               plan'.count = plan.count + 1 /\ plan'.pointer = plan.pointer
          /\ plan.prev # "DEFINE_ATTRIBUTE" => plan'.count = 1 /\ plan'.pointer = r
      BY <1>1, <2>1, <2>2, NextTyped, ListedTyped DEF Opcodes, TypeInv, PlanTyped
    <2>4. /\ cells'[r] = ItemOf(Cur.arg)
          /\ \A a \in Addr : r + ItemSize <= a => cells'[a] = cells[a]
      BY <1>1, <2>1, <2>2 DEF Overwritten, Addr
    <2>5. /\ Len(defs') = Len(defs) + 1 /\ Len(defs) \in Nat
          /\ \A i \in 1 .. Len(defs) : defs'[i] = defs[i]
          /\ defs'[Len(defs')] = ItemOf(Cur.arg)
      BY <1>1, <2>1, Appended
    <2>6. CASE plan.prev # "DEFINE_ATTRIBUTE"
      <3>1. /\ plan'.count = 1 /\ plan'.pointer = r /\ r \in Int
            /\ \A k \in 1 .. 1 : k = 1 /\ r - (k - 1) * ItemSize = r
        BY <1>1, <2>2, <2>3, <2>6 DEF Addr
      <3>2. \A k \in 1 .. 1 : cells'[r] = defs'[Len(defs') - 1 + k]
        BY <2>4, <2>5
      <3> QED
        BY <2>2, <2>5, <3>1, <3>2 DEF ListInv
    <2>7. CASE plan.prev = "DEFINE_ATTRIBUTE"
      <3>1. /\ defs # <<>> /\ Len(defs) >= 1 /\ plan.count <= Len(defs)
            /\ \A k \in 1 .. plan.count :
                 cells[plan.pointer - (k - 1) * ItemSize] = defs[Len(defs) - plan.count + k]
        <4>1. defs # <<>>
          BY <1>1, <2>7 DEF PlanInv
        <4>2. Len(defs) >= 1
          BY <1>1, <4>1
        <4> QED
          BY <2>7, <4>1, <4>2 DEF ListInv
      <3>2. PICK b \in blive :
              /\ Back!Topmost(b) /\ r = b.ptr - ItemSize
              /\ blive' = (blive \ {b}) \cup {[ptr |-> r, size |-> b.size + ItemSize]}
        BY <1>1, <1>3, <2>7, ListCallDoes
      <3>3. plan.count >= 1 /\ ListBlock = b
        BY <1>1, <2>7, <3>2, OneList DEF MemoryInv, Back!Topmost
      <3>4. /\ plan.pointer \in Int /\ plan.count \in Nat
            /\ b.ptr = plan.pointer - (plan.count - 1) * ItemSize /\ b.ptr \in Nat
            /\ (plan.count - 1) * ItemSize \in Nat
            /\ plan.count * ItemSize = (plan.count - 1) * ItemSize + ItemSize
        BY <1>1, <3>2, <3>3, ListBlockIs DEF ListBlock, Back!BackOK
      <3>5. ASSUME NEW k \in 1 .. plan'.count
            PROVE  cells'[plan'.pointer - (k - 1) * ItemSize]
                     = defs'[Len(defs') - plan'.count + k]
        <4>1. CASE k = plan.count + 1
          <5>1. k - 1 = plan.count
            BY <3>4, <4>1
          <5>2. r = plan'.pointer - (k - 1) * ItemSize
            <6> DEFINE m == plan.count * ItemSize
                       l == (plan.count - 1) * ItemSize
            <6>1. m = l + ItemSize /\ l \in Nat
              BY <3>4
            <6>2. r = b.ptr - ItemSize /\ b.ptr = plan.pointer - l /\ b.ptr \in Nat
                  /\ plan.pointer \in Int
              BY <3>2, <3>4
            <6>3. plan'.pointer = plan.pointer /\ ItemSize \in Nat
              BY <1>1, <2>3, <2>7
            <6> HIDE DEF m, l
            <6>4. r = plan.pointer - m
              BY <6>1, <6>2, <6>3
            <6>5. (k - 1) * ItemSize = m
              BY <5>1 DEF m
            <6> QED
              BY <6>3, <6>4, <6>5
          <5>3. Len(defs') - plan'.count + k = Len(defs')
            BY <2>3, <2>5, <2>7, <3>4, <4>1
          <5> QED
            BY <2>4, <2>5, <5>2, <5>3
        <4>2. CASE k # plan.count + 1
          <5>1. k \in 1 .. plan.count
            BY <2>3, <2>7, <3>4, <4>2
          <5>2. /\ plan.pointer - (k - 1) * ItemSize \in Addr
                /\ r + ItemSize <= plan.pointer - (k - 1) * ItemSize
            BY <3>2, <3>3, <3>4, <5>1, <1>1, ItemsInBlock
          <5>3. /\ Len(defs') - plan'.count + k = Len(defs) - plan.count + k
                /\ Len(defs) - plan.count + k \in 1 .. Len(defs)
            <6>1. plan.count <= Len(defs) /\ Len(defs) \in Nat /\ plan.count \in Nat
              BY <2>5, <3>1, <3>4
            <6>2. Len(defs') = Len(defs) + 1 /\ plan'.count = plan.count + 1
              BY <2>3, <2>5, <2>7
            <6> QED
              BY <5>1, <6>1, <6>2
          <5> QED
            BY <2>3, <2>4, <2>5, <2>7, <3>1, <5>1, <5>2, <5>3
        <4> QED
          BY <4>1, <4>2
      <3>6. plan'.count <= Len(defs') /\ Len(defs') # 1
        BY <2>3, <2>5, <2>7, <3>1, <3>4
      <3> QED
        BY <3>5, <3>6 DEF ListInv
    <2> QED
      BY <2>6, <2>7
  <1> QED
    BY <1>2, <1>3

\* Another client allocates below all blocks, and so below the list.
LEMMA OtherAllocList ==
  ASSUME TypeInv, MemoryInv, ListInv, plan.prev # "DEFINE_ATTRIBUTE",
         NEW n \in OtherSizes, OtherAlloc(n)
  PROVE  ListInv'
  <1>1. UNCHANGED <<plan, defs>> /\ cells' = Overwritten(ret', n)
    BY DEF OtherAlloc
  <1>2. ASSUME Len(defs) = 1 PROVE cells'[plan.pointer] = cells[plan.pointer]
    <2>1. plan.pointer \in Addr /\ defs # <<>>
      <3>1. Len(<<>>) = 0
        OBVIOUS
      <3>2. defs # <<>>
        BY <1>2, <3>1
      <3> QED
        BY <1>2, <3>2 DEF ListInv
    <2>2. PICK list \in blive : InList(list)
      BY <2>1 DEF MemoryInv, Listing
    <2>3. /\ ret' + n + IntSize <= list.ptr /\ ret' \in IntSize .. SegSize - n
          /\ list.ptr \in Nat /\ IntSize \in Nat /\ n \in Nat /\ SegSize \in Nat
      BY <2>2, OtherAllocDoes, ExecutorAssumption DEF TypeInv, MemoryTyped, Back!BackOK
    <2>4. ret' + n <= plan.pointer
      BY <2>1, <2>2, <2>3 DEF InList, Addr
    <2> QED
      BY <1>1, <2>1, <2>3, <2>4 DEF Overwritten, Addr
  <1> QED
    BY <1>1, <1>2 DEF ListInv

LEMMA NextList ==
  ASSUME TypeInv, PlanInv, MemoryInv, ListInv, Next
  PROVE  ListInv'
  <1>1. CASE \/ CreateDictionary \/ CloseDictionary \/ BeginSchema \/ Undefined
             \/ Execute \/ (\E b \in others : OtherFree(b))
             \/ \E t \in Tables : DeleteTable(t)
    <2>1. UNCHANGED <<plan, cells, defs>>
      BY <1>1 DEF CreateDictionary, CloseDictionary, BeginSchema, Undefined, Execute,
              OtherFree, DeleteTable
    <2> QED
      BY <2>1, ListStays
  <1>2. CASE EndSchema
    BY <1>2, ListStays DEF EndSchema
  <1>3. CASE FreeList
    BY <1>3 DEF FreeList, PlanInv, ListInv
  <1>4. CASE Nop \/ Halt
    <2>1. /\ UNCHANGED <<cells, defs>> /\ ~Ended
          /\ plan' = NextInstruction(plan) /\ Cur.op \in {"NOP", "HALT"}
      BY <1>4 DEF Nop, Halt, Runs, TypeInv, PlanTyped
    <2>2. /\ plan'.prev # "DEFINE_ATTRIBUTE" /\ plan'.pointer = plan.pointer
          /\ plan'.count = plan.count
      BY <2>1, NextTyped DEF Opcodes, TypeInv, PlanTyped
    <2> QED
      BY <2>1, <2>2, ListStays
  <1>5. CASE (\E p \in Plans : InitExecutable(p)) \/ PowerFailure
    BY <1>5 DEF InitExecutable, PowerFailure, ListInv
  <1> QED
    BY <1>1, <1>2, <1>3, <1>4, <1>5, DefineAttributeList, OtherAllocList
       DEF Next, Steps, Client

\* The list and what it holds.
ListsInv == TypeInv /\ PlanInv /\ MemoryInv /\ ListInv

LEMMA InitLists == Init => ListsInv
  BY InitType, InitPlan, InitMemory, InitList DEF ListsInv

LEMMA NextLists ==
  ASSUME PlansRule, ListsInv, Next
  PROVE  ListsInv'
  BY NextType, NextPlan, NextMemory, NextList DEF ListsInv

LEMMA ListsStay ==
  ASSUME ListsInv, UNCHANGED held
  PROVE  ListsInv'
  <1>1. UNCHANGED <<plan, pc, store, cells, defs, blive, others, clean, kept>>
    BY DEF held
  <1> QED
    BY <1>1, TypeStays, PlanStays, MemoryStays, ListStays DEF Listing, ListsInv

LEMMA SpecLists ==
  ASSUME PlansRule
  PROVE  Spec => []ListsInv
  <1>1. ListsInv /\ [Next]_vars => ListsInv'
    BY NextLists, ListsStay DEF vars, held
  <1> QED
    BY <1>1, InitLists, PTL DEF Spec

\* No execute frees or moves a block of another client of the memory manager, whatever
\* is freed between calls: the address of a list that has been freed is not freed
\* again when plans define attributes for each table they create.
THEOREM OtherBlocksKept == PlansRule => (Spec => []OthersKept)
  <1> SUFFICES ASSUME PlansRule PROVE Spec => []OthersKept
    OBVIOUS
  <1>1. ListsInv => OthersKept
    BY DEF ListsInv, MemoryInv, OthersKept
  <1> QED
    BY <1>1, SpecLists, PTL

LEMMA Returned == ListsInv => MemoryReturned
  BY DEF ListsInv, MemoryInv, MemoryReturned, Listing

\* When all attributes have been made tables of, whatever other clients have
\* allocated and freed, also between the calls of execute of one plan, and nothing
\* has failed, only their blocks are left on the back stack.
THEOREM MemoryGivenBack == PlansRule => (Spec => []MemoryReturned)
  <1> SUFFICES ASSUME PlansRule PROVE Spec => []MemoryReturned
    OBVIOUS
  <1> QED
    BY Returned, SpecLists, PTL

\* While attributes are being defined they lie one below the other in one block of
\* the back stack, each where CREATE_TABLE will look for it: an extension, which
\* writes its size word over what lies below, destroys none of them.
THEOREM ListKept == PlansRule => (Spec => []ListInMemory)
  <1> SUFFICES ASSUME PlansRule PROVE Spec => []ListInMemory
    OBVIOUS
  <1>1. ListsInv => ListInMemory
    BY DEF ListsInv, MemoryInv, ListInv, ListInMemory, ListBlock, Back!Topmost
  <1> QED
    BY <1>1, SpecLists, PTL
------------------------------------------------------------------------------
(***************************************************************************)
(* The dictionaries and the tables.                                        *)
(***************************************************************************)
\* What CREATE_TABLE finds does not change while the list and the plan do not.
LEMMA SameItems ==
  ASSUME UNCHANGED <<plan, cells>>
  PROVE  Items' = Items /\ ValueSize(Items)' = ValueSize(Items)
  <1>1. Items' = Items
    BY DEF Items, ItemAt
  <1> QED
    BY <1>1

\* A list of one attribute is found as it was defined.
LEMMA OneItem ==
  ASSUME TypeInv, ListInv, Len(defs) = 1
  PROVE  Items = defs
  <1>1. /\ plan.count = 1 /\ plan.pointer \in Addr /\ cells[plan.pointer] = defs[1]
    BY DEF ListInv
  <1>2. 1 % Byte = 1 /\ ItemSize \in Nat
    BY ExecutorAssumption, Remainders
  <1>3. /\ Items = [k \in 1 .. 1 |-> ItemAt(plan.pointer + (k - 1) * ItemSize)]
    BY <1>1, <1>2 DEF Items
  <1>4. \A k \in 1 .. 1 : ItemAt(plan.pointer + (k - 1) * ItemSize) = defs[k]
    <2>1. \A k \in 1 .. 1 : k = 1 /\ plan.pointer + (k - 1) * ItemSize = plan.pointer
      BY <1>1, <1>2 DEF Addr
    <2> QED
      BY <1>1, <2>1 DEF ItemAt
  <1>5. defs = [k \in 1 .. 1 |-> defs[k]]
    BY DEF TypeInv, MemoryTyped
  <1> QED
    BY <1>3, <1>4, <1>5

\* What is stored when a schema is stored, damaged or taken away at t.
LEMMA StoredAfter ==
  ASSUME TypeInv, NEW t \in Tables, NEW s, store' = [store EXCEPT ![t] = s]
  PROVE  /\ s \in TableSchema => Stored' = Stored \cup {t} /\ store'[t] = s
         /\ s \in {None, Damaged} => Stored' = Stored \ {t}
         /\ \A u \in Stored \ {t} : store'[u] = store[u]
  BY NoneAssumption DEF TypeInv, StoreTyped, Stored

LEMMA InitDict == Init => DictInv
  <1> SUFFICES ASSUME Init PROVE DictInv
    OBVIOUS
  <1>1. Stored = {} /\ ~Pending /\ pc = "idle"
    BY DEF Init, Stored, Pending
  <1>2. 1 .. Len(dicts) = {}
    BY DEF Init
  <1> QED
    BY <1>1, <1>2 DEF DictInv

\* Steps that leave the medium alone.
LEMMA DictStays ==
  ASSUME DictInv, UNCHANGED <<store, dicts>>, pc' \notin {"close", "schema", "store"},
         clean' => clean /\ ~Pending
  PROVE  DictInv'
  BY DEF DictInv, Stored, Pending

\* A schema is taken away or damaged at a table.
LEMMA DictLess ==
  ASSUME TypeInv, DictInv, NEW t \in Tables, NEW s \in {None, Damaged},
         store' = [store EXCEPT ![t] = s], dicts' = dicts, pc' = "idle", ~clean'
  PROVE  DictInv'
  <1>1. Stored' = Stored \ {t} /\ \A u \in Stored \ {t} : store'[u] = store[u]
    BY StoredAfter
  <1> QED
    BY <1>1 DEF DictInv, Pending

\* A schema that has a dictionary is stored.
LEMMA DictMore ==
  ASSUME TypeInv, DictInv, pc = "store", clean' => clean,
         store' = [store EXCEPT ![making.tbl] = making.of],
         dicts' = dicts, pc' \in {"idle", "free"}
  PROVE  DictInv'
  <1> DEFINE t == making.tbl
  <1>1. t \in Tables /\ making.of \in TableSchema /\ t \notin Stored
    BY DEF TypeInv, StoreTyped, Stored
  <1>2. /\ Stored' = Stored \cup {t} /\ store'[t] = making.of
        /\ \A u \in Stored : store'[u] = store[u]
    BY <1>1, StoredAfter
  <1>3. /\ making.of.id = Len(dicts) /\ dicts[Len(dicts)] = ValueSize(making.of.items)
        /\ Len(dicts) > 0 /\ \A u \in Stored : store[u].id # Len(dicts)
    BY DEF DictInv, Pending
  <1>4. Len(dicts) \in Nat
    BY DEF TypeInv, DictsTyped
  <1>5. ~Pending'
    BY DEF Pending
  <1> HIDE DEF t
  <1>6. /\ \A u \in Stored' : store'[u].id \in 1 .. Len(dicts')
        /\ \A u, v \in Stored' : store'[u].id = store'[v].id => u = v
        /\ \A u \in Stored' : dicts'[store'[u].id] = ValueSize(store'[u].items)
    BY <1>2, <1>3, <1>4 DEF DictInv
  <1>7. clean' => \A i \in 1 .. Len(dicts') : \E u \in Stored' : store'[u].id = i
    BY <1>2, <1>3 DEF DictInv
  <1> QED
    BY <1>5, <1>6, <1>7 DEF DictInv, Pending

LEMMA NextDict ==
  ASSUME TypeInv, ListInv, DictInv, Next
  PROVE  DictInv'
  <1>1. CASE CreateDictionary
    <2>1. CASE Fail("DICTIONARY_NOT_CREATED") /\ UNCHANGED dicts
      BY <1>1, <2>1, DictStays DEF CreateDictionary, Fail, schemas
    <2>2. CASE ~(Fail("DICTIONARY_NOT_CREATED") /\ UNCHANGED dicts)
      <3>1. /\ UNCHANGED <<plan, cells, store, clean>> /\ ~Pending /\ pc' = "close"
            /\ dicts' = Append(dicts, ValueSize(Items))
        BY <1>1, <2>2 DEF CreateDictionary, Runs, schemas, Pending, DictionarySize
      <3>2. /\ Len(dicts') = Len(dicts) + 1 /\ Len(dicts) \in Nat
            /\ \A i \in 1 .. Len(dicts) : dicts'[i] = dicts[i]
            /\ dicts'[Len(dicts')] = ValueSize(Items)
        BY <3>1, OneDictMore
      <3>3. Stored' = Stored /\ ValueSize(Items)' = ValueSize(Items)
        BY <3>1, SameItems DEF Stored
      <3>4. /\ \A t \in Stored : store[t].id \in 1 .. Len(dicts)
            /\ \A t \in Stored : dicts[store[t].id] = ValueSize(store[t].items)
            /\ \A t, u \in Stored : store[t].id = store[u].id => t = u
            /\ clean => \A i \in 1 .. Len(dicts) : \E t \in Stored : store[t].id = i
        BY <3>1 DEF DictInv
      <3> QED
        BY <3>1, <3>2, <3>3, <3>4 DEF DictInv, Pending
    <2> QED
      BY <2>1, <2>2
  <1>2. CASE CloseDictionary
    <2>1. CASE Fail("DICTIONARY_NOT_CLOSED")
      BY <1>2, <2>1, DictStays DEF CloseDictionary, Fail, schemas
    <2>2. CASE ~Fail("DICTIONARY_NOT_CLOSED")
      <3>1. /\ UNCHANGED <<plan, cells, store, dicts, clean>> /\ pc = "close"
            /\ pc' = "schema"
        BY <1>2, <2>2 DEF CloseDictionary, schemas
      <3>2. Stored' = Stored /\ ValueSize(Items)' = ValueSize(Items)
        BY <3>1, SameItems DEF Stored
      <3> QED
        BY <3>1, <3>2 DEF DictInv, Pending
    <2> QED
      BY <2>1, <2>2
  <1>3. CASE BeginSchema
    <2>1. CASE Store!RefuseCreate(Cur.arg) /\ Fail("TABLE_ALREADY_EXISTS")
      BY <1>3, <2>1, DictStays DEF BeginSchema, Fail, Store!RefuseCreate
    <2>2. CASE ~(Store!RefuseCreate(Cur.arg) /\ Fail("TABLE_ALREADY_EXISTS"))
      <3>1. /\ UNCHANGED <<store, dicts, defs, clean>> /\ pc = "schema" /\ pc' = "store"
            /\ making' = [tbl |-> Cur.arg, of |-> [id |-> IdOf, items |-> Items]]
        BY <1>3, <2>2 DEF BeginSchema, Store!BeginCreate
      <3>2. making'.of.items = Items /\ making'.of.id = Len(dicts)
        BY <3>1 DEF IdOf
      <3>3. Len(defs) = 1 => Items = defs
        BY OneItem
      <3>4. Stored' = Stored
        BY <3>1 DEF Stored
      <3> QED
        BY <3>1, <3>2, <3>3, <3>4 DEF DictInv, Pending
    <2> QED
      BY <2>1, <2>2
  <1>4. CASE EndSchema
    <2>1. /\ pc = "store" /\ dicts' = dicts /\ making.tbl \in Tables
          /\ \/ /\ store' = [store EXCEPT ![making.tbl] = Damaged]
                /\ pc' = "idle" /\ clean' = FALSE
             \/ /\ store' = [store EXCEPT ![making.tbl] = making.of]
                /\ pc' \in {"idle", "free"} /\ (clean' => clean)
      BY <1>4 DEF EndSchema, Fail, Store!EndCreate, TypeInv, StoreTyped
    <2> QED
      BY <2>1, DictLess, DictMore
  <1>5. CASE PowerFailure
    <2>1. /\ dicts' = dicts /\ pc' = "idle" /\ clean' = FALSE
          /\ IF making = None
               THEN UNCHANGED store
               ELSE \E left \in {None, Damaged, making.of} :
                      store' = [store EXCEPT ![making.tbl] = left]
      BY <1>5 DEF PowerFailure, Store!PowerFailure
    <2>2. CASE making = None
      BY <2>1, <2>2, DictStays
    <2>3. CASE making # None
      <3>1. pc = "store" /\ making.tbl \in Tables
        BY <2>3 DEF TypeInv, StoreTyped
      <3> QED
        BY <2>1, <2>3, <3>1, DictLess, DictMore
    <2> QED
      BY <2>2, <2>3
  <1>6. ASSUME NEW t \in Tables, DeleteTable(t) PROVE DictInv'
    <2>1. /\ dicts' = dicts /\ pc = "idle" /\ pc' = "idle" /\ clean' = FALSE
          /\ store' = [store EXCEPT ![t] = None] \/ store' = store
      BY <1>6 DEF DeleteTable, Store!Delete
    <2> QED
      BY <2>1, DictLess, DictStays
  <1>7. CASE DefineAttribute \/ Nop \/ Halt \/ Undefined \/ FreeList
    <2>1. /\ UNCHANGED <<store, dicts>> /\ pc \in {"run", "free"}
          /\ pc' \in {"run", "idle"} /\ (clean' => clean)
      BY <1>7 DEF DefineAttribute, Nop, Halt, Undefined, FreeList, Runs, Fail, Stopped, schemas
    <2> QED
      BY <2>1, DictStays DEF Pending
  <1>8. CASE \/ Execute \/ (\E p \in Plans : InitExecutable(p))
             \/ (\E n \in OtherSizes : OtherAlloc(n)) \/ \E b \in others : OtherFree(b)
    <2>1. /\ UNCHANGED <<store, dicts, clean>> /\ pc = "idle" /\ pc' \in {"run", "idle"}
      BY <1>8 DEF Execute, InitExecutable, OtherAlloc, OtherFree, schemas
    <2> QED
      BY <2>1, DictStays DEF Pending
  <1> QED
    BY <1>1, <1>2, <1>3, <1>4, <1>5, <1>6, <1>7, <1>8 DEF Next, Steps, Client

\* The lists and what is made of them.
AllInv == ListsInv /\ DictInv

LEMMA InitAll == Init => AllInv
  BY InitLists, InitDict DEF AllInv

LEMMA NextAll ==
  ASSUME PlansRule, AllInv, Next
  PROVE  AllInv'
  BY NextLists, NextDict DEF AllInv, ListsInv

LEMMA AllStays ==
  ASSUME AllInv, UNCHANGED held
  PROVE  AllInv'
  <1>1. ListsInv'
    BY ListsStay DEF AllInv
  <1>2. /\ UNCHANGED <<plan, pc, cells, dicts, store, making, defs, clean>>
        /\ Stored' = Stored /\ ValueSize(Items)' = ValueSize(Items)
    BY SameItems DEF held, Stored
  <1>3. DictInv'
    BY <1>2 DEF AllInv, DictInv, Pending
  <1> QED
    BY <1>1, <1>3 DEF AllInv

LEMMA SpecInv ==
  ASSUME PlansRule
  PROVE  Spec => []AllInv
  <1>1. AllInv /\ [Next]_vars => AllInv'
    BY NextAll, AllStays DEF vars, held
  <1> QED
    BY <1>1, InitAll, PTL DEF Spec

\* Every schema on the medium has the dictionary its id names to itself, and no
\* dictionary is left over unless something has failed or a table was deleted: in
\* whatever order plans are paused, resumed, retried and cut off by power failures.
THEOREM EachTableItsDictionary == PlansRule => (Spec => []DictionariesOwned)
  <1> SUFFICES ASSUME PlansRule PROVE Spec => []DictionariesOwned
    OBVIOUS
  <1>1. AllInv => DictionariesOwned
    <2> SUFFICES ASSUME AllInv PROVE DictionariesOwned
      OBVIOUS
    <2>1. /\ \A t \in Stored : store[t].id \in 1 .. Len(dicts)
          /\ \A t, u \in Stored : store[t].id = store[u].id => t = u
          /\ clean /\ pc = "idle" =>
               \A i \in 1 .. Len(dicts) : \E t \in Stored : store[t].id = i
      BY DEF AllInv, DictInv, Pending
    <2> QED
      BY <2>1 DEF DictionariesOwned
  <1> QED
    BY <1>1, SpecInv, PTL

\* The values of a table's dictionary are as long as the attributes of its schema:
\* CREATE_TABLE reads the list twice and finds the same.
THEOREM ValuesFit == PlansRule => (Spec => []DictionaryFits)
  <1> SUFFICES ASSUME PlansRule PROVE Spec => []DictionaryFits
    OBVIOUS
  <1>1. AllInv => DictionaryFits
    BY DEF AllInv, DictInv, DictionaryFits
  <1> QED
    BY <1>1, SpecInv, PTL

\* A table of one attribute is stored with that attribute, whatever other clients of
\* the memory manager did since it was defined.
THEOREM StoredAsDefined == PlansRule => (Spec => StoredIsDefined)
  <1> SUFFICES ASSUME PlansRule PROVE Spec => StoredIsDefined
    OBVIOUS
  <1>1. AllInv /\ [Next]_vars =>
          [EndSchema /\ res' = "OK" /\ Len(defs) = 1 => store'[Cur.arg].items = defs]_vars
    <2> SUFFICES ASSUME AllInv, EndSchema, res' = "OK", Len(defs) = 1
                 PROVE  store'[Cur.arg].items = defs
      OBVIOUS
    <2>1. /\ making.tbl = Cur.arg /\ Cur.arg \in Tables /\ making.of.items = defs
      BY DEF AllInv, ListsInv, TypeInv, StoreTyped, DictInv, EndSchema
    <2>2. store' = [store EXCEPT ![making.tbl] = making.of]
      BY DEF EndSchema, Store!EndCreate
    <2> QED
      BY <2>1, <2>2 DEF AllInv, ListsInv, TypeInv, StoreTyped
  <1> QED
    BY <1>1, SpecInv, PTL DEF Spec, StoredIsDefined
=============================================================================
