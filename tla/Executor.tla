------------------------------ MODULE Executor -------------------------------
(***************************************************************************)
(* The virtual machine executor of src/src/vme.c: it runs the instructions *)
(* of a plan until one of them stops it or fails.  It keeps the attributes *)
(* that are being defined as a list in the back stack of a memory manager, *)
(* as TwoStacks describes it, stores schemas as SchemaStore describes it,  *)
(* and makes dictionaries in the master table of IonDB, which is external. *)
(*                                                                         *)
(* CREATE_TABLE is several steps (pc), between which the power can fail.   *)
(* The client acts only while no execute is running: it executes again,    *)
(* abandons the plan for another one, deletes a table, or uses the memory  *)
(* manager.                                                                *)
(***************************************************************************)
EXTENDS Integers, Sequences

CONSTANTS
  SegSize,    \* bytes in the segment of the memory manager
  IntSize,    \* sizeof(db_int)
  ItemSize,   \* sizeof(ion_table_schema_item_t)
  Byte,       \* the values of a uint8_t: 256
  Plans,      \* the plans, as sequences of [op, arg]: arg is the name of the
              \* table, or the attribute as [name, type, size]
  Tables,     \* the names of tables
  MaxDicts,   \* the dictionaries that fit on the medium
  OtherSizes, \* the sizes other clients of the memory manager ask for
  None, Damaged, Junk     \* no value; half a schema; memory nobody wrote

Opcodes == {"DEFINE_ATTRIBUTE", "CREATE_TABLE", "HALT", "NOP"}

\* An instruction with the parameters it uses: any other opcode is undefined.
IsInstruction(i) ==
  \/ i.op = "DEFINE_ATTRIBUTE" /\ i.arg \in [name : STRING, type : Nat, size : Nat]
  \/ i.op = "CREATE_TABLE" /\ i.arg \in Tables
  \/ i.op \in {"HALT", "NOP", "UNDEFINED"}

ASSUME ExecutorAssumption ==
  /\ SegSize \in Nat \ {0} /\ IntSize \in Nat \ {0} /\ ItemSize \in Nat \ {0}
  /\ Byte \in Nat \ {0, 1} /\ MaxDicts \in Nat /\ OtherSizes \subseteq Nat
  /\ \A p \in Plans :
       /\ Len(p) \in 1 .. Byte /\ p[Len(p)].op \in {"HALT", "UNDEFINED"}
       /\ \A k \in 1 .. Len(p) : IsInstruction(p[k])

\* ion_table_schema_item_t
Item == [name : STRING, type : 0 .. Byte - 1, size : 0 .. Byte - 1]

\* The schemas CREATE_TABLE makes; what stands for no schema is none of them.
TableSchema == [id : Nat, items : Seq(Item \cup {Junk})]
ASSUME NoneAssumption ==
  None # Damaged /\ None \notin TableSchema /\ Damaged \notin TableSchema
    /\ None \notin [tbl : Tables, of : TableSchema]

VARIABLES
  plan,       \* ion_table_executable_t: code, idx, prev, count, pointer
  pc,         \* "idle", "run", or where CREATE_TABLE is
  status,     \* the error of the status execute returned
  cells,      \* the attribute that is stored at each address of the segment
  dicts,      \* the size of the values of each dictionary: the ids are its indices
  store, making, res,   \* the schema store (SchemaStore)
  blive, ret, call,     \* the back stack of the memory manager (TwoStacks)
  others,     \* the blocks of its other clients
  defs,       \* the attributes defined since the last table was created
  clean,      \* nothing has failed and no table was deleted
  kept        \* no attributes have been given up: a list that another instruction
              \* follows is made a table before a new list or plan is begun

schemas == <<store, making, res>>
memory == <<blive, ret, call>>
vars == <<plan, pc, status, cells, dicts, store, making, res, blive, ret, call,
          others, defs, clean, kept>>

Memory == INSTANCE TwoStacks
  WITH flive <- {}, PtrSize <- IntSize, Requests <- OtherSizes
Store == INSTANCE SchemaStore WITH Schemas <- TableSchema, loaded <- None
NULL == Memory!NULL
Addr == 0 .. SegSize - 1

Executable ==
  [code : Plans, idx : 0 .. Byte - 1, prev : Opcodes, count : Nat,
   pointer : Addr \cup {NULL}]
------------------------------------------------------------------------------
(***************************************************************************)
(* Memory: what lies at an address after a block with its size word has    *)
(* been placed at ptr.                                                     *)
(***************************************************************************)
Overwritten(ptr, size) ==
  [a \in Addr |-> IF ptr - IntSize - ItemSize < a /\ a < ptr + size
                    THEN Junk ELSE cells[a]]

ItemAt(a) == IF a \in Addr THEN cells[a] ELSE Junk

\* The items CREATE_TABLE finds, count of them from plan->pointer up.
Items ==
  [k \in 1 .. plan.count % Byte |-> ItemAt(plan.pointer + (k - 1) * ItemSize)]

Bfree(p) ==
  \/ \E b \in blive : b.ptr = p /\ Memory!BFree(b)
  \/ Memory!BFreeNotHeld(p)
------------------------------------------------------------------------------
(***************************************************************************)
(* The loop of ion_table_execute: an instruction that fails returns, and   *)
(* is the next one to be executed; any other is followed by the next.      *)
(***************************************************************************)
Cur == plan.code[plan.idx + 1]
Runs(op) == pc = "run" /\ Cur.op = op

NextInstructionStays(p) == [p EXCEPT !.prev = Cur.op]     \* mutant: no increment
NextInstruction(p) == [p EXCEPT !.prev = Cur.op, !.idx = (@ + 1) % Byte]

StoppedNot == "run"                             \* mutant: stop is not looked at
Stopped == "idle"

Fail(error) == pc' = "idle" /\ status' = error /\ clean' = FALSE

ion_table_init_executable(p) ==
  [code |-> p, idx |-> 0, prev |-> "NOP", count |-> 0, pointer |-> NULL]

\* The item that is made of the parameters of DEFINE_ATTRIBUTE.
ItemOf(arg) ==
  [name |-> arg.name, type |-> arg.type % Byte, size |-> arg.size % Byte]

\* DEFINE_ATTRIBUTE: an attribute right after another extends the list, any other
\* starts a new one.
ListCallAlways == Memory!BAlloc(ItemSize)       \* mutant: a block per attribute
ListCallExtends == Memory!BExtend(ItemSize)     \* mutant: extends whatever is there
ListCall ==
  IF plan.prev = "DEFINE_ATTRIBUTE" THEN Memory!BExtend(ItemSize)
                                    ELSE Memory!BAlloc(ItemSize)

ListedLate(ptr) ==                              \* mutant: counts from 0
  [plan EXCEPT !.count = IF plan.prev = "DEFINE_ATTRIBUTE" THEN @ + 1 ELSE 0,
               !.pointer = IF plan.prev = "DEFINE_ATTRIBUTE" THEN @ ELSE ptr]
Listed(ptr) ==
  IF plan.prev = "DEFINE_ATTRIBUTE"
    THEN [plan EXCEPT !.count = @ + 1]
    ELSE [plan EXCEPT !.count = 1, !.pointer = ptr]

DefineAttribute ==
  /\ Runs("DEFINE_ATTRIBUTE")
  /\ ListCall
  /\ \/ ret' = NULL /\ Fail("OUT_OF_MEMORY") /\ UNCHANGED <<plan, cells, defs, kept>>
     \/ /\ ret' # NULL
        /\ plan' = NextInstruction(Listed(ret'))
        /\ cells' = [Overwritten(ret', ItemSize) EXCEPT ![ret'] = ItemOf(Cur.arg)]
        /\ defs' = Append(defs, ItemOf(Cur.arg))
        /\ kept' = (kept /\ (plan.prev = "DEFINE_ATTRIBUTE" \/ defs = <<>>))
        /\ UNCHANGED <<pc, status, clean>>
  /\ UNCHANGED <<dicts, schemas, others>>

\* The sum of the sizes of the attributes.
ValueSize(items) ==
  LET sum[k \in 0 .. Len(items)] == IF k = 0 THEN 0 ELSE sum[k - 1] + items[k].size IN
  IF Junk \in {items[k] : k \in DOMAIN items} THEN Junk ELSE sum[Len(items)]

DictionarySizeButFirst ==                       \* mutant: i = 1
  ValueSize(SubSeq(Items, 2, Len(Items)))
DictionarySize == ValueSize(Items)

\* CREATE_TABLE, the master table: it and its dictionaries may fail to be made, and
\* a dictionary to be closed.
CreateDictionary ==
  /\ Runs("CREATE_TABLE")
  /\ \/ Fail("DICTIONARY_NOT_CREATED") /\ UNCHANGED dicts
     \/ /\ Len(dicts) < MaxDicts /\ dicts' = Append(dicts, DictionarySize)
        /\ pc' = "close" /\ UNCHANGED <<status, clean>>
  /\ UNCHANGED <<plan, cells, schemas, memory, others, defs, kept>>

CloseDictionary ==
  /\ pc = "close"
  /\ \/ Fail("DICTIONARY_NOT_CLOSED")
     \/ pc' = "schema" /\ UNCHANGED <<status, clean>>
  /\ UNCHANGED <<plan, cells, dicts, schemas, memory, others, defs, kept>>

\* CREATE_TABLE, the schema.  Every error of the schema store is answered as
\* TABLE_ALREADY_EXISTS.
IdOfFirst == 1                                  \* mutant: the same id for all
IdOf == Len(dicts)

BeginSchema ==
  /\ pc = "schema"
  /\ \/ Store!RefuseCreate(Cur.arg) /\ Fail("TABLE_ALREADY_EXISTS")
     \/ /\ Store!BeginCreate(Cur.arg, [id |-> IdOf, items |-> Items])
        /\ pc' = "store" /\ UNCHANGED <<status, clean>>
  /\ UNCHANGED <<plan, cells, dicts, memory, others, defs, kept>>

EndSchema ==
  /\ pc = "store" /\ Store!EndCreate
  /\ \/ res' # "OK" /\ Fail("TABLE_ALREADY_EXISTS") /\ UNCHANGED defs
     \/ res' = "OK" /\ pc' = "free" /\ defs' = <<>> /\ UNCHANGED <<status, clean>>
  /\ UNCHANGED <<plan, cells, dicts, memory, others, kept>>

\* CREATE_TABLE, the list: pointer and count stay as they are.  Inside a block,
\* bfree takes the end of the item below p for a size word and flags it.
FlaggedAt(p) ==
  LET inside == {b \in blive : b.ptr < p /\ p < b.ptr + b.size} IN
  {cells} \cup {[cells EXCEPT ![p - ItemSize] = Junk] : b \in inside}

FreeListSkipped ==                              \* mutant: no free
  /\ pc = "free" /\ pc' = "run" /\ plan' = NextInstruction(plan)
  /\ UNCHANGED <<status, cells, dicts, schemas, memory, others, defs, clean, kept>>
FreeList ==
  /\ pc = "free"
  /\ Bfree(plan.pointer)
  /\ \/ ret' # 1 /\ Fail("FAILED_TO_FREE_MEMORY") /\ UNCHANGED plan
        /\ cells' \in FlaggedAt(plan.pointer)
     \/ /\ ret' = 1 /\ pc' = "run" /\ plan' = NextInstruction(plan)
        /\ UNCHANGED <<status, cells, clean>>
  /\ UNCHANGED <<dicts, schemas, others, defs, kept>>

Nop ==
  /\ Runs("NOP") /\ plan' = NextInstruction(plan)
  /\ UNCHANGED <<pc, status, cells, dicts, schemas, memory, others, defs, clean, kept>>

Halt ==
  /\ Runs("HALT") /\ plan' = NextInstruction(plan)
  /\ pc' = Stopped /\ status' = "OK"
  /\ UNCHANGED <<cells, dicts, schemas, memory, others, defs, clean, kept>>

Undefined ==
  /\ Runs("UNDEFINED") /\ Fail("UNDEFINED_OPCODE")
  /\ UNCHANGED <<plan, cells, dicts, schemas, memory, others, defs, kept>>
------------------------------------------------------------------------------
(***************************************************************************)
(* The client.  It never executes beyond the end of its plan, where there  *)
(* are no instructions, and does not allocate while the list may still be  *)
(* extended: bextend would extend the client's block.  ListRule: it does   *)
(* not go on with a CREATE_TABLE whose list has been used already, unless  *)
(* the table is there and refused: the list would be used and freed again. *)
(***************************************************************************)
Ended == plan.idx = Len(plan.code)

\* The rule a client follows when it writes a plan, "given that the schema is
\* defined": before every CREATE_TABLE, and after the one before it, it defines an
\* attribute.
TablesRule(p) ==
  \A k \in 1 .. Len(p), i \in 0 .. Len(p) :
    /\ p[k].op = "CREATE_TABLE" /\ i < k /\ (i > 0 => p[i].op = "CREATE_TABLE")
    => \E j \in i + 1 .. k : p[j].op = "DEFINE_ATTRIBUTE"
PlansRule == \A p \in Plans : TablesRule(p)

InitExecutable(p) ==
  /\ pc = "idle"
  /\ plan' = ion_table_init_executable(p)
  /\ kept' = (kept /\ defs = <<>>) /\ defs' = <<>>
  /\ UNCHANGED <<pc, status, cells, dicts, schemas, memory, others, clean>>

ListRule == Cur.op = "CREATE_TABLE" /\ defs = <<>> => store[Cur.arg] # None

Execute ==
  /\ pc = "idle" /\ ~Ended
  /\ pc' = "run"
  /\ UNCHANGED <<plan, status, cells, dicts, schemas, memory, others, defs, clean, kept>>

OtherAlloc(n) ==
  /\ pc = "idle"
  /\ Memory!BAlloc(n) /\ ret' # NULL
  /\ others' = others \cup (blive' \ blive) /\ cells' = Overwritten(ret', n)
  /\ UNCHANGED <<plan, pc, status, dicts, schemas, defs, clean, kept>>

OtherFree(b) ==
  /\ pc = "idle"
  /\ Memory!BFree(b) /\ others' = others \ (blive \ blive')
  /\ UNCHANGED <<plan, pc, status, cells, dicts, schemas, defs, clean, kept>>

\* A table is deleted: its dictionary stays.
DeleteTable(t) ==
  /\ pc = "idle"
  /\ Store!Delete(t) /\ clean' = FALSE
  /\ UNCHANGED <<plan, pc, status, cells, dicts, memory, others, defs, kept>>

\* The power fails: what is on the medium stays.
PowerFailure ==
  /\ Store!PowerFailure
  /\ \E p \in Plans : plan' = ion_table_init_executable(p)
  /\ pc' = "idle" /\ status' = "STATUS_UNINITIALIZED"
  /\ cells' = [a \in Addr |-> Junk]
  /\ blive' = {} /\ ret' = 1 /\ call' = <<"init", SegSize>> /\ others' = {}
  /\ defs' = <<>> /\ clean' = FALSE /\ kept' = TRUE
  /\ UNCHANGED dicts

Init ==
  /\ \E p \in Plans : plan = ion_table_init_executable(p)
  /\ pc = "idle" /\ status = "STATUS_UNINITIALIZED"
  /\ cells = [a \in Addr |-> Junk] /\ dicts = <<>>
  /\ store = [t \in Tables |-> None] /\ making = None /\ res = "none"
  /\ blive = {} /\ ret = 1 /\ call = <<"init", SegSize>>
  /\ others = {} /\ defs = <<>> /\ clean = TRUE /\ kept = TRUE

Steps ==
  \/ DefineAttribute \/ Nop \/ Halt \/ Undefined
  \/ CreateDictionary \/ CloseDictionary \/ BeginSchema \/ EndSchema \/ FreeList

Client ==
  \/ ~Ended /\ ListRule /\ Execute
  \/ \E p \in Plans : InitExecutable(p)
  \/ plan.prev # "DEFINE_ATTRIBUTE" /\ \E n \in OtherSizes : OtherAlloc(n)
  \/ \E b \in others : OtherFree(b)
  \/ \E t \in Tables : DeleteTable(t)

Next == Steps \/ Client \/ PowerFailure

Spec == Init /\ [][Next]_vars /\ WF_vars(Steps)
------------------------------------------------------------------------------
(***************************************************************************)
(* Properties.                                                             *)
(***************************************************************************)
\* The index stays inside the plan between calls and while an instruction runs;
\* a schema is being made exactly while CREATE_TABLE waits for it.
TypeOK ==
  /\ plan \in Executable /\ plan.idx <= Len(plan.code)
  /\ pc \in {"idle", "run", "close", "schema", "store", "free"}
  /\ pc # "idle" => ~Ended
  /\ (pc = "store") <=> (making # None)
  /\ Len(dicts) \in 0 .. MaxDicts

\* No instruction of a plan frees or moves a block of another client.
OthersKept == others \subseteq blive

\* While attributes are being defined, and until a table is made of them, they lie
\* in one block of the back stack, each below the one before it, whatever the list
\* has been extended by.
ListInMemory ==
  plan.prev = "DEFINE_ATTRIBUTE" /\ defs # <<>> =>
    /\ [ptr |-> plan.pointer - (plan.count - 1) * ItemSize,
        size |-> plan.count * ItemSize] \in blive \ others
    /\ \A k \in 1 .. plan.count :
         cells[plan.pointer - (k - 1) * ItemSize] = defs[Len(defs) - plan.count + k]

\* A table of one attribute is created with the attribute that was defined for it,
\* whether the plan was paused, resumed or retried in between.
StoredIsDefined ==
  [][EndSchema /\ res' = "OK" /\ Len(defs) = 1 => store'[Cur.arg].items = defs]_vars

\* Every schema on the medium has a dictionary of its own, also after the power
\* has failed; and no dictionary is left without a table unless something failed.
Stored == {t \in Tables : store[t] \notin {None, Damaged}}
DictionariesOwned ==
  /\ \A t \in Stored : store[t].id \in 1 .. Len(dicts)
  /\ \A t, u \in Stored : store[t].id = store[u].id => t = u
  /\ clean /\ pc = "idle" => {store[t].id : t \in Stored} = 1 .. Len(dicts)

\* The values of a table's dictionary have room for its attributes: the list has
\* not changed between the creation of the dictionary and that of the schema.
DictionaryFits ==
  \A t \in Stored : dicts[store[t].id] = ValueSize(store[t].items)

\* Whenever an execute returns, at the end of a plan or at a pause, and tables have
\* been made of all attributes, the plans have given back their memory.
MemoryReturned ==
  pc = "idle" /\ clean /\ kept /\ defs = <<>> => blive = others

\* Every execute returns.
ExecuteReturns == pc # "idle" ~> pc = "idle"
==============================================================================
