--------------------------- MODULE TableLayerProofs ---------------------------
(***************************************************************************)
(* The theorems about TableLayer: it implements both of its components,    *)
(* and what its own properties say of the two together.                    *)
(*                                                                         *)
(* The proofs use the theorems about Schema and Executor.  SP and EP are   *)
(* the modules that hold them, with the substitutions of S and E; that     *)
(* their definitions are those of S and E is the first section.            *)
(***************************************************************************)
EXTENDS TableLayer, TLAPS

SP == INSTANCE SchemaRefinement
  WITH pc <- spc, status <- sstatus, clean <- sclean, others <- lists,
       OtherSizes <- {ItemSize}
EP == INSTANCE ExecutorProofs
  WITH store <- S!Stored, making <- S!Making, res <- answer, others <- loads,
       OtherSizes <- {TableLen[t] : t \in Tables} \cup {ItemSize}
------------------------------------------------------------------------------
(***************************************************************************)
(* S and SP, E and EP, definition by definition.  There is one memory      *)
(* manager.                                                                *)
(***************************************************************************)
LEMMA SameMemory ==
  /\ \A n : /\ S!Memory!BAlloc(n) <=> SP!Memory!BAlloc(n)
            /\ E!Memory!BAlloc(n) <=> SP!Memory!BAlloc(n)
            /\ EP!Memory!BAlloc(n) <=> SP!Memory!BAlloc(n)
            /\ EP!Memory!BExtend(n) <=> E!Memory!BExtend(n)
  /\ \A b : /\ S!Memory!BFree(b) <=> SP!Memory!BFree(b)
            /\ E!Memory!BFree(b) <=> SP!Memory!BFree(b)
            /\ EP!Memory!BFree(b) <=> SP!Memory!BFree(b)
  /\ \A p : /\ S!Memory!BFreeNotHeld(p) <=> SP!Memory!BFreeNotHeld(p)
            /\ E!Memory!BFreeNotHeld(p) <=> SP!Memory!BFreeNotHeld(p)
            /\ EP!Memory!BFreeNotHeld(p) <=> SP!Memory!BFreeNotHeld(p)
  /\ S!NULL = -1 /\ SP!NULL = -1 /\ E!NULL = -1 /\ EP!NULL = -1
  <1>1. \A b : /\ S!Memory!FEnd(b) = SP!Memory!FEnd(b)
               /\ E!Memory!FEnd(b) = SP!Memory!FEnd(b)
               /\ EP!Memory!FEnd(b) = SP!Memory!FEnd(b)
               /\ S!Memory!BStart(b) = SP!Memory!BStart(b)
               /\ E!Memory!BStart(b) = SP!Memory!BStart(b)
               /\ EP!Memory!BStart(b) = SP!Memory!BStart(b)
    BY DEF S!Memory!FEnd, SP!Memory!FEnd, E!Memory!FEnd, EP!Memory!FEnd,
           S!Memory!BStart, SP!Memory!BStart, E!Memory!BStart, EP!Memory!BStart
  <1>2. /\ S!Memory!FTop = SP!Memory!FTop /\ E!Memory!FTop = SP!Memory!FTop
        /\ EP!Memory!FTop = SP!Memory!FTop
    BY DEF S!Memory!FTop, SP!Memory!FTop, E!Memory!FTop, EP!Memory!FTop,
           S!Memory!FEnd, SP!Memory!FEnd, E!Memory!FEnd, EP!Memory!FEnd
  <1>3. /\ S!Memory!BTop = SP!Memory!BTop /\ E!Memory!BTop = SP!Memory!BTop
        /\ EP!Memory!BTop = SP!Memory!BTop
    BY DEF S!Memory!BTop, SP!Memory!BTop, E!Memory!BTop, EP!Memory!BTop,
           S!Memory!BStart, SP!Memory!BStart, E!Memory!BStart, EP!Memory!BStart
  <1>4. S!NULL = -1 /\ SP!NULL = -1 /\ E!NULL = -1 /\ EP!NULL = -1
    BY DEF S!NULL, SP!NULL, E!NULL, EP!NULL, S!Memory!NULL, SP!Memory!NULL, E!Memory!NULL,
           EP!Memory!NULL
  <1>5. \A n : /\ S!Memory!BAlloc(n) <=> SP!Memory!BAlloc(n)
               /\ E!Memory!BAlloc(n) <=> SP!Memory!BAlloc(n)
               /\ EP!Memory!BAlloc(n) <=> SP!Memory!BAlloc(n)
    BY <1>1, <1>2, <1>3 DEF S!Memory!BAlloc, SP!Memory!BAlloc, E!Memory!BAlloc,
       EP!Memory!BAlloc, S!Memory!NULL, SP!Memory!NULL, E!Memory!NULL, EP!Memory!NULL
  <1>6. \A n : EP!Memory!BExtend(n) <=> E!Memory!BExtend(n)
    BY <1>1, <1>2, <1>3 DEF E!Memory!BExtend, EP!Memory!BExtend, E!Memory!NULL,
       EP!Memory!NULL
  <1>7. \A b : /\ S!Memory!BFree(b) <=> SP!Memory!BFree(b)
               /\ E!Memory!BFree(b) <=> SP!Memory!BFree(b)
               /\ EP!Memory!BFree(b) <=> SP!Memory!BFree(b)
    BY <1>1, <1>3 DEF S!Memory!BFree, SP!Memory!BFree, E!Memory!BFree, EP!Memory!BFree
  <1>8. \A p : /\ S!Memory!BFreeNotHeld(p) <=> SP!Memory!BFreeNotHeld(p)
               /\ E!Memory!BFreeNotHeld(p) <=> SP!Memory!BFreeNotHeld(p)
               /\ EP!Memory!BFreeNotHeld(p) <=> SP!Memory!BFreeNotHeld(p)
    BY DEF S!Memory!BFreeNotHeld, SP!Memory!BFreeNotHeld, E!Memory!BFreeNotHeld,
       EP!Memory!BFreeNotHeld
  <1> QED
    BY <1>4, <1>5, <1>6, <1>7, <1>8

LEMMA SameSchemas ==
  /\ S!FileOf = SP!FileOf
  /\ S!SchemaAssumption <=> SP!SchemaAssumption
  /\ S!NoneAssumption <=> SP!NoneAssumption
  /\ \A t, s : S!NamesRule(t, s) <=> SP!NamesRule(t, s)
  /\ S!Stored = SP!Stored
  /\ S!Stored' = SP!Stored'
  /\ S!Making = SP!Making
  /\ S!Making' = SP!Making'
  /\ S!Init <=> SP!Init
  /\ S!PowerFailure <=> SP!PowerFailure
  /\ \A t, s : S!CreateOpen(t, s) <=> SP!CreateOpen(t, s)
  /\ S!CreateWrite <=> SP!CreateWrite
  /\ S!CreateClose <=> SP!CreateClose
  /\ \A t : S!LoadOpen(t) <=> SP!LoadOpen(t)
  /\ S!LoadHead <=> SP!LoadHead
  /\ S!LoadItem <=> SP!LoadItem
  /\ S!LoadClose <=> SP!LoadClose
  /\ S!FreeNames <=> SP!FreeNames
  /\ S!FreeName <=> SP!FreeName
  /\ S!FreeItems <=> SP!FreeItems
  /\ \A t : S!Delete(t) <=> SP!Delete(t)
  /\ \A n : S!OtherAlloc(n) <=> SP!OtherAlloc(n)
  /\ \A b : S!OtherFree(b) <=> SP!OtherFree(b)
  /\ S!NothingLost <=> SP!NothingLost
  <1>1. S!FileOf = SP!FileOf
    BY DEF S!FileOf, SP!FileOf, S!Serial, SP!Serial, S!ItemField, SP!ItemField,
       S!NameBytes, SP!NameBytes
  <1>2. /\ S!SchemaAssumption <=> SP!SchemaAssumption
        /\ S!NoneAssumption <=> SP!NoneAssumption
    BY <1>1, SameMemory DEF S!SchemaAssumption, SP!SchemaAssumption, S!Attributes,
       SP!Attributes, S!NoneAssumption, SP!NoneAssumption, S!Prefixes, SP!Prefixes,
       S!Loaded, SP!Loaded
  <1>3. \A t, s : S!NamesRule(t, s) <=> SP!NamesRule(t, s)
    BY DEF S!NamesRule, SP!NamesRule, S!NameBytes, SP!NameBytes
  <1>4. /\ S!Stored = SP!Stored
        /\ S!Stored' = SP!Stored'
        /\ S!Making = SP!Making
        /\ S!Making' = SP!Making'
    BY <1>1 DEF S!Stored, SP!Stored, S!Creating, SP!Creating, S!SchemaIn, SP!SchemaIn,
       S!Making, SP!Making
  <1>5. /\ S!Init <=> SP!Init
        /\ S!PowerFailure <=> SP!PowerFailure
    BY DEF S!Init, SP!Init, S!PowerFailure, SP!PowerFailure, S!Prefixes, SP!Prefixes,
       S!File, SP!File, S!SetFile, SP!SetFile, S!Return, SP!Return
  <1>6. \A t, s : S!CreateOpen(t, s) <=> SP!CreateOpen(t, s)
    BY DEF S!CreateOpen, SP!CreateOpen, S!CanRead, SP!CanRead, S!Return, SP!Return,
       S!ProbeCloses, SP!ProbeCloses, S!MayFailToRead, SP!MayFailToRead, S!disk,
       SP!disk, S!memory, SP!memory
  <1>7. /\ S!CreateWrite <=> SP!CreateWrite
        /\ S!CreateClose <=> SP!CreateClose
    BY <1>1 DEF S!CreateWrite, SP!CreateWrite, S!File, SP!File, S!SetFile, SP!SetFile,
       S!Prefixes, SP!Prefixes, S!Close, SP!Close, S!Return, SP!Return, S!memory,
       SP!memory, S!CreateClose, SP!CreateClose
  <1>8. \A t : S!LoadOpen(t) <=> SP!LoadOpen(t)
    BY SameMemory DEF S!LoadOpen, SP!LoadOpen, S!MayFailToRead, SP!MayFailToRead,
       S!Return, SP!Return, S!CanRead, SP!CanRead, S!memory, SP!memory
  <1>9. S!LoadHead <=> SP!LoadHead
    BY SameMemory DEF S!LoadHead, SP!LoadHead, S!File, SP!File, S!BadRead, SP!BadRead,
       S!memory, SP!memory, S!OutOfMemory, SP!OutOfMemory, S!Close, SP!Close,
       S!Return, SP!Return
  <1>10. S!LoadItem <=> SP!LoadItem
    BY SameMemory DEF S!LoadItem, SP!LoadItem, S!MoreItems, SP!MoreItems, S!File,
       SP!File, S!BadRead, SP!BadRead, S!memory, SP!memory, S!OutOfMemory,
       SP!OutOfMemory, S!Item, SP!Item, S!Close, SP!Close, S!Return, SP!Return,
       S!Text, SP!Text
  <1>11. S!LoadClose <=> SP!LoadClose
    BY DEF S!LoadClose, SP!LoadClose, S!MoreItems, SP!MoreItems, S!Close, SP!Close,
       S!Return, SP!Return, S!memory, SP!memory
  <1>12. S!FreeNames <=> SP!FreeNames
    BY SameMemory DEF S!FreeNames, SP!FreeNames, S!disk, SP!disk, S!memory, SP!memory
  <1>13. S!FreeName <=> SP!FreeName
    BY SameMemory DEF S!FreeName, SP!FreeName, S!Return, SP!Return, S!memory,
       SP!memory, S!NameAt, SP!NameAt, S!Bfree, SP!Bfree, S!Refused, SP!Refused,
       S!FreeFailed, SP!FreeFailed, S!Cleared, SP!Cleared, S!disk, SP!disk
  <1>14. S!FreeItems <=> SP!FreeItems
    BY SameMemory DEF S!FreeItems, SP!FreeItems, S!Bfree, SP!Bfree, S!Refused,
       SP!Refused, S!FreeFailed, SP!FreeFailed, S!Return, SP!Return, S!Cleared,
       SP!Cleared, S!disk, SP!disk
  <1>15. \A t : S!Delete(t) <=> SP!Delete(t)
    BY DEF S!Delete, SP!Delete, S!Return, SP!Return, S!memory, SP!memory
  <1>16. \A n : S!OtherAlloc(n) <=> SP!OtherAlloc(n)
    BY SameMemory DEF S!OtherAlloc, SP!OtherAlloc, S!disk, SP!disk
  <1>17. \A b : S!OtherFree(b) <=> SP!OtherFree(b)
    BY SameMemory DEF S!OtherFree, SP!OtherFree, S!disk, SP!disk
  <1>18. S!NothingLost <=> SP!NothingLost
    BY SameMemory DEF S!NothingLost, SP!NothingLost, S!OwnPtrs, SP!OwnPtrs
  <1> QED
    BY <1>1, <1>2, <1>3, <1>4, <1>5, <1>6, <1>7, <1>8, <1>9, <1>10, <1>11, <1>12,
       <1>13, <1>14, <1>15, <1>16, <1>17, <1>18

LEMMA SameExecutor ==
  /\ E!ExecutorAssumption <=> EP!ExecutorAssumption
  /\ E!NoneAssumption <=> EP!NoneAssumption
  /\ E!PlansRule <=> EP!PlansRule
  /\ E!Cur = EP!Cur
  /\ E!Items = EP!Items
  /\ E!Ended <=> EP!Ended
  /\ \A a : E!ItemOf(a) = EP!ItemOf(a)
  /\ \A items : E!ValueSize(items) = EP!ValueSize(items)
  /\ \A a, n : E!Overwritten(a, n) = EP!Overwritten(a, n)
  /\ E!Init <=> EP!Init
  /\ E!DefineAttribute <=> EP!DefineAttribute
  /\ E!FreeList <=> EP!FreeList
  /\ E!Nop <=> EP!Nop
  /\ E!Halt <=> EP!Halt
  /\ E!Undefined <=> EP!Undefined
  /\ E!CreateDictionary <=> EP!CreateDictionary
  /\ E!CloseDictionary <=> EP!CloseDictionary
  /\ E!BeginSchema <=> EP!BeginSchema
  /\ E!EndSchema <=> EP!EndSchema
  /\ E!ListRule <=> EP!ListRule
  /\ E!Execute <=> EP!Execute
  /\ \A p : E!InitExecutable(p) <=> EP!InitExecutable(p)
  /\ \A n : E!OtherAlloc(n) <=> EP!OtherAlloc(n)
  /\ \A b : E!OtherFree(b) <=> EP!OtherFree(b)
  /\ \A t : E!DeleteTable(t) <=> EP!DeleteTable(t)
  /\ E!PowerFailure <=> EP!PowerFailure
  /\ E!TypeOK <=> EP!TypeOK
  /\ E!MemoryReturned <=> EP!MemoryReturned
  <1>1. /\ E!ExecutorAssumption <=> EP!ExecutorAssumption
        /\ E!NoneAssumption <=> EP!NoneAssumption
    BY DEF E!ExecutorAssumption, EP!ExecutorAssumption, E!IsInstruction,
       EP!IsInstruction, E!NoneAssumption, EP!NoneAssumption, E!TableSchema,
       EP!TableSchema, E!Item, EP!Item
  <1>2. E!PlansRule <=> EP!PlansRule
    BY DEF E!PlansRule, EP!PlansRule, E!TablesRule, EP!TablesRule
  <1>3. /\ E!Cur = EP!Cur
        /\ E!Items = EP!Items
        /\ E!Ended <=> EP!Ended
    BY DEF E!Cur, EP!Cur, E!Items, EP!Items, E!ItemAt, EP!ItemAt, E!Addr, EP!Addr,
       E!Ended, EP!Ended
  <1>4. /\ \A a : E!ItemOf(a) = EP!ItemOf(a)
        /\ \A items : E!ValueSize(items) = EP!ValueSize(items)
    BY DEF E!ItemOf, EP!ItemOf, E!ValueSize, EP!ValueSize
  <1>5. \A a, n : E!Overwritten(a, n) = EP!Overwritten(a, n)
    BY DEF E!Overwritten, EP!Overwritten, E!Addr, EP!Addr
  <1>6. E!Init <=> EP!Init
    BY SameMemory DEF E!Init, EP!Init, E!ion_table_init_executable,
       EP!ion_table_init_executable, E!Addr, EP!Addr
  <1>7. E!DefineAttribute <=> EP!DefineAttribute
    BY <1>4, <1>5, SameMemory DEF E!DefineAttribute, EP!DefineAttribute, E!Runs,
       EP!Runs, E!ListCall, EP!ListCall, E!Fail, EP!Fail, E!NextInstruction,
       EP!NextInstruction, E!Listed, EP!Listed, E!Cur, EP!Cur, E!schemas, EP!schemas
  <1>8. E!FreeList <=> EP!FreeList
    BY SameMemory DEF E!FreeList, EP!FreeList, E!Bfree, EP!Bfree, E!Fail, EP!Fail,
       E!FlaggedAt, EP!FlaggedAt, E!NextInstruction, EP!NextInstruction, E!schemas,
       EP!schemas, E!Cur, EP!Cur
  <1>9. /\ E!Nop <=> EP!Nop
        /\ E!Halt <=> EP!Halt
        /\ E!Undefined <=> EP!Undefined
    BY DEF E!Nop, EP!Nop, E!Runs, EP!Runs, E!NextInstruction, EP!NextInstruction,
       E!schemas, EP!schemas, E!memory, EP!memory, E!Cur, EP!Cur, E!Halt, EP!Halt,
       E!Stopped, EP!Stopped, E!Undefined, EP!Undefined, E!Fail, EP!Fail
  <1>10. /\ E!CreateDictionary <=> EP!CreateDictionary
         /\ E!CloseDictionary <=> EP!CloseDictionary
    BY <1>4 DEF E!CreateDictionary, EP!CreateDictionary, E!Runs, EP!Runs, E!Fail,
       EP!Fail, E!DictionarySize, EP!DictionarySize, E!schemas, EP!schemas, E!memory,
       EP!memory, E!Cur, EP!Cur, E!Items, EP!Items, E!ItemAt, EP!ItemAt, E!Addr,
       EP!Addr, E!CloseDictionary, EP!CloseDictionary
  <1>11. E!BeginSchema <=> EP!BeginSchema
    BY DEF E!BeginSchema, EP!BeginSchema, E!Store!RefuseCreate, EP!Store!RefuseCreate,
       E!Cur, EP!Cur, E!Fail, EP!Fail, E!Store!BeginCreate, EP!Store!BeginCreate,
       E!IdOf, EP!IdOf, E!Items, EP!Items, E!memory, EP!memory, E!ItemAt, EP!ItemAt,
       E!Addr, EP!Addr
  <1>12. E!EndSchema <=> EP!EndSchema
    BY DEF E!EndSchema, EP!EndSchema, E!Store!EndCreate, EP!Store!EndCreate, E!Fail,
       EP!Fail, E!memory, EP!memory
  <1>13. /\ E!ListRule <=> EP!ListRule
         /\ E!Execute <=> EP!Execute
    BY DEF E!ListRule, EP!ListRule, E!Cur, EP!Cur, E!Execute, EP!Execute, E!Ended,
       EP!Ended, E!schemas, EP!schemas, E!memory, EP!memory
  <1>14. \A p : E!InitExecutable(p) <=> EP!InitExecutable(p)
    BY SameMemory DEF E!InitExecutable, EP!InitExecutable,
       E!ion_table_init_executable, EP!ion_table_init_executable, E!schemas,
       EP!schemas, E!memory, EP!memory
  <1>15. \A n : E!OtherAlloc(n) <=> EP!OtherAlloc(n)
    BY <1>5, SameMemory DEF E!OtherAlloc, EP!OtherAlloc, E!schemas, EP!schemas
  <1>16. \A b : E!OtherFree(b) <=> EP!OtherFree(b)
    BY SameMemory DEF E!OtherFree, EP!OtherFree, E!schemas, EP!schemas
  <1>17. \A t : E!DeleteTable(t) <=> EP!DeleteTable(t)
    BY DEF E!DeleteTable, EP!DeleteTable, E!Store!Delete, EP!Store!Delete, E!memory,
       EP!memory
  <1>18. E!PowerFailure <=> EP!PowerFailure
    BY SameMemory DEF E!PowerFailure, EP!PowerFailure, E!Store!PowerFailure,
       EP!Store!PowerFailure, E!ion_table_init_executable,
       EP!ion_table_init_executable, E!Addr, EP!Addr
  <1>19. E!TypeOK <=> EP!TypeOK
    BY SameMemory DEF E!TypeOK, EP!TypeOK, E!Executable, EP!Executable, E!Ended,
       EP!Ended, E!Opcodes, EP!Opcodes, E!Addr, EP!Addr
  <1>20. E!MemoryReturned <=> EP!MemoryReturned
    BY DEF E!MemoryReturned, EP!MemoryReturned
  <1> QED
    BY <1>1, <1>2, <1>3, <1>4, <1>5, <1>6, <1>7, <1>8, <1>9, <1>10, <1>11, <1>12,
       <1>13, <1>14, <1>15, <1>16, <1>17, <1>18, <1>19, <1>20

\* What the theorems of the two rest on.
LEMMA Assumed ==
  /\ SP!SchemaAssumption /\ SP!NoneAssumption
  /\ EP!ExecutorAssumption /\ EP!NoneAssumption
  BY SameSchemas, SameExecutor, ComponentsAssumption, NoneAssumption
------------------------------------------------------------------------------
(***************************************************************************)
(* The inductive invariant: those of the two, and what relates them.       *)
(***************************************************************************)
\* While an instruction runs no schema is loaded or freed, and no load starts while
\* the list may still be extended.  Every block that is held belongs to one of the two.
Shared ==
  /\ pc # "idle" => spc \in {"idle", "create"}
  /\ spc = "load" => plan.prev # "DEFINE_ATTRIBUTE"
  /\ lists \cup loads = blive /\ lists \cap loads = {}

\* One attribute is defined at a time: before the next one comes a CREATE_TABLE.
OneDefined ==
  defs # <<>> =>
    /\ \E item \in Defined : defs = <<item>>
    /\ \A i \in plan.idx + 1 .. Len(plan.code) :
         plan.code[i].op = "DEFINE_ATTRIBUTE" =>
           \E j \in plan.idx + 1 .. i : plan.code[j].op = "CREATE_TABLE"

\* made is what is stored, or will be.
MadeStored ==
  /\ made = [t \in Tables |-> made[t]]
  /\ \A t \in Tables :
       S!Stored[t] \notin {None, Damaged} => made[t] = S!Stored[t].items
  /\ S!Making # None => made[S!Making.tbl] = S!Making.of.items

LayerInv == EP!AllInv /\ SP!AllInv /\ Shared /\ OneDefined /\ MadeStored

\* What a step is to the executor and to the schema store.
executorView ==
  <<plan, pc, status, cells, dicts, E!schemas, blive, loads, defs, clean, kept>>
schemasView == <<schemas, stuck, blive, lists>>

ExecutorStep == EP!Next \/ UNCHANGED executorView
SchemasStep == SP!Next \/ UNCHANGED schemasView
------------------------------------------------------------------------------
(***************************************************************************)
(* Memory.  A block is one of the lists or one of a schema.                *)
(***************************************************************************)
LEMMA Blocks ==
  ASSUME LayerInv
  PROVE  /\ lists = blive \ loads /\ loads = blive \ lists
         /\ lists \subseteq blive /\ loads \subseteq blive
         /\ pc = "store" <=> spc = "create"
         /\ EP!TypeInv /\ EP!PlanInv /\ EP!MemoryInv /\ EP!ListInv /\ EP!DictInv
         /\ SP!TypeInv /\ SP!MemInv /\ SP!FileInv
  <1>1. /\ EP!TypeInv /\ EP!PlanInv /\ EP!MemoryInv /\ EP!ListInv /\ EP!DictInv
        /\ SP!TypeInv /\ SP!MemInv /\ SP!FileInv
    BY DEF LayerInv, EP!AllInv, EP!ListsInv, SP!AllInv
  <1>2. pc = "store" <=> S!Making # None
    BY <1>1 DEF EP!TypeInv, EP!StoreTyped
  <1>3. S!Making # None <=> spc = "create"
    BY <1>1, SameSchemas, Assumed DEF SP!Making, SP!Creating, SP!TypeInv, SP!CallTyped,
       SP!NoneAssumption
  <1> QED
    BY <1>1, <1>2, <1>3 DEF LayerInv, Shared

\* An allocation takes a block that was not held, or is refused.
LEMMA AllocDoes ==
  ASSUME LayerInv, NEW n \in Nat, SP!Memory!BAlloc(n)
  PROVE  \/ ret' = -1 /\ blive' = blive
         \/ LET b == [ptr |-> ret', size |-> n] IN
            ret' # -1 /\ b \notin blive /\ blive' = blive \cup {b}
  BY Blocks, Assumed, SP!BallocDoes, SameMemory DEF SP!TypeInv

\* A free takes away at most the block.
LEMMA FreeDoes ==
  ASSUME NEW b, SP!Memory!BFree(b)
  PROVE  blive' \in {blive, blive \ {b}}
  BY DEF SP!Memory!BFree

\* What the list allocates is an allocation of another client to the schema store.
LEMMA ListAlloc ==
  ASSUME LayerInv, SP!Memory!BAlloc(ItemSize), ListTaken, spc = "idle", UNCHANGED schemas
  PROVE  SP!OtherAlloc(ItemSize)
  <1>1. ItemSize \in Nat
    BY Assumed DEF SP!SchemaAssumption
  <1>2. /\ lists' = lists \cup (blive' \ blive)
        /\ ret' = -1 <=> blive' \subseteq blive
    BY <1>1, Blocks, AllocDoes DEF ListTaken
  <1> QED
    BY <1>2, SameMemory DEF SP!OtherAlloc, ListTaken, SP!disk, schemas

\* What the list frees is a block of another client to the schema store.
LEMMA ListFree ==
  ASSUME LayerInv, NEW b \in lists, SP!Memory!BFree(b), ListTaken, spc = "idle",
         UNCHANGED schemas
  PROVE  SP!OtherFree(b)
  <1>1. blive' \subseteq blive
    BY FreeDoes
  <1>2. lists' = lists \ (blive \ blive') /\ stuck' = stuck
    BY <1>1, Blocks DEF ListTaken
  <1> QED
    BY <1>2 DEF SP!OtherFree, SP!disk, schemas

\* The steps of the schema store that are steps of another client, or none, to the
\* executor: they leave everything alone but memory.
Elsewhere ==
  /\ pc = "idle" /\ LoadTaken /\ UNCHANGED <<S!Stored, S!Making>>
  /\ UNCHANGED <<plan, pc, status, dicts, defs, clean, kept, answer, lists, made>>

LEMMA LoadAlloc ==
  ASSUME LayerInv, Elsewhere, NEW n \in Nat, SP!Memory!BAlloc(n),
         n \in {TableLen[t] : t \in Tables} \cup {ItemSize},
         plan.prev # "DEFINE_ATTRIBUTE"
  PROVE  ExecutorStep
  <1>1. CASE blive' = blive
    <2>1. loads' = loads
      BY <1>1, Blocks DEF Elsewhere, LoadTaken
    <2>2. cells' = cells
      BY <2>1 DEF Elsewhere, LoadTaken
    <2> QED
      BY <1>1, <2>1, <2>2 DEF Elsewhere, ExecutorStep, executorView, E!schemas
  <1>2. CASE blive' # blive
    <2> DEFINE b == [ptr |-> ret', size |-> n]
    <2>1. ret' # -1 /\ b \notin blive /\ blive' = blive \cup {b}
      BY <1>2, AllocDoes
    <2>2. loads' = loads \cup {b} /\ b \notin loads
      BY <2>1, Blocks DEF Elsewhere, LoadTaken
    <2>3. cells' = EP!Overwritten(b.ptr, b.size)
      <3>1. loads' \ loads = {b} /\ ~(loads' \subseteq loads)
        BY <2>2
      <3> QED
        BY <3>1, SameExecutor DEF Elsewhere, LoadTaken
    <2>4. EP!OtherAlloc(n)
      BY <2>1, <2>2, <2>3, SameMemory DEF Elsewhere, EP!OtherAlloc, EP!schemas
    <2> QED
      BY <2>4 DEF ExecutorStep, EP!Next, EP!Client
  <1> QED
    BY <1>1, <1>2

LEMMA LoadFree ==
  ASSUME LayerInv, Elsewhere, NEW b \in loads, SP!Memory!BFree(b)
  PROVE  ExecutorStep
  <1>1. blive' \subseteq blive
    BY FreeDoes
  <1>2. loads' = loads \ (blive \ blive')
    BY <1>1, Blocks DEF Elsewhere, LoadTaken
  <1>3. cells' = cells
    BY <1>2 DEF Elsewhere, LoadTaken
  <1>4. EP!OtherFree(b)
    BY <1>2, <1>3, SameMemory DEF Elsewhere, EP!OtherFree, EP!schemas
  <1> QED
    BY <1>4 DEF ExecutorStep, EP!Next, EP!Client

LEMMA LoadNothing ==
  ASSUME LayerInv, Elsewhere, blive' = blive
  PROVE  ExecutorStep
  <1>1. loads' = loads
    BY Blocks DEF Elsewhere, LoadTaken
  <1>2. cells' = cells
    BY <1>1 DEF Elsewhere, LoadTaken
  <1> QED
    BY <1>1, <1>2 DEF Elsewhere, ExecutorStep, executorView, E!schemas

------------------------------------------------------------------------------
(***************************************************************************)
(* Every step is a step of both, or of one of them and none of the other.  *)
(***************************************************************************)
\* A definition starts a list: there is no other.
LEMMA DefinesFirst ==
  ASSUME LayerInv, EP!DefineAttribute
  PROVE  /\ pc = "run" /\ spc = "idle" /\ EP!Cur.op = "DEFINE_ATTRIBUTE"
         /\ defs = <<>> /\ plan.prev # "DEFINE_ATTRIBUTE"
         /\ plan.idx + 1 \in 1 .. Len(plan.code) /\ plan.code \in Plans
  <1>1. pc = "run" /\ EP!Cur.op = "DEFINE_ATTRIBUTE" /\ ~EP!Ended
    BY Blocks DEF EP!DefineAttribute, EP!Runs, EP!TypeInv, EP!PlanTyped
  <1>2. spc = "idle"
    BY <1>1, Blocks DEF LayerInv, Shared
  <1>3. plan.idx + 1 \in 1 .. Len(plan.code)
    BY <1>1, Blocks, Assumed, EP!Instruction
  <1>4. plan.code \in Plans
    BY Blocks DEF EP!TypeInv, EP!PlanTyped, EP!Executable
  <1>5. defs = <<>>
    <2> SUFFICES ASSUME defs # <<>> PROVE FALSE
      OBVIOUS
    <2>1. plan.idx + 1 \in plan.idx + 1 .. Len(plan.code)
      BY <1>3
    <2>2. PICK j \in plan.idx + 1 .. plan.idx + 1 : plan.code[j].op = "CREATE_TABLE"
      BY <1>1, <2>1 DEF LayerInv, OneDefined, EP!Cur
    <2>3. j = plan.idx + 1
      BY <1>3, <2>2
    <2> QED
      BY <1>1, <2>2, <2>3 DEF EP!Cur
  <1>6. plan.prev # "DEFINE_ATTRIBUTE"
    BY <1>1, <1>5, Blocks DEF EP!PlanInv
  <1> QED
    BY <1>1, <1>2, <1>3, <1>4, <1>5, <1>6

LEMMA DefineAttributeSteps ==
  ASSUME LayerInv, DefineAttribute
  PROVE  ExecutorStep /\ SchemasStep
  <1>1. EP!DefineAttribute
    BY SameExecutor DEF DefineAttribute
  <1>2. SP!Memory!BAlloc(ItemSize)
    BY <1>1, DefinesFirst, SameMemory DEF EP!DefineAttribute, EP!ListCall
  <1>3. SP!OtherAlloc(ItemSize)
    BY <1>1, <1>2, DefinesFirst, ListAlloc DEF DefineAttribute
  <1> QED
    BY <1>1, <1>3 DEF ExecutorStep, SchemasStep, EP!Next, EP!Steps, SP!Next, SP!Calls

LEMMA FreeListSteps ==
  ASSUME LayerInv, FreeList
  PROVE  ExecutorStep /\ SchemasStep
  <1>1. EP!FreeList
    BY SameExecutor DEF FreeList
  <1>2. pc = "free" /\ spc = "idle" /\ UNCHANGED schemas /\ ListTaken
    BY <1>1, Blocks DEF FreeList, EP!FreeList, LayerInv, Shared
  <1>3. CASE EP!Memory!BFreeNotHeld(plan.pointer)
    <2>1. blive' = blive
      BY <1>3 DEF EP!Memory!BFreeNotHeld
    <2>2. lists' = lists /\ stuck' = stuck
      BY <2>1, Blocks DEF FreeList, ListTaken
    <2> QED
      BY <1>1, <1>2, <2>1, <2>2 DEF ExecutorStep, SchemasStep, schemasView, EP!Next, EP!Steps
  <1>4. ASSUME NEW b \in blive, b.ptr = plan.pointer, EP!Memory!BFree(b)
        PROVE  SP!OtherFree(b) /\ b \in lists
    <2>1. PICK c \in blive \ loads : EP!InList(c)
      BY <1>2, Blocks DEF EP!MemoryInv, EP!Listing
    <2>2. c = b
      BY <1>4, <2>1, Blocks, Assumed, EP!OneList
    <2>3. b \in lists
      BY <2>1, <2>2, Blocks
    <2> QED
      BY <1>2, <1>4, <2>3, ListFree, SameMemory
  <1> QED
    BY <1>1, <1>3, <1>4 DEF EP!FreeList, EP!Bfree, ExecutorStep, SchemasStep, EP!Next,
       EP!Steps, SP!Next, SP!Calls

LEMMA AloneSteps ==
  ASSUME LayerInv, Alone
  PROVE  ExecutorStep /\ SchemasStep
  <1>1. EP!Nop \/ EP!Halt \/ EP!Undefined \/ EP!CreateDictionary \/ EP!CloseDictionary
    BY SameExecutor DEF Alone
  <1> QED
    BY <1>1 DEF Alone, memory, ExecutorStep, SchemasStep, schemasView, EP!Next, EP!Steps

LEMMA RunSteps ==
  ASSUME LayerInv, Run
  PROVE  ExecutorStep /\ SchemasStep
  <1>1. \/ ~EP!Ended /\ EP!ListRule /\ EP!Execute
        \/ \E p \in Plans : EP!InitExecutable(p)
    BY SameExecutor DEF Run
  <1> QED
    BY <1>1 DEF Run, memory, ExecutorStep, SchemasStep, schemasView, EP!Next, EP!Client

\* What is stored, and what its table was made with.
LEMMA MadeKept ==
  ASSUME LayerInv, UNCHANGED <<S!Stored, S!Making, made>>
  PROVE  MadeStored'
  BY DEF LayerInv, MadeStored

\* A table comes to nothing.
LEMMA MadeGone ==
  ASSUME LayerInv, UNCHANGED made, S!Making' \in {S!Making, None},
         \/ UNCHANGED S!Stored
         \/ \E t \in Tables : S!Stored' = [S!Stored EXCEPT ![t] = None]
  PROVE  MadeStored'
  <1>1. S!Stored = [t \in Tables |-> S!Stored[t]]
    BY Blocks DEF EP!TypeInv, EP!StoreTyped
  <1>2. \A t \in Tables : S!Stored'[t] \in {S!Stored[t], None}
    BY <1>1
  <1> QED
    BY <1>2 DEF LayerInv, MadeStored

\* The schema that is being made is stored, or what there is of it.
LEMMA MadeOfOne ==
  ASSUME LayerInv, UNCHANGED made, S!Making # None, S!Making' = None,
         NEW left \in {None, Damaged, S!Making.of},
         S!Stored' = [S!Stored EXCEPT ![S!Making.tbl] = left]
  PROVE  MadeStored'
  <1>1. S!Stored = [t \in Tables |-> S!Stored[t]] /\ S!Making.tbl \in Tables
    BY Blocks DEF EP!TypeInv, EP!StoreTyped
  <1>2. /\ S!Stored'[S!Making.tbl] = left
        /\ \A t \in Tables : t # S!Making.tbl => S!Stored'[t] = S!Stored[t]
    BY <1>1
  <1> QED
    BY <1>1, <1>2 DEF LayerInv, MadeStored

\* The power fails for both.
LEMMA PowerFailureSteps ==
  ASSUME LayerInv, PowerFailure
  PROVE  ExecutorStep /\ SchemasStep /\ MadeStored'
  <1>1. SP!PowerFailure
    BY SameSchemas DEF PowerFailure
  <1>2. SP!Store!PowerFailure
    BY <1>1, Blocks, Assumed, SP!PowerRefines
  <1>3. EP!Store!PowerFailure
    BY <1>2, SameSchemas DEF SP!Store!PowerFailure, EP!Store!PowerFailure, PowerFailure
  <1>4. /\ \E p \in Plans : plan' = EP!ion_table_init_executable(p)
        /\ cells' = [a \in EP!Addr |-> Junk]
    BY SameMemory DEF PowerFailure, E!ion_table_init_executable,
       EP!ion_table_init_executable, E!Addr, EP!Addr
  <1>5. blive' = {} /\ ret' = 1 /\ call' = <<"init", SegSize>>
    BY <1>1 DEF SP!PowerFailure
  <1>6. EP!PowerFailure
    BY <1>3, <1>4, <1>5 DEF PowerFailure, EP!PowerFailure
  <1>7. MadeStored'
    <2>1. CASE UNCHANGED S!Stored
      BY <1>2, <2>1, SameSchemas, MadeGone DEF SP!Store!PowerFailure, PowerFailure
    <2>2. CASE S!Making # None
      BY <1>2, <2>2, SameSchemas, MadeOfOne DEF SP!Store!PowerFailure, PowerFailure
    <2> QED
      BY <1>2, <2>1, <2>2, SameSchemas DEF SP!Store!PowerFailure
  <1> QED
    BY <1>1, <1>6, <1>7 DEF ExecutorStep, SchemasStep, EP!Next, SP!Next

LEMMA DeleteSteps ==
  ASSUME LayerInv, NEW t \in Tables, Delete(t)
  PROVE  ExecutorStep /\ SchemasStep /\ MadeStored'
  <1>1. SP!Delete(t)
    BY SameSchemas DEF Delete
  <1>2. SP!Store!Delete(t)
    BY <1>1, Blocks, Assumed, SP!DeleteRefines
  <1>3. EP!Store!Delete(t)
    BY <1>2, SameSchemas DEF SP!Store!Delete, EP!Store!Delete, Delete
  <1>4. UNCHANGED memory
    BY <1>1 DEF SP!Delete, SP!memory, memory
  <1>5. EP!DeleteTable(t)
    BY <1>3, <1>4 DEF Delete, EP!DeleteTable, EP!memory, memory
  <1>6. MadeStored'
    BY <1>2, SameSchemas, MadeKept, MadeGone DEF SP!Store!Delete, Delete
  <1> QED
    BY <1>1, <1>5, <1>6 DEF ExecutorStep, SchemasStep, EP!Next, EP!Client, SP!Next, SP!Calls

\* A create of the schema CREATE_TABLE has made of the attribute, or one that is
\* refused because the attribute has been used already and the table is there.
LEMMA CreatesDefined ==
  ASSUME LayerRules, LayerInv, BeginSchema
  PROVE  /\ EP!Cur.arg \in Tables
         /\ \E s \in Schemas :
              /\ SP!CreateOpen(EP!Cur.arg, s)
              /\ spc' = "create" =>
                   s = [id |-> EP!IdOf, items |-> EP!Items] /\ EP!Items = defs
  <1> DEFINE t == EP!Cur.arg
             r == [id |-> EP!IdOf, items |-> EP!Items]
  <1>1. pc = "schema" /\ SP!CreateOpen(t, r)
    BY SameSchemas, SameExecutor DEF BeginSchema, E!IdOf, EP!IdOf
  <1>2. EP!Cur.op = "CREATE_TABLE" /\ t \in Tables
    <2>1. EP!Cur.op = "CREATE_TABLE" /\ ~EP!Ended
      BY <1>1, Blocks DEF EP!TypeInv, EP!PlanTyped, EP!Creating
    <2> QED
      BY <2>1, Blocks, Assumed, EP!Instruction DEF EP!IsInstruction
  <1>3. CASE defs = <<>>
    <2>1. S!Stored[t] # None
      BY <1>1, <1>2, <1>3, Blocks DEF EP!PlanInv
    <2>2. files[t] # None
      <3>1. ~SP!Creating
        BY <1>1 DEF SP!CreateOpen, SP!Creating
      <3> QED
        BY <1>2, <2>1, <3>1, Blocks, Assumed, SameSchemas, SP!StoredIs
    <2>3. PICK s \in Schemas : files[t] \in SP!Prefixes(SP!FileOf[s])
      BY <1>2, <2>2, Blocks, Assumed, SP!FileBegins DEF SP!TypeInv
    <2>4. SP!CreateOpen(t, s) /\ spc' # "create"
      BY <1>1, <2>2 DEF SP!CreateOpen, SP!MayFailToRead, SP!CanRead, SP!Return, LayerRules
    <2> QED
      BY <1>2, <2>4
  <1>4. CASE defs # <<>>
    <2>1. PICK item \in Defined : defs = <<item>>
      BY <1>4 DEF LayerInv, OneDefined
    <2>2. EP!Items = defs
      BY <2>1, Blocks, Assumed, EP!OneItem
    <2>3. EP!IdOf \in 1 .. MaxDicts
      <3>1. Len(dicts) \in Nat /\ Len(dicts) > 0 /\ Len(dicts) <= MaxDicts
        BY <1>1, Blocks DEF EP!DictInv, EP!Pending, EP!TypeInv, EP!DictsTyped
      <3> QED
        BY <3>1, Assumed DEF EP!IdOf, EP!ExecutorAssumption
    <2>4. r \in Schemas
      BY <2>1, <2>2, <2>3 DEF LayerRules
    <2> QED
      BY <1>1, <1>2, <2>2, <2>4
  <1> QED
    BY <1>3, <1>4

LEMMA BeginSchemaSteps ==
  ASSUME LayerRules, LayerInv, BeginSchema
  PROVE  ExecutorStep /\ SchemasStep /\ MadeStored'
  <1>1. PICK t \in Tables, s \in Schemas :
          /\ t = EP!Cur.arg /\ SP!CreateOpen(t, s)
          /\ spc' = "create" =>
               s = [id |-> EP!IdOf, items |-> EP!Items] /\ EP!Items = defs
    BY CreatesDefined
  <1>2. \/ spc' = "idle" /\ SP!Store!RefuseCreate(t)
        \/ spc' = "create" /\ SP!Store!BeginCreate(t, s)
    <2>1. SP!FaultsRule /\ SP!TypeInv
      BY Blocks DEF LayerRules, SP!FaultsRule
    <2> QED
      BY <1>1, <2>1, Assumed, SP!CreateOpenRefines
  <1>3. UNCHANGED memory
    BY <1>1 DEF SP!CreateOpen, SP!memory, memory
  <1>4. ASSUME spc' = "idle" PROVE EP!BeginSchema
    <2>1. EP!Fail("TABLE_ALREADY_EXISTS") /\ answer' = sstatus'
      BY <1>4 DEF BeginSchema, E!Fail, EP!Fail
    <2>2. EP!Store!RefuseCreate(t)
      BY <1>2, <1>4, <2>1, SameSchemas DEF SP!Store!RefuseCreate, EP!Store!RefuseCreate
    <2> QED
      BY <1>1, <1>3, <2>1, <2>2 DEF BeginSchema, EP!BeginSchema, EP!memory, memory
  <1>5. ASSUME spc' = "create" PROVE EP!BeginSchema
    <2>1. pc' = "store" /\ UNCHANGED <<status, clean, answer>>
      BY <1>5 DEF BeginSchema
    <2>2. EP!Store!BeginCreate(t, [id |-> EP!IdOf, items |-> EP!Items])
      BY <1>1, <1>2, <1>5, <2>1, SameSchemas
         DEF SP!Store!BeginCreate, EP!Store!BeginCreate
    <2> QED
      BY <1>1, <1>3, <2>1, <2>2 DEF BeginSchema, EP!BeginSchema, EP!memory, memory
  <1>6. EP!BeginSchema
    BY <1>2, <1>4, <1>5
  <1>7. SP!Next
    <2>1. SP!NamesRule(t, s)
      BY <1>1, SameSchemas DEF LayerRules
    <2> QED
      BY <1>1, <2>1 DEF SP!Next, SP!Calls
  <1>8. ASSUME spc' = "idle" PROVE MadeStored'
    <2>1. UNCHANGED <<S!Stored, S!Making, made>>
      BY <1>2, <1>8, SameSchemas DEF BeginSchema, SP!Store!RefuseCreate
    <2> QED
      BY <2>1, MadeKept
  <1>9. ASSUME spc' = "create" PROVE MadeStored'
    <2>1. /\ S!Stored' = S!Stored /\ S!Stored[t] = None
          /\ S!Making' = [tbl |-> t, of |-> s]
      BY <1>2, <1>9, SameSchemas DEF SP!Store!BeginCreate
    <2>2. made' = [made EXCEPT ![t] = defs] /\ s.items = defs
      BY <1>1, <1>9, SameExecutor DEF BeginSchema
    <2>3. made = [u \in Tables |-> made[u]]
      BY DEF LayerInv, MadeStored
    <2>4. made'[t] = defs /\ \A u \in Tables : u # t => made'[u] = made[u]
      BY <2>2, <2>3
    <2>5. made' = [u \in Tables |-> made'[u]]
      BY <2>2, <2>3
    <2> QED
      BY <2>1, <2>2, <2>4, <2>5 DEF LayerInv, MadeStored
  <1> QED
    BY <1>2, <1>6, <1>7, <1>8, <1>9 DEF ExecutorStep, SchemasStep, EP!Next, EP!Steps

LEMMA WriteSchemaSteps ==
  ASSUME LayerRules, LayerInv, WriteSchema
  PROVE  ExecutorStep /\ SchemasStep /\ MadeStored'
  <1>1. SP!CreateWrite \/ SP!CreateClose
    BY SameSchemas DEF WriteSchema
  <1>2. \/ spc' = "idle" /\ SP!Store!EndCreate
        \/ spc' = "create" /\ UNCHANGED SP!Store!avars
    <2>1. SP!FaultsRule /\ SP!TypeInv
      BY Blocks DEF LayerRules, SP!FaultsRule
    <2> QED
      BY <1>1, <2>1, Assumed, SP!CreateStepsRefine
  <1>3. UNCHANGED memory
    BY <1>1 DEF SP!CreateWrite, SP!CreateClose, SP!memory, memory
  <1>4. ASSUME spc' = "idle" PROVE ExecutorStep
    <2>1. answer' = sstatus' /\ pc = "store"
      BY <1>4 DEF WriteSchema, Answered
    <2>2. EP!Store!EndCreate
      BY <1>2, <1>4, <2>1, SameSchemas DEF SP!Store!EndCreate, EP!Store!EndCreate
    <2>3. \/ answer' # "OK" /\ EP!Fail("TABLE_ALREADY_EXISTS") /\ UNCHANGED defs
          \/ answer' = "OK" /\ pc' = "free" /\ defs' = <<>> /\ UNCHANGED <<status, clean>>
      BY <1>4 DEF WriteSchema, Answered, E!Fail, EP!Fail
    <2>4. EP!EndSchema
      BY <1>3, <2>1, <2>2, <2>3 DEF WriteSchema, EP!EndSchema, EP!memory, memory
    <2> QED
      BY <2>4 DEF ExecutorStep, EP!Next, EP!Steps
  <1>5. ASSUME spc' = "create" PROVE ExecutorStep
    <2>1. UNCHANGED <<S!Stored, S!Making>>
      BY <1>2, <1>5, SameSchemas DEF SP!Store!avars
    <2>2. UNCHANGED <<pc, status, defs, clean, answer>>
      BY <1>5 DEF WriteSchema
    <2> QED
      BY <1>3, <2>1, <2>2 DEF WriteSchema, ExecutorStep, executorView, E!schemas, memory
  <1>6. SP!Next
    BY <1>1 DEF SP!Next, SP!Steps
  <1>7. MadeStored'
    <2>1. UNCHANGED made
      BY DEF WriteSchema
    <2>2. CASE SP!Store!EndCreate
      BY <2>1, <2>2, SameSchemas, MadeOfOne DEF SP!Store!EndCreate
    <2>3. CASE UNCHANGED SP!Store!avars
      BY <2>1, <2>3, SameSchemas, MadeKept DEF SP!Store!avars
    <2> QED
      BY <1>2, <2>2, <2>3
  <1> QED
    BY <1>2, <1>4, <1>5, <1>6, <1>7 DEF SchemasStep

\* A schema has one item, and a load allocates the block of one.
LEMMA HeadOfOne ==
  ASSUME LayerRules, LayerInv, spc = "load", Len(SP!File) >= 2
  PROVE  ItemSize * SP!File[2][1] = ItemSize
  <1>1. op.tbl \in Tables /\ files[op.tbl] # None
    BY Blocks DEF SP!TypeInv, SP!CallTyped
  <1>2. PICK s \in Schemas : SP!File \in SP!Prefixes(SP!FileOf[s])
    BY <1>1, Blocks, Assumed, SP!FileBegins DEF SP!TypeInv, SP!File
  <1>3. SP!File[2][1] = Len(s.items)
    BY <1>2, Assumed, SP!HeadTyped
  <1>4. Len(s.items) = 1
    BY DEF LayerRules
  <1> QED
    BY <1>3, <1>4, Assumed DEF SP!SchemaAssumption

\* A free of a pointer of the loaded schema.
LEMMA OwnFree ==
  ASSUME LayerInv, Elsewhere, stuck # "stale", NEW p, p \in SP!OwnPtrs \cup {-1},
         SP!Bfree(p)
  PROVE  ExecutorStep
  <1>1. CASE SP!Memory!BFreeNotHeld(p)
    <2>1. blive' = blive
      BY <1>1 DEF SP!Memory!BFreeNotHeld
    <2> QED
      BY <2>1, LoadNothing
  <1>2. ASSUME NEW b \in blive, b.ptr = p, SP!Memory!BFree(b)
        PROVE  ExecutorStep
    <2>1. b.ptr # -1
      BY <1>2, Blocks DEF SP!TypeInv, SP!Back!BackOK
    <2>2. b \notin lists
      BY <1>2, <2>1, Blocks DEF SP!MemInv, SP!OwnBlocks
    <2>3. b \in loads
      BY <2>2, Blocks
    <2> QED
      BY <1>2, <2>3, LoadFree
  <1> QED
    BY <1>1, <1>2 DEF SP!Bfree

\* What the schema store does for the client leaves what is stored alone.
LEMMA FilesAlone ==
  ASSUME LayerInv, UNCHANGED files, spc # "create", spc' # "create"
  PROVE  UNCHANGED <<S!Stored, S!Making>>
  BY Assumed, SP!StoredStays, SameSchemas

LEMMA SchemaStepsSteps ==
  ASSUME LayerRules, LayerInv, SchemaSteps
  PROVE  ExecutorStep /\ SchemasStep
  <1>1. SP!LoadHead \/ SP!LoadItem \/ SP!LoadClose \/ SP!FreeName
    BY SameSchemas DEF SchemaSteps
  <1>2. Elsewhere
    <2>1. UNCHANGED files /\ spc # "create" /\ spc' # "create"
      BY <1>1 DEF SP!LoadHead, SP!BadRead, SP!OutOfMemory, SP!LoadItem, SP!LoadClose,
         SP!FreeName, SP!FreeFailed, SP!Return, SP!disk
    <2> QED
      BY <2>1, FilesAlone DEF Elsewhere, SchemaSteps
  <1>3. ASSUME UNCHANGED memory PROVE ExecutorStep
    BY <1>2, <1>3, LoadNothing DEF memory
  <1>4. ASSUME SP!LoadHead PROVE ExecutorStep
    <2>1. \/ UNCHANGED memory
          \/ Len(SP!File) >= 2 /\ SP!Memory!BAlloc(ItemSize * SP!File[2][1])
      BY <1>4 DEF SP!LoadHead, SP!memory, memory
    <2>2. spc = "load" /\ plan.prev # "DEFINE_ATTRIBUTE" /\ ItemSize \in Nat
      BY <1>4, Assumed DEF SP!LoadHead, LayerInv, Shared, SP!SchemaAssumption
    <2> QED
      BY <1>2, <1>3, <2>1, <2>2, HeadOfOne, LoadAlloc
  <1>5. ASSUME SP!LoadItem PROVE ExecutorStep
    <2>1. \/ UNCHANGED memory
          \/ SP!Memory!BAlloc(TableLen[op.tbl])
      BY <1>5 DEF SP!LoadItem, SP!memory, memory
    <2>2. spc = "load" /\ plan.prev # "DEFINE_ATTRIBUTE"
      BY <1>5 DEF SP!LoadItem, LayerInv, Shared
    <2>3. op.tbl \in Tables /\ TableLen[op.tbl] \in Nat
      BY <2>2, Blocks, Assumed DEF SP!TypeInv, SP!CallTyped, SP!SchemaAssumption
    <2> QED
      BY <1>2, <1>3, <2>1, <2>2, <2>3, LoadAlloc
  <1>6. ASSUME SP!LoadClose PROVE ExecutorStep
    BY <1>3, <1>6 DEF SP!LoadClose, SP!memory, memory
  <1>7. ASSUME SP!FreeName PROVE ExecutorStep
    <2>1. /\ spc = "free" /\ stuck # "stale" /\ schema # None /\ op.i \in Nat
      BY <1>7, Blocks, Assumed, SP!FreeNameIs DEF SP!MemInv, SP!OwnBlocks
    <2>2. CASE op.i = 0
      BY <1>3, <1>7, <2>2 DEF SP!FreeName, SP!memory, memory
    <2>3. CASE op.i > 0
      <3>1. op.i \in 1 .. Len(schema.names) /\ SP!Bfree(schema.names[op.i])
        BY <1>7, <2>3, Blocks, Assumed, SP!FreeNameIs
      <3>2. schema.names[op.i] \in SP!OwnPtrs \cup {-1}
        BY <2>1, <3>1, Blocks, Assumed, SP!Pointing, SameMemory
      <3> QED
        BY <1>2, <2>1, <3>1, <3>2, OwnFree
    <2> QED
      BY <2>1, <2>2, <2>3
  <1>8. SP!Next
    BY <1>1 DEF SP!Next, SP!Steps
  <1> QED
    BY <1>1, <1>4, <1>5, <1>6, <1>7, <1>8 DEF SchemasStep

LEMMA SchemaCallsSteps ==
  ASSUME LayerInv, SchemaCalls
  PROVE  ExecutorStep /\ SchemasStep
  <1>1. \/ \E t \in Tables : SP!LoadOpen(t)
        \/ stuck # "stale" /\ (SP!FreeNames \/ SP!FreeItems)
    BY SameSchemas DEF SchemaCalls
  <1>2. Elsewhere
    <2>1. UNCHANGED files /\ spc # "create" /\ spc' # "create"
      BY <1>1 DEF SP!LoadOpen, SP!FreeNames, SP!FreeItems, SP!FreeFailed, SP!Return, SP!disk
    <2> QED
      BY <2>1, FilesAlone DEF Elsewhere, SchemaCalls
  <1>3. ASSUME (\E t \in Tables : SP!LoadOpen(t)) \/ SP!FreeNames
        PROVE  ExecutorStep
    <2>1. blive' = blive
      BY <1>3 DEF SP!LoadOpen, SP!FreeNames, SP!memory
    <2> QED
      BY <1>2, <2>1, LoadNothing
  <1>4. ASSUME stuck # "stale", SP!FreeItems
        PROVE  ExecutorStep
    <2>1. schema # None /\ SP!Bfree(schema.items)
      BY <1>4 DEF SP!FreeItems
    <2>2. schema.items \in SP!OwnPtrs \cup {-1}
      BY <2>1, Blocks, Assumed, SP!Pointing, SameMemory
    <2> QED
      BY <1>2, <1>4, <2>1, <2>2, OwnFree
  <1>5. SP!Next
    BY <1>1 DEF SP!Next, SP!Calls
  <1> QED
    BY <1>1, <1>3, <1>4, <1>5 DEF SchemasStep

------------------------------------------------------------------------------
(***************************************************************************)
(* The invariant.                                                          *)
(***************************************************************************)
LEMMA EveryStep ==
  ASSUME LayerRules, LayerInv, [Next]_vars
  PROVE  ExecutorStep /\ SchemasStep
  <1>1. CASE Steps
    BY <1>1, DefineAttributeSteps, FreeListSteps, AloneSteps, BeginSchemaSteps,
       WriteSchemaSteps, SchemaStepsSteps DEF Steps
  <1>2. CASE SchemaCalls \/ Run \/ PowerFailure
    BY <1>2, SchemaCallsSteps, RunSteps, PowerFailureSteps
  <1>3. CASE \E t \in Tables : Delete(t)
    BY <1>3, DeleteSteps
  <1>4. CASE UNCHANGED vars
    <2>1. UNCHANGED <<executor, files, spc, op, memory, schemas, stuck, lists, loads>>
      BY <1>4 DEF vars, schemas
    <2>2. UNCHANGED <<S!Stored, S!Making>>
      BY <2>1 DEF S!Stored, S!Making, S!Creating, S!SchemaIn
    <2> QED
      BY <2>1, <2>2 DEF executor, memory, ExecutorStep, SchemasStep, executorView,
         schemasView, E!schemas
  <1> QED
    BY <1>1, <1>2, <1>3, <1>4 DEF Next

\* The invariants of the two are those of their own modules.
LEMMA NextBoth ==
  ASSUME LayerRules, LayerInv, ExecutorStep, SchemasStep
  PROVE  EP!AllInv' /\ SP!AllInv'
  <1>1. EP!AllInv /\ SP!AllInv /\ EP!PlansRule
    BY SameExecutor DEF LayerInv, LayerRules
  <1>2. EP!AllInv'
    <2>1. CASE EP!Next
      BY <1>1, <2>1, Assumed, EP!NextAll
    <2>2. CASE UNCHANGED executorView
      <3>1. UNCHANGED EP!held
        BY <2>2 DEF executorView, E!schemas, EP!held
      <3> QED
        BY <1>1, <3>1, Assumed, EP!AllStays
    <2> QED
      BY <2>1, <2>2 DEF ExecutorStep
  <1>3. SP!AllInv'
    <2>1. CASE SP!Next
      BY <1>1, <2>1, Assumed, SP!NextAll
    <2>2. CASE UNCHANGED schemasView
      <3>1. UNCHANGED SP!held
        BY <2>2 DEF schemasView, schemas, SP!held
      <3> QED
        BY <1>1, <3>1, Assumed, SP!AllStays
    <2> QED
      BY <2>1, <2>2 DEF SchemasStep
  <1> QED
    BY <1>2, <1>3

LEMMA NextShared ==
  ASSUME LayerInv, Next, lists' \subseteq blive', loads' \subseteq blive'
  PROVE  Shared'
  <1>1. Shared /\ (pc = "store" <=> spc = "create")
    BY Blocks DEF LayerInv
  <1>2. CASE DefineAttribute \/ FreeList
    <2>1. pc \in {"run", "free"}
      BY <1>2, SameExecutor DEF DefineAttribute, FreeList, EP!DefineAttribute,
         EP!FreeList, EP!Runs
    <2>2. lists' = blive' \ loads' /\ spc' = spc /\ spc \in {"idle", "create"}
      BY <1>1, <1>2, <2>1 DEF DefineAttribute, FreeList, ListTaken, schemas, Shared
    <2> QED
      BY <2>2 DEF Shared
  <1>3. CASE Alone
    <2>1. pc # "idle"
      BY <1>3, SameExecutor DEF Alone, EP!Nop, EP!Halt, EP!Undefined,
         EP!CreateDictionary, EP!CloseDictionary, EP!Runs
    <2> QED
      BY <1>1, <1>3, <2>1 DEF Alone, schemas, memory, Shared
  <1>4. CASE BeginSchema
    <2>1. spc' \in {"idle", "create"} /\ UNCHANGED <<blive, lists, loads>>
      BY <1>4, SameSchemas DEF BeginSchema, SP!CreateOpen, SP!memory
    <2> QED
      BY <1>1, <2>1 DEF Shared
  <1>5. CASE WriteSchema
    <2>1. spc' \in {"idle", "create"} /\ UNCHANGED <<blive, lists, loads>>
      BY <1>5, SameSchemas DEF WriteSchema, SP!CreateWrite, SP!CreateClose, SP!memory
    <2> QED
      BY <1>1, <2>1 DEF Shared
  <1>6. CASE SchemaSteps
    <2>1. spc' = "load" => spc = "load"
      BY <1>6, SameSchemas DEF SchemaSteps, SP!LoadHead, SP!LoadItem, SP!LoadClose,
         SP!FreeName, SP!BadRead, SP!OutOfMemory, SP!FreeFailed, SP!Return
    <2>2. pc' = "idle" /\ plan' = plan /\ loads' = blive' \ lists'
      BY <1>6 DEF SchemaSteps, LoadTaken
    <2> QED
      BY <1>1, <2>1, <2>2 DEF Shared
  <1>7. CASE SchemaCalls
    <2>1. spc' = "load" => plan.prev # "DEFINE_ATTRIBUTE"
      BY <1>7, SameSchemas DEF SchemaCalls, SP!FreeNames, SP!FreeItems, SP!FreeFailed,
         SP!Return
    <2>2. pc' = "idle" /\ plan' = plan /\ loads' = blive' \ lists'
      BY <1>7 DEF SchemaCalls, LoadTaken
    <2> QED
      BY <2>1, <2>2 DEF Shared
  <1>8. CASE Run
    <2>1. spc' = "idle" /\ UNCHANGED <<blive, lists, loads>>
      BY <1>8 DEF Run, schemas, memory
    <2> QED
      BY <1>1, <2>1 DEF Shared
  <1>9. CASE PowerFailure
    BY <1>9, SameSchemas DEF PowerFailure, SP!PowerFailure, SP!Return, Shared
  <1>10. ASSUME NEW t \in Tables, Delete(t) PROVE Shared'
    <2>1. spc' = "idle" /\ UNCHANGED <<blive, lists, loads>>
      BY <1>10, SameSchemas DEF Delete, SP!Delete, SP!Return, SP!memory
    <2> QED
      BY <1>1, <2>1 DEF Shared
  <1> QED
    BY <1>2, <1>3, <1>4, <1>5, <1>6, <1>7, <1>8, <1>9, <1>10 DEF Next, Steps

\* Past an instruction that is no CREATE_TABLE.
LEMMA GoesOn ==
  ASSUME LayerRules, LayerInv, ~EP!Ended, EP!Cur.op # "CREATE_TABLE",
         plan' = EP!NextInstruction(plan), defs' = defs
  PROVE  OneDefined'
  <1>1. /\ plan.code \in Plans /\ plan.idx \in Nat
        /\ plan.idx + 1 \in 1 .. Len(plan.code)
        /\ plan.idx + 1 < Byte => (plan.idx + 1) % Byte = plan.idx + 1
    BY Blocks, Assumed, EP!Instruction DEF EP!TypeInv, EP!PlanTyped, EP!Executable
  <1>2. plan.idx + 1 < Byte
    <2>1. Len(plan.code) < Byte
      BY <1>1 DEF LayerRules, OneAttribute
    <2> QED
      BY <1>1, <2>1, Assumed DEF EP!ExecutorAssumption
  <1>3. plan'.code = plan.code /\ plan'.idx = plan.idx + 1
    BY <1>1, <1>2, Blocks DEF EP!NextInstruction, EP!TypeInv, EP!PlanTyped, EP!Executable
  <1>4. plan.code[plan.idx + 1].op # "CREATE_TABLE"
    BY DEF EP!Cur
  <1> SUFFICES ASSUME defs # <<>>
               PROVE  \A i \in plan.idx + 2 .. Len(plan.code) :
                        plan.code[i].op = "DEFINE_ATTRIBUTE" =>
                          \E j \in plan.idx + 2 .. i : plan.code[j].op = "CREATE_TABLE"
    BY <1>1, <1>3 DEF LayerInv, OneDefined
  <1> TAKE i \in plan.idx + 2 .. Len(plan.code)
  <1> HAVE plan.code[i].op = "DEFINE_ATTRIBUTE"
  <1>5. PICK j \in plan.idx + 1 .. i : plan.code[j].op = "CREATE_TABLE"
    <2>1. i \in plan.idx + 1 .. Len(plan.code)
      BY <1>1
    <2> QED
      BY <2>1 DEF LayerInv, OneDefined
  <1>6. j \in plan.idx + 2 .. i
    BY <1>1, <1>4, <1>5
  <1> QED
    BY <1>5, <1>6

\* After a definition there is none before the next CREATE_TABLE.
LEMMA DefinesOne ==
  ASSUME LayerRules, LayerInv, EP!DefineAttribute
  PROVE  OneDefined'
  <1>1. CASE UNCHANGED <<plan, defs>>
    BY <1>1 DEF LayerInv, OneDefined
  <1>2. CASE /\ plan' = EP!NextInstruction(EP!Listed(ret'))
             /\ defs' = Append(defs, EP!ItemOf(EP!Cur.arg))
    <2> DEFINE k == plan.idx + 1
    <2>1. /\ EP!Cur = plan.code[k] /\ EP!Cur.op = "DEFINE_ATTRIBUTE"
          /\ defs = <<>> /\ k \in 1 .. Len(plan.code) /\ plan.code \in Plans
      BY DefinesFirst DEF EP!Cur
    <2>2. defs' = <<EP!ItemOf(EP!Cur.arg)>>
      BY <1>2, <2>1
    <2>3. EP!ItemOf(EP!Cur.arg) \in Defined
      <3>1. /\ EP!Cur \in UNION {{p[m] : m \in 1 .. Len(p)} : p \in Plans}
        BY <2>1
      <3> QED
        BY <2>1, <3>1, SameExecutor DEF Defined
    <2>4. plan'.code = plan.code /\ plan'.idx = k
      <3>1. /\ EP!Listed(ret').code = plan.code /\ EP!Listed(ret').idx = plan.idx
            /\ EP!NextInstruction(EP!Listed(ret')).code = plan.code
            /\ EP!NextInstruction(EP!Listed(ret')).idx = k % Byte
        BY Blocks DEF EP!Listed, EP!NextInstruction, EP!TypeInv, EP!PlanTyped, EP!Executable
      <3>2. ~EP!Ended
        BY DefinesFirst, Blocks DEF EP!TypeInv, EP!PlanTyped
      <3>3. k % Byte = k
        BY <2>1, <3>2, Blocks, Assumed, EP!Instruction
      <3> QED
        BY <1>2, <3>1, <3>3
    <2>5. ASSUME NEW i \in k + 1 .. Len(plan.code), plan.code[i].op = "DEFINE_ATTRIBUTE"
          PROVE  \E j \in k + 1 .. i : plan.code[j].op = "CREATE_TABLE"
      <3>1. i \in 1 .. Len(plan.code) /\ k < i
        BY <2>1
      <3>2. PICK j \in k .. i : plan.code[j].op = "CREATE_TABLE"
        BY <2>1, <2>5, <3>1 DEF LayerRules, OneAttribute
      <3>3. j \in k + 1 .. i
        BY <2>1, <3>1, <3>2
      <3> QED
        BY <3>2, <3>3
    <2> QED
      BY <2>2, <2>3, <2>4, <2>5 DEF OneDefined
  <1> QED
    BY <1>1, <1>2 DEF EP!DefineAttribute

LEMMA NextOneDefined ==
  ASSUME LayerRules, LayerInv, Next
  PROVE  OneDefined'
  <1>1. ASSUME UNCHANGED plan, defs' \in {defs, <<>>} PROVE OneDefined'
    BY <1>1 DEF LayerInv, OneDefined
  <1>2. CASE DefineAttribute
    BY <1>2, SameExecutor, DefinesOne DEF DefineAttribute
  <1>3. CASE FreeList
    <2>1. defs = <<>> /\ defs' = defs
      BY <1>3, SameExecutor, Blocks DEF FreeList, EP!FreeList, EP!PlanInv
    <2> QED
      BY <2>1 DEF OneDefined
  <1>4. CASE Alone
    <2>1. \/ EP!Nop \/ EP!Halt
          \/ UNCHANGED <<plan, defs>>
      BY <1>4, SameExecutor DEF Alone, EP!Undefined, EP!CreateDictionary, EP!CloseDictionary
    <2>2. CASE EP!Nop \/ EP!Halt
      <3>1. /\ pc = "run" /\ EP!Cur.op # "CREATE_TABLE" /\ defs' = defs
            /\ plan' = EP!NextInstruction(plan)
        BY <2>2 DEF EP!Nop, EP!Halt, EP!Runs
      <3>2. ~EP!Ended
        BY <3>1, Blocks DEF EP!TypeInv, EP!PlanTyped
      <3> QED
        BY <3>1, <3>2, GoesOn
    <2> QED
      BY <1>1, <2>1, <2>2
  <1>5. CASE BeginSchema \/ WriteSchema
    <2>1. UNCHANGED plan /\ defs' \in {defs, <<>>}
      BY <1>5 DEF BeginSchema, WriteSchema, Answered
    <2> QED
      BY <1>1, <2>1
  <1>6. CASE SchemaSteps \/ SchemaCalls \/ \E t \in Tables : Delete(t)
    BY <1>1, <1>6 DEF SchemaSteps, SchemaCalls, Delete
  <1>7. CASE Run
    <2>1. EP!Execute \/ \E p \in Plans : EP!InitExecutable(p)
      BY <1>7, SameExecutor DEF Run
    <2>2. UNCHANGED <<plan, defs>> \/ defs' = <<>>
      BY <2>1 DEF EP!Execute, EP!InitExecutable
    <2> QED
      BY <1>1, <2>2 DEF OneDefined
  <1>8. CASE PowerFailure
    BY <1>8 DEF PowerFailure, OneDefined
  <1> QED
    BY <1>2, <1>3, <1>4, <1>5, <1>6, <1>7, <1>8 DEF Next, Steps

LEMMA NextMade ==
  ASSUME LayerRules, LayerInv, Next
  PROVE  MadeStored'
  <1>1. ASSUME UNCHANGED schemas PROVE UNCHANGED <<S!Stored, S!Making>>
    BY <1>1 DEF schemas, S!Stored, S!Making, S!Creating, S!SchemaIn
  <1>2. CASE DefineAttribute \/ FreeList \/ Alone \/ Run
    <2>1. UNCHANGED <<schemas, made>>
      BY <1>2 DEF DefineAttribute, FreeList, Alone, Run
    <2> QED
      BY <1>1, <2>1, MadeKept
  <1>3. CASE SchemaSteps \/ SchemaCalls
    <2>1. UNCHANGED files /\ spc # "create" /\ spc' # "create"
      BY <1>3, SameSchemas DEF SchemaSteps, SchemaCalls, SP!LoadHead, SP!BadRead,
         SP!OutOfMemory, SP!LoadItem, SP!LoadClose, SP!LoadOpen, SP!FreeNames,
         SP!FreeName, SP!FreeItems, SP!FreeFailed, SP!Return, SP!disk
    <2> QED
      BY <1>3, <2>1, FilesAlone, MadeKept DEF SchemaSteps, SchemaCalls
  <1> QED
    BY <1>2, <1>3, BeginSchemaSteps, WriteSchemaSteps, PowerFailureSteps, DeleteSteps
       DEF Next, Steps

LEMMA NextLayer ==
  ASSUME LayerRules, LayerInv, [Next]_vars
  PROVE  LayerInv'
  <1>1. EP!AllInv' /\ SP!AllInv'
    BY EveryStep, NextBoth
  <1>2. CASE Next
    <2>1. lists' \subseteq blive' /\ loads' \subseteq blive'
      BY <1>1 DEF EP!AllInv, EP!ListsInv, EP!MemoryInv, SP!AllInv, SP!MemInv, SP!OwnBlocks
    <2> QED
      BY <1>1, <1>2, <2>1, NextShared, NextOneDefined, NextMade DEF LayerInv
  <1>3. CASE UNCHANGED vars
    <2>1. UNCHANGED <<plan, defs, made, schemas, files, op, pc, spc, lists, loads, blive>>
      BY <1>3 DEF vars, executor, schemas, memory
    <2>2. UNCHANGED <<S!Stored, S!Making>>
      BY <2>1 DEF S!Stored, S!Making, S!Creating, S!SchemaIn
    <2>3. Shared' /\ OneDefined'
      BY <2>1 DEF LayerInv, Shared, OneDefined
    <2> QED
      BY <1>1, <2>1, <2>2, <2>3, MadeKept DEF LayerInv
  <1> QED
    BY <1>2, <1>3

LEMMA InitLayer == Init => LayerInv
  <1> SUFFICES ASSUME Init PROVE LayerInv
    OBVIOUS
  <1>1. EP!Init /\ SP!Init
    BY SameExecutor, SameSchemas DEF Init
  <1>2. EP!AllInv /\ SP!AllInv
    BY <1>1, Assumed, EP!InitAll, SP!InitAll
  <1>3. /\ S!Stored = [t \in Tables |-> None] /\ S!Making = None
        /\ blive = {} /\ defs = <<>> /\ pc = "idle"
    BY <1>1 DEF EP!Init
  <1>4. spc = "idle" /\ lists = {} /\ loads = {} /\ made = [t \in Tables |-> None]
    BY <1>1 DEF SP!Init, Init
  <1> QED
    BY <1>2, <1>3, <1>4 DEF LayerInv, Shared, OneDefined, MadeStored

LEMMA SpecLayer == LayerRules => (Spec => []LayerInv)
  <1> SUFFICES ASSUME LayerRules PROVE Spec => []LayerInv
    OBVIOUS
  <1>1. LayerInv /\ [Next]_vars => LayerInv'
    BY NextLayer
  <1> QED
    BY <1>1, InitLayer, PTL DEF Spec
------------------------------------------------------------------------------
(***************************************************************************)
(* The theorems.                                                           *)
(***************************************************************************)
\* An instruction runs while no schema is loaded, freed or deleted, CREATE_TABLE waits
\* for its file exactly while one is being made, and every block on the back stack
\* belongs to the executor or to a loaded schema, never to both.
THEOREM TypeCorrect == LayerRules => (Spec => []TypeOK)
  <1> SUFFICES ASSUME LayerRules PROVE Spec => []TypeOK
    OBVIOUS
  <1>1. LayerInv => TypeOK
    <2> SUFFICES ASSUME LayerInv PROVE TypeOK
      OBVIOUS
    <2>1. E!TypeOK
      BY Blocks, Assumed, EP!Typed, SameExecutor
    <2>2. open \in 0 .. MaxOpen
      BY Blocks DEF SP!TypeInv, SP!CallTyped
    <2> QED
      BY <2>1, <2>2 DEF LayerInv, Shared, TypeOK
  <1> QED
    BY <1>1, SpecLayer, PTL

\* Neither a plan nor a load or a free of a schema gives back a block of the other:
\* bfree takes an address, and the executor's list and the client's schemas lie in
\* one stack, in whatever order they were allocated.
THEOREM KeepsBlocks == LayerRules => (Spec => []BlocksKept)
  <1> SUFFICES ASSUME LayerRules PROVE Spec => []BlocksKept
    OBVIOUS
  <1>1. LayerInv => BlocksKept
    BY Blocks DEF EP!MemoryInv, SP!MemInv, SP!OwnBlocks, BlocksKept, E!OthersKept,
       S!OthersKept
  <1> QED
    BY <1>1, SpecLayer, PTL

\* When plans and loads have finished and nothing has failed on the way, what is left
\* on the back stack is what the client still holds, and no file is open.
THEOREM ReturnsMemory == LayerRules => (Spec => []MemoryReturned)
  <1> SUFFICES ASSUME LayerRules PROVE Spec => []MemoryReturned
    OBVIOUS
  <1>1. LayerInv => MemoryReturned
    <2> SUFFICES ASSUME LayerInv PROVE MemoryReturned
      OBVIOUS
    <2>1. EP!MemoryReturned
      BY Assumed, EP!Returned DEF LayerInv, EP!AllInv
    <2>2. SP!NothingLost
      BY Blocks, Assumed, SP!MemLost
    <2> QED
      BY <2>1, <2>2, SameExecutor, SameSchemas DEF MemoryReturned
  <1> QED
    BY <1>1, SpecLayer, PTL

\* A load that answers OK gives the attributes the table was defined with, from the
\* DEFINE_ATTRIBUTE of a plan through its list, the file and back into memory, and
\* the id of a dictionary that was made with room for exactly these.
THEOREM LoadsWhatWasDefined == LayerRules => (Spec => LoadedAsDefined)
  <1> SUFFICES ASSUME LayerRules PROVE Spec => LoadedAsDefined
    OBVIOUS
  <1>1. ASSUME LayerInv, S!LoadClose
        PROVE  /\ schema.read = made[op.tbl]
               /\ schema.id \in DOMAIN dicts
               /\ dicts[schema.id] = E!ValueSize(schema.read)
    <2> DEFINE t == op.tbl
    <2>1. SP!LoadClose
      BY <1>1, SameSchemas
    <2>2. /\ S!Stored[t] \in Schemas
          /\ [id |-> schema.id, items |-> schema.read] = S!Stored[t]
      BY <1>1, <2>1, Blocks, Assumed, SP!LoadsWhole, SameSchemas
    <2>3. t \in Tables
      BY <1>1, <2>1, Blocks DEF SP!LoadClose, SP!TypeInv, SP!CallTyped
    <2>4. S!Stored[t] \notin {None, Damaged}
      BY <2>2, Assumed DEF SP!NoneAssumption
    <2>5. schema.id = S!Stored[t].id /\ schema.read = S!Stored[t].items
      BY <2>2
    <2>6. schema.read = made[t]
      BY <1>1, <2>3, <2>4, <2>5 DEF LayerInv, MadeStored
    <2>7. /\ schema.id \in 1 .. Len(dicts)
          /\ dicts[schema.id] = EP!ValueSize(schema.read)
      BY <1>1, <2>3, <2>4, <2>5, Blocks DEF EP!DictInv, EP!Stored
    <2>8. DOMAIN dicts = 1 .. Len(dicts)
      BY <1>1, Blocks DEF EP!TypeInv, EP!DictsTyped
    <2> QED
      BY <2>6, <2>7, <2>8, SameExecutor
  <1> QED
    BY <1>1, SpecLayer, PTL DEF LoadedAsDefined

\* CREATE_TABLE over ion_table_create_schema, with a file that is opened, written
\* field by field and closed, is CREATE_TABLE over a store that takes whole schemas:
\* the properties of Executor hold of the table layer.
THEOREM LayerImplementsExecutor == LayerRules => (Spec => ImplementsExecutor)
  <1> SUFFICES ASSUME LayerRules PROVE Spec => ImplementsExecutor
    OBVIOUS
  <1>1. EP!Next => E!Next
    BY SameExecutor DEF EP!Next, EP!Steps, EP!Client, E!Next, E!Steps, E!Client
  <1>2. LayerInv /\ [Next]_vars =>
          [E!Next]_<<plan, pc, status, cells, dicts, E!schemas, blive, loads, defs, clean, kept>>
    BY <1>1, EveryStep DEF ExecutorStep, executorView
  <1>3. Init => E!Init
    BY DEF Init
  <1> QED
    BY <1>2, <1>3, SpecLayer, PTL DEF Spec, ImplementsExecutor

\* The schema store under the executor is the one whose clients do whatever they like
\* with the rest of memory: its properties hold although CREATE_TABLE calls it with
\* what it finds in a list, and the lists grow and go beside the loaded schemas.
THEOREM LayerImplementsSchemas == LayerRules => (Spec => ImplementsSchemas)
  <1> SUFFICES ASSUME LayerRules PROVE Spec => ImplementsSchemas
    OBVIOUS
  <1>1. SP!Next => S!Next
    BY SameSchemas DEF SP!Next, SP!Steps, SP!Calls, S!Next, S!Steps, S!Calls
  <1>2. LayerInv /\ [Next]_vars => [S!Next]_<<schemas, stuck, blive, lists>>
    BY <1>1, EveryStep DEF SchemasStep, schemasView
  <1>3. Init => S!Init
    BY DEF Init
  <1> QED
    BY <1>2, <1>3, SpecLayer, PTL DEF Spec, ImplementsSchemas

\* What holds of the store of whole schemas holds of the files: every file that is whole
\* has a dictionary of its own with room for its attributes, also when the power failed
\* between the two, and a list among loaded schemas lies as it was defined.
THEOREM FilesHaveDictionaries ==
  LayerRules => (Spec => [](E!DictionariesOwned /\ E!DictionaryFits /\ E!ListInMemory))
  <1> SUFFICES ASSUME LayerRules
               PROVE  Spec => [](E!DictionariesOwned /\ E!DictionaryFits /\ E!ListInMemory)
    OBVIOUS
  <1>1. LayerInv => E!DictionariesOwned /\ E!DictionaryFits /\ E!ListInMemory
    <2> SUFFICES ASSUME LayerInv
                 PROVE  E!DictionariesOwned /\ E!DictionaryFits /\ E!ListInMemory
      OBVIOUS
    <2>1. E!DictionariesOwned
      <3>1. E!Stored = EP!Stored
        BY DEF E!Stored, EP!Stored
      <3>2. /\ \A t \in E!Stored : S!Stored[t].id \in 1 .. Len(dicts)
            /\ \A t, u \in E!Stored : S!Stored[t].id = S!Stored[u].id => t = u
            /\ clean /\ pc = "idle" =>
                 \A i \in 1 .. Len(dicts) : \E t \in E!Stored : S!Stored[t].id = i
        BY <3>1, Blocks DEF EP!DictInv, EP!Pending
      <3> QED
        BY <3>2 DEF E!DictionariesOwned
    <2>2. E!DictionaryFits
      BY Blocks, SameExecutor DEF EP!DictInv, EP!Stored, E!Stored, E!DictionaryFits
    <2>3. E!ListInMemory
      BY Blocks DEF EP!MemoryInv, EP!ListInv, EP!ListBlock, EP!Back!Topmost, E!ListInMemory
    <2> QED
      BY <2>1, <2>2, <2>3
  <1> QED
    BY <1>1, SpecLayer, PTL
=============================================================================
