----------------------------- MODULE TableLayer ------------------------------
(***************************************************************************)
(* The table layer as a whole: the executor of src/src/vme.c over the      *)
(* schema store of src/src/schema.c, both in the back stack of one memory  *)
(* manager.  Between two calls of the executor the client loads, frees and *)
(* deletes schemas.                                                        *)
(*                                                                         *)
(* E and S are the two components.  Their code is theirs; what is added    *)
(* here is where CREATE_TABLE calls the schema store, field by field of    *)
(* the file, and which of the two has which block of the stack.  The code  *)
(* is single threaded: at most one of pc and spc starts a call of its own. *)
(***************************************************************************)
EXTENDS Integers, Sequences

CONSTANTS
  SegSize, IntSize, ItemSize, Byte, Plans, Tables, MaxDicts, Junk, \* as in Executor
  TableLen, NameLen, Schemas, MaxOpen, Faults, Garbled,            \* as in Schema
  None, Damaged

VARIABLES
  plan, pc, status, cells, dicts, defs, clean, kept,        \* as in Executor
  answer,     \* what a create or delete of a schema answered last
  files, open, schema, spc, op, sstatus, stuck, sclean,     \* as in Schema
  blive, ret, call,   \* the back stack of the memory manager (TwoStacks)
  lists,      \* the blocks of the executor
  loads,      \* the blocks of loaded schemas
  made        \* the attributes each table was last created with

executor == <<plan, pc, status, cells, dicts, defs, clean, kept, answer>>
schemas == <<files, open, schema, spc, op, sstatus, sclean>>
memory == <<blive, ret, call>>
vars == <<executor, schemas, stuck, memory, lists, loads, made>>

S == INSTANCE Schema
  WITH pc <- spc, status <- sstatus, clean <- sclean, others <- lists,
       OtherSizes <- {ItemSize}
E == INSTANCE Executor
  WITH store <- S!Stored, making <- S!Making, res <- answer, others <- loads,
       OtherSizes <- {TableLen[t] : t \in Tables} \cup {ItemSize}

ASSUME ComponentsAssumption == S!SchemaAssumption /\ E!ExecutorAssumption
ASSUME NoneAssumption == S!NoneAssumption /\ E!NoneAssumption

\* The items that plans define.
Defined ==
  {E!ItemOf(i.arg) : i \in {x \in UNION {{p[k] : k \in 1 .. Len(p)} : p \in Plans} :
                             x.op = "DEFINE_ATTRIBUTE"}}

\* A plan makes a table of every attribute before it defines another one, and ends
\* before its index wraps.
OneAttribute(p) ==
  /\ Len(p) < Byte
  /\ \A i, j \in 1 .. Len(p) :
       i < j /\ p[i].op = "DEFINE_ATTRIBUTE" /\ p[j].op = "DEFINE_ATTRIBUTE"
       => \E k \in i .. j : p[k].op = "CREATE_TABLE"

\* What the two components together rely on: plans of the form for which CREATE_TABLE
\* reads the list that was defined, names that fit, and files that can be opened and
\* closed.  Schemas are what such plans create.
LayerRules ==
  /\ E!PlansRule /\ \A p \in Plans : OneAttribute(p)
  /\ Schemas = [id : 1 .. MaxDicts, items : {<<item>> : item \in Defined}]
  /\ \A t \in Tables, s \in Schemas : S!NamesRule(t, s)
  /\ Faults \cap {"open", "close"} = {}
------------------------------------------------------------------------------
(***************************************************************************)
(* The executor.  What it allocates is on top of what a client that has    *)
(* failed to free its schema still points to.                              *)
(***************************************************************************)
ListTaken ==
  /\ lists' = blive' \ loads
  /\ stuck' = IF stuck = "no" \/ blive' \subseteq blive THEN stuck ELSE "stale"

DefineAttribute ==
  /\ UNCHANGED <<schemas, answer, loads, made>>
  /\ E!DefineAttribute /\ ListTaken

FreeList ==
  /\ UNCHANGED <<schemas, answer, loads, made>>
  /\ E!FreeList /\ ListTaken

\* The instructions and steps that touch neither memory nor schemas.
Alone ==
  /\ UNCHANGED <<schemas, stuck, answer, memory, lists, loads, made>>
  /\ \/ E!Nop \/ E!Halt \/ E!Undefined \/ E!CreateDictionary \/ E!CloseDictionary

\* CREATE_TABLE calls ion_table_create_schema, which goes on by itself.
BeginSchema ==
  /\ pc = "schema"
  /\ S!CreateOpen(E!Cur.arg, [id |-> E!IdOf, items |-> E!Items])
  /\ \/ /\ spc' = "create" /\ pc' = "store"
        /\ made' = [made EXCEPT ![E!Cur.arg] = defs]
        /\ UNCHANGED <<status, clean, answer>>
     \/ /\ spc' = "idle" /\ E!Fail("TABLE_ALREADY_EXISTS") /\ answer' = sstatus'
        /\ UNCHANGED made
  /\ UNCHANGED <<plan, cells, dicts, defs, kept, lists, loads>>

AnsweredOK(error) ==                            \* mutant: the error is not looked at
  /\ answer' = sstatus' /\ pc' = "free" /\ defs' = <<>> /\ UNCHANGED <<status, clean>>
Answered(error) ==
  /\ answer' = sstatus'
  /\ \/ error = "OK" /\ pc' = "free" /\ defs' = <<>> /\ UNCHANGED <<status, clean>>
     \/ error # "OK" /\ E!Fail("TABLE_ALREADY_EXISTS") /\ UNCHANGED defs

WriteSchema ==
  /\ pc = "store" /\ (S!CreateWrite \/ S!CreateClose)
  /\ \/ spc' = "create" /\ UNCHANGED <<pc, status, defs, clean, answer>>
     \/ spc' = "idle" /\ Answered(sstatus')
  /\ UNCHANGED <<plan, cells, dicts, kept, lists, loads, made>>
------------------------------------------------------------------------------
(***************************************************************************)
(* The client, between two calls of the executor.                          *)
(***************************************************************************)
\* What a load allocates overwrites what lies there.
LoadTaken ==
  /\ loads' = blive' \ lists
  /\ cells' \in {E!Overwritten(b.ptr, b.size) : b \in loads' \ loads}
              \cup (IF loads' \subseteq loads THEN {cells} ELSE {})

\* A load or a free of a schema goes on until it answers.
SchemaSteps ==
  /\ pc = "idle"
  /\ \/ S!LoadHead \/ S!LoadItem \/ S!LoadClose \/ S!FreeName
  /\ LoadTaken
  /\ UNCHANGED <<plan, pc, status, dicts, defs, clean, kept, answer, lists, made>>

SchemaCalls ==
  /\ pc = "idle"
  /\ \/ plan.prev # "DEFINE_ATTRIBUTE" /\ \E t \in Tables : S!LoadOpen(t)
     \/ stuck # "stale" /\ (S!FreeNames \/ S!FreeItems)
  /\ LoadTaken
  /\ UNCHANGED <<plan, pc, status, dicts, defs, clean, kept, answer, lists, made>>

Delete(t) ==
  /\ pc = "idle"
  /\ S!Delete(t) /\ answer' = sstatus' /\ clean' = FALSE
  /\ UNCHANGED <<plan, pc, status, cells, dicts, defs, kept, lists, loads, made>>

Run ==
  /\ spc = "idle"
  /\ UNCHANGED <<schemas, stuck, answer, memory, lists, loads, made>>
  /\ \/ ~E!Ended /\ E!ListRule /\ E!Execute
     \/ \E p \in Plans : E!InitExecutable(p)

PowerFailure ==
  /\ S!PowerFailure
  /\ lists' = {} /\ loads' = {} /\ answer' = "none"
  /\ \E p \in Plans : plan' = E!ion_table_init_executable(p)
  /\ pc' = "idle" /\ status' = "STATUS_UNINITIALIZED"
  /\ cells' = [a \in E!Addr |-> Junk] /\ defs' = <<>> /\ clean' = FALSE /\ kept' = TRUE
  /\ UNCHANGED <<dicts, made>>

Init ==
  /\ S!Init /\ loads = {} /\ answer = "none"
  /\ E!Init /\ made = [t \in Tables |-> None]

Steps ==
  DefineAttribute \/ FreeList \/ Alone \/ BeginSchema \/ WriteSchema \/ SchemaSteps

Next == Steps \/ SchemaCalls \/ Run \/ PowerFailure \/ \E t \in Tables : Delete(t)

Spec == Init /\ [][Next]_vars /\ WF_vars(Steps)
------------------------------------------------------------------------------
(***************************************************************************)
(* Properties.                                                             *)
(***************************************************************************)
\* At most one component is in a call, except that CREATE_TABLE waits for the file;
\* the blocks of the two are the blocks that are held.
TypeOK ==
  /\ E!TypeOK /\ open \in 0 .. MaxOpen
  /\ pc # "idle" => spc \in {"idle", "create"}
  /\ lists \cup loads = blive /\ lists \cap loads = {}

\* Neither a plan nor a load or a free of a schema gives back a block of the other,
\* although all of them free by address and lie in one stack.
BlocksKept == E!OthersKept /\ S!OthersKept

\* A plan and a client that have both finished without a failure leave the memory
\* as they found it, and no file open.
MemoryReturned == E!MemoryReturned /\ S!NothingLost

\* From a plan to a file to memory: a load that answers OK gives the attributes
\* that were defined for the table, and an id whose dictionary has room for exactly
\* these, whatever failed, was retried or deleted, and wherever the power failed.
LoadedAsDefined ==
  [][S!LoadClose =>
       /\ schema.read = made[op.tbl]
       /\ schema.id \in DOMAIN dicts
       /\ dicts[schema.id] = E!ValueSize(schema.read)]_vars

\* The executor over the real schema store is the executor over the store of whole
\* schemas that the other properties of it are about.  Results of the memory manager
\* nobody has asked for yet are left out.
ImplementsExecutor ==
  E!Init /\ [][E!Next]_<<plan, pc, status, cells, dicts, E!schemas, blive, loads, defs, clean, kept>>

\* And the schema store under the executor is the schema store whose properties are
\* stated for clients of any kind: the lists of plans are to it the blocks of others.
ImplementsSchemas == S!Init /\ [][S!Next]_<<schemas, stuck, blive, lists>>

\* Every call of the executor and of the schema store returns.
CallsReturn == pc # "idle" \/ spc # "idle" ~> pc = "idle" /\ spc = "idle"
==============================================================================
