------------------------------- MODULE Schema --------------------------------
(***************************************************************************)
(* The schema store of src/src/schema.c: a file <table>.sch per table, and *)
(* loaded schemas in the back stack of a memory manager, which is taken as *)
(* TwoStacks describes it.                                                 *)
(*                                                                         *)
(* A file is the sequence of the fields written to it, each as <<value,    *)
(* bytes>>; whatever fails to write or to close the file may leave any     *)
(* prefix of them.  Files are opened, read and written by steps of their   *)
(* own (pc), because each can fail and because the power can fail between  *)
(* them.  The code is single threaded: no call starts before the last has  *)
(* answered.                                                               *)
(***************************************************************************)
EXTENDS Integers, Sequences

CONSTANTS
  SegSize,    \* bytes in the segment of the memory manager
  IntSize,    \* sizeof(db_int)
  ItemSize,   \* sizeof(ion_table_schema_item_t)
  Byte,       \* the values of a uint8_t: 256
  Tables,     \* the names of tables
  TableLen,   \* strlen of each table name
  NameLen,    \* strlen of each attribute name
  Schemas,    \* the schemas created, as [id, items: Seq([name, type, size])]
  MaxOpen,    \* files that can be open at once
  Faults,     \* the calls of stdio that may fail, and "power"
  OtherSizes, \* the sizes other clients of the memory manager ask for
  None, Damaged, Garbled    \* no value; half a schema; a name cut short

\* ion_table_schema_item_t
Attributes == [name : DOMAIN NameLen, type : Nat, size : Nat]

ASSUME SchemaAssumption ==
  /\ SegSize \in Nat \ {0} /\ IntSize \in Nat \ {0} /\ ItemSize \in Nat \ {0}
  /\ Byte \in Nat \ {0} /\ MaxOpen \in Nat /\ OtherSizes \subseteq Nat
  /\ TableLen \in [Tables -> Nat] /\ NameLen \in [DOMAIN NameLen -> Nat]
  /\ Faults \subseteq {"open", "create", "write", "close", "seek", "read",
                       "remove", "power"}
  /\ Schemas \subseteq [id : Nat, items : Seq(Attributes)]

VARIABLES
  files,      \* the file of each table, None while there is none
  open,       \* how many files are open
  schema,     \* the struct of the client: what it has loaded, or None
  pc,         \* what the running call does next, "idle" between calls
  op,         \* its table, its schema, its loop index
  status,     \* what the last call returned
  blive, ret, call,   \* the back stack of the memory manager (TwoStacks)
  others,     \* the blocks of its other clients
  stuck,      \* freeing the loaded schema has "failed", and something has been
              \* allocated since ("stale"), or "no"
  clean       \* no call has failed half way since the last reset

disk == <<files, open>>
memory == <<blive, ret, call>>
vars ==
  <<files, open, schema, pc, op, status, blive, ret, call, others, stuck, clean>>

Memory == INSTANCE TwoStacks
  WITH flive <- {}, PtrSize <- IntSize, Requests <- OtherSizes
NULL == Memory!NULL

\* db_qmm_bfree: a held block by its address, anything else is refused.
Bfree(p) ==
  \/ \E b \in blive : b.ptr = p /\ Memory!BFree(b)
  \/ Memory!BFreeNotHeld(p)
RefusedNegative(r) == r < 0                     \* mutant: 0 taken for success
Refused(r) == r # 1
------------------------------------------------------------------------------
(***************************************************************************)
(* The format of a file: id and number of attributes, then four fields an  *)
(* attribute.  The length of a name counts its NUL, in a uint8_t, and is   *)
(* the number of bytes written of it.                                      *)
(***************************************************************************)
NameBytes(a) == (NameLen[a.name] + 1) % Byte

ItemField(a, k) ==
  << <<NameBytes(a), 1>>, <<a.name, NameBytes(a)>>, <<a.type, 1>>, <<a.size, 1>> >>[k]

Serial(s) ==
  [k \in 1 .. 2 + 4 * Len(s.items) |->
     CASE k = 1 -> <<s.id, 1>>
       [] k = 2 -> <<Len(s.items), 1>>
       [] OTHER -> ItemField(s.items[(k - 3) \div 4 + 1], ((k - 3) % 4) + 1)]

FileOf == [s \in Schemas |-> Serial(s)]

\* The string that is read back: without its NUL it has no end.
Text(field) ==
  IF field[2] = NameLen[field[1]] + 1 THEN field[1] ELSE Garbled

Item(file, i) ==
  LET at == 2 + 4 * (i - 1) IN
  [name |-> Text(file[at + 2]), type |-> file[at + 3][1], size |-> file[at + 4][1]]

Prefixes(file) == {SubSeq(file, 1, k) : k \in 0 .. Len(file)}

\* The struct of the client, ion_table_schema_t, with its pointers.
Loaded ==
  [id : Nat, num : Nat, items : 0 .. SegSize \cup {NULL},
   names : Seq(0 .. SegSize \cup {NULL}),
   read : Seq([name : DOMAIN NameLen \cup {Garbled}, type : Nat, size : Nat])]

\* What stands for no value is none.
ASSUME NoneAssumption ==
  /\ \A s \in Schemas : None \notin Prefixes(FileOf[s])
  /\ None \notin [tbl : Tables, of : Schemas] \cup [tbl : Tables] \cup [i : Nat]
  /\ None \notin Loaded \cup Schemas \cup {Damaged} /\ Damaged \notin Schemas
------------------------------------------------------------------------------
(***************************************************************************)
(* Opening and closing files, and returning from a call.                   *)
(***************************************************************************)
CanRead(t) == open < MaxOpen /\ files[t] # None
MayFailToRead(t) == ~CanRead(t) \/ "open" \in Faults

Close == open' = open - 1
Return(error) == status' = error /\ pc' = "idle" /\ op' = None

File == files[op.tbl]
SetFile(file) == files' = [files EXCEPT ![op.tbl] = file]
------------------------------------------------------------------------------
(***************************************************************************)
(* ion_table_create_schema.  The file is taken not to exist when it cannot *)
(* be opened for reading.                                                  *)
(***************************************************************************)
ProbeClosesTwice == open - 1                    \* mutant: a second fclose
ProbeCloses == open

CreateOpen(t, s) ==
  /\ pc = "idle"
  /\ \/ CanRead(t) /\ Return("TABLE_ALREADY_EXISTS") /\ open' = ProbeCloses
        /\ UNCHANGED files
     \/ MayFailToRead(t) /\ (open = MaxOpen \/ "create" \in Faults)
        /\ Return("FILE_NOT_CREATED") /\ UNCHANGED disk
     \/ /\ MayFailToRead(t) /\ open < MaxOpen
        /\ files' = [files EXCEPT ![t] = <<>>] /\ open' = open + 1
        /\ pc' = "create" /\ op' = [tbl |-> t, of |-> s] /\ UNCHANGED status
  /\ UNCHANGED <<schema, memory, others, stuck, clean>>

\* The next field: fwrite writes none of 0 bytes.
CreateWrite ==
  /\ pc = "create" /\ Len(File) < Len(FileOf[op.of])
  /\ LET field == FileOf[op.of][Len(File) + 1] IN
     \/ /\ field[2] > 0
        /\ SetFile(Append(File, field))
        /\ UNCHANGED <<open, pc, op, status>>
     \/ /\ field[2] = 0 \/ "write" \in Faults
        /\ \E kept \in Prefixes(File) : SetFile(kept)
        /\ Close /\ Return("FILE_BAD_WRITE")
  /\ UNCHANGED <<schema, memory, others, stuck, clean>>

\* What fclose answers is not looked at: it may fail to write what is buffered.
CreateClose ==
  /\ pc = "create" /\ Len(File) = Len(FileOf[op.of])
  /\ \/ UNCHANGED files
     \/ "close" \in Faults /\ \E kept \in Prefixes(File) : SetFile(kept)
  /\ Close /\ Return("OK")
  /\ UNCHANGED <<schema, memory, others, stuck, clean>>
------------------------------------------------------------------------------
(***************************************************************************)
(* ion_table_load_schema.  A client loads when it holds no schema.  The    *)
(* returns for a failing seek and for lack of memory leave the file open,  *)
(* and every failure keeps what has been allocated.                        *)
(***************************************************************************)
BadRead == Close /\ Return("FILE_BAD_READ") /\ schema' = None
OutOfMemory == UNCHANGED open /\ Return("OUT_OF_MEMORY") /\ schema' = None

LoadOpen(t) ==
  /\ pc = "idle" /\ (schema # None => schema.items = NULL \/ stuck # "no")
  /\ \/ MayFailToRead(t) /\ Return("FILE_NOT_OPENED") /\ UNCHANGED <<open, clean>>
     \/ /\ CanRead(t) /\ "seek" \in Faults
        /\ open' = open + 1 /\ Return("FILE_BAD_SEEK") /\ clean' = FALSE
     \/ /\ CanRead(t)
        /\ open' = open + 1 /\ pc' = "load" /\ op' = [tbl |-> t]
        /\ UNCHANGED <<status, clean>>
  /\ schema' = None /\ stuck' = "no"
  /\ UNCHANGED <<files, memory, others>>

LoadHead ==
  /\ pc = "load" /\ schema = None
  /\ \/ /\ Len(File) < 2 \/ "read" \in Faults
        /\ BadRead /\ UNCHANGED <<memory, clean>>
     \/ /\ Len(File) >= 2
        /\ Memory!BAlloc(ItemSize * File[2][1])
        /\ \/ ret' = NULL /\ OutOfMemory /\ clean' = FALSE
           \/ /\ ret' # NULL
              /\ schema' = [id |-> File[1][1], num |-> File[2][1],
                            items |-> ret', names |-> <<>>, read |-> <<>>]
              /\ UNCHANGED <<open, pc, op, status, clean>>
  /\ UNCHANGED <<files, others, stuck>>

MoreItemsButLast(i, num) == i + 1 < num         \* mutant: off by one
MoreItems(i, num) == i < num

\* One round of the loop: length, block for the name, name, type and size.
\* The block has the length of the table name.
LoadItem ==
  /\ pc = "load" /\ schema # None /\ MoreItems(Len(schema.names), schema.num)
  /\ LET i == Len(schema.names) + 1
         there == Len(File) - (2 + 4 * (i - 1)) IN
     \/ /\ there < 1 \/ "read" \in Faults
        /\ BadRead /\ clean' = FALSE /\ UNCHANGED memory
     \/ /\ there >= 1
        /\ Memory!BAlloc(TableLen[op.tbl])
        /\ \/ ret' = NULL /\ OutOfMemory /\ clean' = FALSE
           \/ /\ ret' # NULL /\ (there < 4 \/ "read" \in Faults)
              /\ BadRead /\ clean' = FALSE
           \/ /\ ret' # NULL /\ there >= 4
              /\ schema' = [schema EXCEPT !.names = Append(@, ret'),
                                          !.read = Append(@, Item(File, i))]
              /\ UNCHANGED <<open, pc, op, status, clean>>
  /\ UNCHANGED <<files, others, stuck>>

LoadClose ==
  /\ pc = "load" /\ schema # None /\ ~MoreItems(Len(schema.names), schema.num)
  /\ Close /\ Return("OK")
  /\ UNCHANGED <<files, schema, memory, others, stuck, clean>>
------------------------------------------------------------------------------
(***************************************************************************)
(* ion_table_free_schema_names and _items.  They give up at the first      *)
(* block that does not come free at once, and leave its pointer.           *)
(***************************************************************************)
ClearedNot(p) == p                              \* mutant: the pointer stays
Cleared(p) == NULL

FreeFailed(p) ==
  /\ Return("FAILED_TO_FREE_MEMORY")
  /\ IF p = NULL THEN UNCHANGED <<stuck, clean>>
                 ELSE stuck' = "failed" /\ clean' = FALSE
  /\ UNCHANGED schema

FreeNames ==
  /\ pc = "idle" /\ schema # None /\ schema.items # NULL
  /\ pc' = "free" /\ op' = [i |-> schema.num]
  /\ UNCHANGED <<disk, schema, status, memory, others, stuck, clean>>

NameAtForwards(i, num) == num - i + 1           \* mutant: first to last
NameAt(i, num) == i

FreeName ==
  /\ pc = "free"
  /\ \/ op.i = 0 /\ Return("OK") /\ UNCHANGED <<schema, memory, stuck, clean>>
     \/ /\ op.i > 0
        /\ LET j == NameAt(op.i, schema.num)
               p == schema.names[j] IN
           /\ Bfree(p)
           /\ \/ Refused(ret') /\ FreeFailed(p)
              \/ /\ ~Refused(ret')
                 /\ schema' = [schema EXCEPT !.names[j] = Cleared(p)]
                 /\ op' = [i |-> op.i - 1] /\ UNCHANGED <<pc, status, stuck, clean>>
  /\ UNCHANGED <<disk, others>>

FreeItems ==
  /\ pc = "idle" /\ schema # None
  /\ LET p == schema.items IN
     /\ Bfree(p)
     /\ \/ Refused(ret') /\ FreeFailed(p)
        \/ /\ ~Refused(ret') /\ Return("OK")
           /\ schema' = [schema EXCEPT !.items = Cleared(p)]
           /\ UNCHANGED <<stuck, clean>>
  /\ UNCHANGED <<disk, others>>
------------------------------------------------------------------------------
\* ion_table_delete_schema
Delete(t) ==
  /\ pc = "idle"
  /\ \/ files[t] # None /\ files' = [files EXCEPT ![t] = None] /\ Return("OK")
     \/ (files[t] = None \/ "remove" \in Faults)
        /\ UNCHANGED files /\ Return("FILE_NOT_REMOVED")
  /\ UNCHANGED <<open, schema, memory, others, stuck, clean>>

\* Other clients of the memory manager.
OtherAlloc(n) ==
  /\ pc = "idle"
  /\ Memory!BAlloc(n) /\ others' = others \cup (blive' \ blive)
  /\ stuck' = IF stuck = "no" \/ ret' = NULL THEN stuck ELSE "stale"
  /\ UNCHANGED <<disk, schema, pc, op, status, clean>>

OtherFree(b) ==
  /\ pc = "idle"
  /\ Memory!BFree(b) /\ others' = others \ (blive \ blive')
  /\ UNCHANGED <<disk, schema, pc, op, status, stuck, clean>>

\* The power fails: memory is lost, and of a file being written what was buffered.
PowerFailure ==
  /\ "power" \in Faults
  /\ IF pc = "create"
       THEN \E kept \in Prefixes(File) \cup {None} : SetFile(kept)
       ELSE UNCHANGED files
  /\ open' = 0 /\ schema' = None /\ Return("none") /\ stuck' = "no" /\ clean' = TRUE
  /\ blive' = {} /\ ret' = 1 /\ call' = <<"init", SegSize>> /\ others' = {}

Init ==
  /\ files = [t \in Tables |-> None] /\ open = 0
  /\ schema = None /\ pc = "idle" /\ op = None /\ status = "none"
  /\ blive = {} /\ ret = 1 /\ call = <<"init", SegSize>>
  /\ others = {} /\ stuck = "no" /\ clean = TRUE

\* Two rules that the source relies on without stating them: of the names a table
\* is created with, and, in Calls, that a free that failed is not tried again after
\* something else has been allocated.
NamesRule(t, s) ==
  \A i \in DOMAIN s.items :
    /\ NameLen[s.items[i].name] < Byte
    /\ NameBytes(s.items[i]) <= TableLen[t]

Calls ==
  \/ \E t \in Tables : LoadOpen(t) \/ Delete(t)
  \/ \E t \in Tables, s \in Schemas : NamesRule(t, s) /\ CreateOpen(t, s)
  \/ stuck # "stale" /\ (FreeNames \/ FreeItems)
  \/ \E n \in OtherSizes : OtherAlloc(n)
  \/ \E b \in others : OtherFree(b)

Steps == CreateWrite \/ CreateClose \/ LoadHead \/ LoadItem \/ LoadClose \/ FreeName

Next == Calls \/ Steps \/ PowerFailure

Spec == Init /\ [][Next]_vars
------------------------------------------------------------------------------
(***************************************************************************)
(* Properties.                                                             *)
(***************************************************************************)
\* Every field of every file is one of a schema, files are open only as far as
\* the system allows, and a running call knows its table.
TypeOK ==
  /\ \A t \in Tables :
       files[t] # None => \E s \in Schemas : files[t] \in Prefixes(FileOf[s])
  /\ open \in 0 .. MaxOpen
  /\ schema # None => schema.num \in Nat /\ Len(schema.names) <= schema.num
  /\ pc \in {"idle", "create", "load", "free"} /\ (pc = "idle" <=> op = None)
  /\ stuck \in {"no", "failed", "stale"} /\ clean \in BOOLEAN

\* No function of the schema store frees a block of another client of the memory
\* manager, even when names or items are freed a second time, or again after
\* freeing them has failed.
OthersKept == others \subseteq blive

OwnPtrs ==
  IF schema = None THEN {}
  ELSE ({schema.items} \cup {schema.names[i] : i \in DOMAIN schema.names}) \ {NULL}

\* As long as no call has failed half way, the memory in use is what the clients
\* hold and no file stays open: loads take exactly what the two frees give back.
NothingLost ==
  pc = "idle" /\ clean =>
    /\ {b.ptr : b \in blive \ others} = OwnPtrs
    /\ open = 0

\* The frees of a loaded schema go from the top of the back stack down: freeing
\* the names fails at first only because another client allocated later, or because
\* they are freed already, and so does freeing the items after them.
FreesInOrder ==
  [][/\ FreeName \/ FreeItems
     /\ stuck = "no"
     /\ status' = "FAILED_TO_FREE_MEMORY"
     => LET p == call'[2] IN
        \/ p \in {NULL, SegSize}
        \/ \E b \in others : b.ptr < p
        \/ p = schema.items /\ \E i \in DOMAIN schema.names : schema.names[i] # NULL]_vars

\* The schema a file holds.
SchemaIn(file) ==
  IF file = None THEN None
  ELSE IF \E s \in Schemas : file = FileOf[s]
         THEN CHOOSE s \in Schemas : file = FileOf[s] ELSE Damaged

Creating == pc = "create"
Stored ==
  [t \in Tables |-> IF Creating /\ op.tbl = t THEN None ELSE SchemaIn(files[t])]
Making == IF Creating THEN op ELSE None

Store == INSTANCE SchemaStore WITH
  store <- Stored, making <- Making,
  loaded <- IF pc # "load" /\ stuck = "no" /\ schema # None
                 /\ NULL \notin {schema.items} \cup {schema.names[i] : i \in DOMAIN schema.names}
              THEN [id |-> schema.id, items |-> schema.read] ELSE None,
  res <- status

\* The functions implement a store of whole schemas: a load that answers OK gives
\* the schema that was created, never part of one, whatever write or read failed
\* and wherever the power did; creating never replaces a schema.
ImplementsStore == Store!Spec
==============================================================================
