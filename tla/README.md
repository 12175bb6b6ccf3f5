# A TLA+ verification of IonTable

IonTable (`src/`) is a table layer in C on top of the key-value store IonDB: a
query compiled elsewhere arrives as a *plan* of instructions, a small virtual
machine executes it, table schemas are kept in files, and all memory the
queries need comes from one fixed segment managed as two stacks. The targets
are Arduino-class boards, so everything is single threaded; what makes the code
hard is not concurrency but long sequences of legal calls over bookkeeping
words that live *inside* the memory they describe, and operations that fail
half way.

Line numbers below are of the files under `src/src/`.

## 1. Inventory

| component | state | operations | hard behaviour |
|---|---|---|---|
| **Stack memory manager** `stack_memory_manager.c/.h` | a segment; `next_front`, `last_back`, `errcode`, `maxused`; a size word with a flag bit before every block, a link behind every front block | `init_query_mm`, `db_qmm_{f,b}alloc`, `_{f,b}free`, `_{f,b}extend`, `_{f,b}clear` | frees in any order, loops over links read back from the segment, double frees, exact fits, flags and links rewritten by calls on *other* blocks |
| **Schema store** `schema.c/.h` | a file `<table>.sch` per table; an array of items and their names in the memory manager | `ion_table_create_schema`, `_load_schema`, `_delete_schema`, `_free_schema_names`, `_free_schema_items` | failing reads, writes and allocations in the middle of an operation; the order in which names are freed |
| **Virtual machine executor** `vme.c/.h`, `types.h` | instruction index, previous opcode, attribute list (`pointer`, `count`) in the back stack; status and error code | `ion_init_executable`, `ion_execute` (opcodes `NOP`, `HALT`, `DEFINE_ATTRIBUTE`, `CREATE_TABLE`) | pausing and resuming a plan; pointers kept across calls that move the block; partial failure of `CREATE_TABLE` |
| **SD file shim** `file/SD_stdio_c_iface.cpp` | an `SD_File` per open file, an eof flag; the card | `fopen`, `fclose`, `fread`, `fwrite`, `fflush`, `fseek`, `ftell`, `fsetpos`, `feof`, `rewind`, `remove`, `SD_File_Begin`, `SD_File_Exists` | short reads, signed/unsigned comparisons, results that differ from stdio's, power failures before a flush |
| **String hash** `utils.c` | none | `hash_string` | 32-bit wrap-around, signed `char` |
| **Query serializer** | empty in this commit | | |
| **Serial interface** `serial/` | the Arduino `Serial` object | print wrappers | pure I/O |
| **IonDB** `iondb/` | an external submodule whose directory is empty here | master table, dictionaries | modelled from its use in `vme.c` |

Interactions are plain calls: the executor allocates the attribute list from the
back stack of the memory manager (`bextend`, `balloc`), calls
`ion_table_create_schema` and IonDB's master table from `CREATE_TABLE`, and frees
the list; the schema store reads and writes files through stdio (on the boards:
through the SD shim) and allocates items and names from the back stack. There
are no callbacks, threads, timeouts or messages. Shared state: the memory
manager's segment, the file system, IonDB's master table.

What makes each component correct:

* *memory manager*: the stacks never meet and blocks never overlap; the manager
  finds every size and link back; no order of frees loses space or hands out
  held space; client data is never touched; freeing twice does nothing; the
  loops of the frees end.
* *schema store*: what was created is what is loaded; an operation that fails
  gives back the memory, files and names it took; freeing a loaded schema gives
  back exactly what loading took.
* *executor*: a created table has the attributes the plan defined, in order; a
  plan that ends has given its memory back; a failed `CREATE_TABLE` leaves no
  dictionary behind; resuming a plan has the effect of not pausing it.
* *SD shim*: behaves as the stdio its callers are written for.

The complete list of what is hard to test, line by line, is the `hazards` list
of `PROJECT.json`.

## 2. Plan

1. **`StackMemory`** with its promise **`TwoStacks`**: everything else allocates
   from it, and it has the longest dangerous call sequences. Proofs:
   `StackMemoryInvariant` and, with the refinement of `TwoStacks`,
   `StackMemoryProofs`. *Done*, with the size macros of the header.
2. **`Schema`** with its promise **`SchemaStore`**: files as sequences of fields
   that may be cut short, over the back stack as `TwoStacks` describes it (only
   its sizes and order matter); create, load, delete and the frees step by step,
   failing at any of their calls, and power failures. Proofs: `SchemaProofs`, and the
   refinement of `SchemaStore` in `SchemaRefinement`. *Done.*
3. **`Executor`**: the plan interpreter with pausing and retrying, over `SchemaStore`
   and `TwoStacks` and IonDB's master table. Proofs: `ExecutorProofs`. *Done.* What it
   shares with `Schema`, the back stack alone, has its lemmas in `BackStack`.
4. **`SDFile`** with its promise **`Stdio`**: the card shim, with flushes and power
   failures, one stream at a time. Proofs, with the refinement: `SDFileProofs`. *Done.*
5. **`TableLayer`**: `Executor` over `Schema` itself instead of its promise, both in one
   back stack, with a client that loads what plans create. Proofs: `TableLayerProofs`,
   which shows that each of the two is still what its own module says of it, and so
   rests on the theorems of both. *Done.*

How they fit together: `Schema` and `Executor` instantiate `TwoStacks`, which
`StackMemory` is proved to implement, and `Executor` instantiates `SchemaStore`,
which `Schema` is proved to implement as long as files can be opened and closed. So
what holds of the memory and the files in the upper modules rests on theorems about the
lower ones. `TableLayer` instantiates both components and takes their actions as they
are: it adds the order in which they are called and who holds which block. That it
implements both (`ImplementsExecutor`, `ImplementsSchemas`) closes the circle: the client
that each component allows for is one that the other one is.

Every module keeps its parameters as CONSTANTS with named assumptions, one
action per operation, and no RECURSIVE operator, so that it can be proved about.

## 3. The memory manager

### `StackMemory`: the code

The state is `query_mm_t` (`next_front`, `last_back`, `errcode`, `maxused`) and
the segment itself, `mem`: an address holds the word that starts there. `mem`
is *word-at-address* memory: it is only read and written at the addresses where
the code reads and writes whole words, and `IntSize`/`PtrSize` say how many
bytes each takes. `ret` is the result of the last call (`-1` for a NULL pointer
and for `boolean_error`), `pc` tells whether a call is inside the loop of one of
the free functions. Each `db_qmm_*` operator is the whole function of the same
name: its error exits in their order, its writes, its profiling.

| code | TLA+ |
|---|---|
| size word with the flag in its sign bit | `Flagged`, `SizeOf`, `SetFlag` |
| `next_front`/`last_back` moved, `maxused` updated under `DB_CTCONF_PROFILE_MAXMEM` | `Move` |
| `errcode = -k; return ...` with `errcode` a `uint8_t` | `Fail`, `Code` (mod 256) |
| `while` loop of `ffree` (147-156), `do ... while` loop of `bfree` (213-241) | `ffree_loop`, `bfree_loop`, one step per round, `pc` |
| the caller, what it was given and what it called last | `FAlloc` ... `Fill`, with the history variables `fblk`, `bblk`, `call` that no handler reads |

The first round of `bfree`'s `do ... while`, and the pop at the start of `ffree`,
belong to the call itself; the later rounds are steps of `Loop`.

The client may call anything with anything it was given: free in any order, free
twice (`FFree`/`BFree` of a block that is no longer live), free addresses that
were never blocks (`FFreeStray`, `BFreeStray`), ask for more than the segment has,
extend, clear, and fill its payloads with words that look like flagged sizes.
Two rules beyond the checks of the code are needed and named:

* `BExtendRule`: `bextend` only into the gap between the stacks;
* `FExtendRule`: `fextend` only while the block under the top one is held.

What happens without them is a finding each (`MCStackMemoryMisuse`, section 6).
The macros `DB_QMM_SIZEOF_BTOP`, `_BCHUNK` and `_FTOP` are operators of the same
names, which a client may use between calls: `TopSizes` says what they give.
Two kinds of stray pointers are outside the model, because the source has no
answer to them: addresses inside the extent of the same stack that are no block
of it (the words there are client data), and addresses outside the segment.

### `TwoStacks`: the promise

Two sets of held blocks and nothing else: no headers, no flags, no fragmented
blocks. Each stack reaches exactly to its outermost *held* block. This is
stronger than it looks: it says that the code's results and its use of space
do not depend on the order in which blocks were freed.
`StackMemory!ImplementsTwoStacks` is `TwoStacks!Spec` under the mapping that keeps
the live blocks; the rounds of the free loops are stutters of it. The last call
and its result are visible on both levels (`call`, `ret`), so a refused allocation
cannot pass for a refused free.

## 4. The schema store, the executor and the shim

### `Schema` and `SchemaStore`

`files` maps a table to the fields written to its file, each with the number of
bytes it has there; `open` counts open files; `schema` is the client's struct with
the addresses of its items and names and what has been read into them; `pc` and
`op` are the running call. Every call of stdio and of the memory manager is a
step of its own or a part of one, because each may fail and because the power
may fail between them.

| code | TLA+ |
|---|---|
| `ion_table_create_schema` (37-94) | `CreateOpen` (probe and creation), `CreateWrite` (one field), `CreateClose` |
| `ion_table_load_schema` (96-163) | `LoadOpen` (open, seek), `LoadHead` (id, count, items), `LoadItem` (one round of the loop), `LoadClose` |
| `ion_table_free_schema_names` (180-195) | `FreeNames` (the call), `FreeName` (one round) |
| `ion_table_free_schema_items`, `ion_table_delete_schema` | `FreeItems`, `Delete` |
| `QUICKWRITE`, `QUICKREAD`, the format | `Serial`, `ItemField`, `Item`, `Text` |
| `(uint8_t) (strlen(name) + 1)` | `NameBytes` (mod `Byte`) |
| other clients of the memory manager | `OtherAlloc`, `OtherFree`, `others` |

What fails is chosen by the constant `Faults`. A failing write or close leaves any
prefix of the fields; a power failure during a create that, or no file at all. The
memory manager is `TwoStacks` with an empty front stack; the theorem
`ManagerImplementsTwoStacks` says that the real one is no different. `stuck`, `clean`
and `others` are history: no handler reads them. `stuck` is "failed" once freeing the
loaded schema has failed, and "stale" when something has been allocated since.

Two rules the source relies on without stating them are named, and each is
lifted in a configuration of `MCSchemaMisuse`: `NamesRule` (attribute names are
shorter than the table name, and than 256), and that a free that failed is tried again
only before anything else is allocated (`stuck # "stale"` in `Calls`): `bfree` has given
back a block for which it answered 0, and something else may lie there by then.

`SchemaStore` is the promise: a store of whole schemas. A create that fails, or is
cut off, may leave a damaged schema that no load accepts; a load that answers OK
gives exactly what was created. The mapping hides the file format: the content
of a file is the schema whose serialisation it is, or `Damaged`. It keeps no
record of the table a load or a delete was asked for: `op.tbl` of `Schema` is that table, and
every field is read from its file. `Attributes` and
`Loaded` are the C structs of an item and of a loaded schema.

### `Executor`

`plan` is `ion_table_executable_t` without the stop flag: `execute` resets it on entry,
so that setting it is the return to `pc = "idle"`. `cells` is what lies in the
segment, an attribute per item: `CREATE_TABLE` reads its items from addresses, as
the code does, and finds what is there. `dicts` is IonDB's master table, modelled
from lines 93-117: it gives out ids in turn, keeps the size of the values it was
asked for, and may fail at creating and at closing. That size is summed up over
the list as it lies in memory (`ValueSize`), the schema is written from the list
later: `DictionaryFits` says that the two agree. Types and sizes of attributes are
cut to a byte (`ItemOf`).

| code | TLA+ |
|---|---|
| `ion_table_init_executable` | `ion_table_init_executable`, `InitExecutable` |
| entry and loop of `ion_table_execute`, 144-146 | `Execute`, `Runs`, `NextInstruction`; a failing instruction leaves the index (`Fail`) |
| `DEFINE_ATTRIBUTE` | `DefineAttribute` with `ListCall` (extend or allocate) and `Listed` |
| `CREATE_TABLE` | `CreateDictionary`, `CloseDictionary`, `BeginSchema`, `EndSchema`, `FreeList` |
| `NOP`, `HALT`, `default` | `Nop`, `Halt`, `Undefined` |

Freeing an address inside a block, which a list of several attributes leads to,
flags the word before it as `bfree` does (`FlaggedAt`): part of the item below.

The client pauses, resumes, retries, abandons a plan for another, deletes tables, and
uses the memory manager, under three rules: plans end with `HALT` or an invalid opcode
(there is nothing behind them to execute); nothing is allocated while the list may
still be extended, because `bextend` extends whatever is on top; and `ListRule`: a
`CREATE_TABLE` whose list has been used and freed already is not executed, unless
its table is there and it will be refused. The last rule is written nowhere, and
`MCExecutorStale` shows why it is needed. `TablesRule` is what it asks of a plan: before
every `CREATE_TABLE`, and after the one before it, there is a `DEFINE_ATTRIBUTE`. The
actions do not depend on it; the theorems about memory and dictionaries do.

`defs`, `clean` and `kept` are history. `defs` are the attributes that should be in the next
table. `kept` says that none have been given up: by a plan that is replaced while it has a
list, or by an instruction between two attributes, after which `DEFINE_ATTRIBUTE` starts
a second list and forgets where the first one is.

### `TableLayer`

`S` is `Schema` and `E` is `Executor`, instantiated over one back stack (`blive`, `ret`,
`call`). For `S` the blocks of other clients are the executor's (`lists`), for `E` they are
those of loaded schemas (`loads`). `CREATE_TABLE` calls `S!CreateOpen` and goes on field by
field, so that the power may fail between any two writes while the dictionary is
there already; what `E` sees as `store` and `making` is computed from the files.

| code | TLA+ |
|---|---|
| `DEFINE_ATTRIBUTE`, the free of the list, all else of the loop | `DefineAttribute`, `FreeList`, `Alone`: the actions of `E`, with `ListTaken` |
| `ion_table_create_schema` called at `vme.c` 119, its answer | `BeginSchema`, `WriteSchema`, `Answered` |
| a client that loads, frees and deletes schemas between two calls of `execute` | `SchemaCalls`, `SchemaSteps`, `Delete`, with `LoadTaken`: what is loaded overwrites what lay there |
| a client that executes, or starts another plan | `Run`, under the rules of `Executor` |

`made` is history: the attributes a table was last created with. `LoadedAsDefined` is the
property the layer exists for: from the plan through memory, file and memory again, a load
gives the attributes that were defined, and an id whose dictionary fits them.
`ImplementsExecutor` and `ImplementsSchemas` say that nothing happens to either component
here that is not in its own module: what `CREATE_TABLE` passes on is a schema, and the
blocks of the one are to the other blocks of a client.

The rules of both components apply; the one on failed frees here means that the client
does not free again after a plan has allocated. `LayerRules` collects them and adds what
the composition needs: a plan makes a table of each attribute before it defines the next
(`OneAttribute`; longer lists are read the wrong way, finding 11) and is shorter than the
range of its index (15); names fit (6, 7); files can be opened and closed (8, 9); and
`Schemas` are the schemas such plans create. That a closed file survives a power failure,
which `S` assumes, is what `SDFile` is proved to guarantee on the boards
(`ShimIsStdio`: what was written before a close is safe).

### `SDFile` and `Stdio`

An operator `sd_x` is the function `sd_x`. Outside is the SD library: `File` has a
position, a size, `read`, `write` and `seek`, and any of its calls may fail. `card` is what
the library shows, `saved` what has reached the card for good, by a flush, a close or an
operation on the directory; after a power failure a file that was open has what
was saved, and of the bytes beyond any that were written (`Remains`). The
unsigned comparisons and the sums of `sd_fseek` are modulo `Word`, which is larger than
any file (`MaxSize < Word`); the three cases of
`whence` are three operators. `heap` counts the `SD_File` objects. `sd_fgetpos` stores
what `sd_ftell` returns.

`Stdio` is the part of C's stdio that the callers need. Both modules keep the last call
with its arguments (`call`) and what it gave (`out`), and the mapping leaves both as they
are: each action of `Stdio` requires its own call, so a result, a position or a change of
the card is compared with what that call with those arguments may do, and with nothing
else. The indicator of the end is that of C: set by a read that comes short, reset by every
seek, `fsetpos` or `rewind` that arrives, and left alone by one that is refused. The field
`eof` of an `SD_File` is not always this indicator (finding 19). So `SDFile` has two history
variables: `ended` is the indicator of C, to which the mapping sends that of `Stdio`, and
`stale` says that a refused seek, or an `fsetpos` after a short read, may have made `eof`
another. Under `EofRule` callers do not ask `feof` while it is stale, that is until
a read comes short or a seek arrives; what it answers otherwise is compared
with `ended`. Where `Stdio` is not C: a target beyond the end of a file is refused, as the
card does; a read that fails may give any count but the one asked for (finding 22); `remove`
answers 1 for success, as the header of the shim says; and no file is opened to append.

## 5. The runs

| run | instance | question |
|---|---|---|
| `memory_data` | segment of 6, words of 1, profiling; the complete state, data included | do payloads, sizes, types and the recorded peak survive every order of calls? `TypeOK`, `SizesIntact`, `MaxUsedCoversUse`, `DataKept` |
| `memory_refines` | segment of 10, links of 2 and size words of 1, empty blocks | are the words in the segment always a correct description, and do the calls behave as two plain stacks, do the size macros tell the truth? `BlocksDisjoint`, `SegmentShape`, `TopSizes`, `ImplementsTwoStacks` |
| `memory_frees` | segment of 9, up to 4 front or 9 back blocks at once, empty blocks | does any order of frees lose space, loop forever, or react to a second free? `FrontTight`, `BackTight`, `FreedOnce`, `FreesReturn` |
| `schema_store` | two tables; schemas of one and two attributes, one whose name is too long for one byte of length; failing creates, writes, seeks, reads, removes, power | does a load ever give anything but what was created? `TypeOK`, `ImplementsStore` |
| `schema_memory` | one table; schemas of none, one and two attributes; another client; failing reads, seeks, closes | is memory given back, in order, and nobody else's touched? `OthersKept`, `NothingLost`, `FreesInOrder` |
| `exec_plans` | plans with one attribute a table, pauses, NOPs and an invalid opcode, and plans with two and three attributes in a row; two tables, three dictionaries, deletions, power failures | do tables have their attributes and a dictionary of their own that fits them, where does the list lie, does a plan give back its memory and nobody else's, does `execute` return? `TypeOK`, `OthersKept`, `DictionariesOwned`, `DictionaryFits`, `MemoryReturned`, `ListInMemory`, `StoredIsDefined`, `ExecuteReturns` |
| `table_layer` | one table, two plans, one with a pause in which the client can load, one that makes the table of one attribute and, when it has been deleted, of another; two dictionaries; failing writes, power failures | do the executor, the schema store and a client that loads schemas leave each other alone, is each of them still what its module says, and is what is loaded what was defined? `TypeOK`, `BlocksKept`, `MemoryReturned`, `LoadedAsDefined`, `ImplementsExecutor`, `ImplementsSchemas`, `CallsReturn` |
| `sd_stdio` | one file of up to four bytes; elements of one and two; offsets from -2 to 2; failing opens, reads, writes, power failures | does each call of the shim give what that call of stdio gives, and what is safe on the card? `TypeOK`, `ImplementsStdio` |

*Bounds of the memory manager.* Sizes are 0 and 1 (the smallest non-empty payload)
and one beyond the segment, so the exit for oversized requests is taken. What the
code can get wrong is decided by how many blocks lie on a stack and which were freed: three
blocks (a freed one between two held ones) show every case of the flags and
links, four front and nine back blocks fit in `memory_frees`. Extending makes
blocks larger than 1. Words have 8 bits (`FlagBit = 128`), which no size in the
segment reaches. The segment of 6 holds two front blocks of one byte exactly,
so exact fits are met. Links wider than size words in `memory_refines` make a
mistake between the two visible.

*Bounds above the memory manager.* Two attributes show an order, and every
position at which a file can be cut: before, between and inside attributes. With
a `Byte` of 4 a name of three characters is the one whose length, with its NUL,
does not fit any more, as 255 characters are in the code; `MCExecutorWrap` has a
plan that fills such a byte. The segments hold a
loaded schema or a list and one or two blocks of another client, and are full after
that, so that allocations fail at each place where they can. `StoredIsDefined`
is about tables of one attribute, because for longer lists it does not hold
(`exec_attributes`); `ListInMemory` is about lists of every length. In `exec_plans` one of the
sizes does not fit in a byte, and a third dictionary is there for a plan that is
retried after the second. `MemoryReturned` asks that no attributes were given up
(`kept`): without that it is false, but a segment of 9 is too small for TLC to see it.
The attempt to prove it showed this. In `table_layer` a segment of 7 holds one loaded schema (an
items block and a name) and a list, and nothing more, so that both a load
and a `DEFINE_ATTRIBUTE` run out of memory while the other has its blocks; the two
attributes differ in size, so that a dictionary of the wrong table is seen; two
dictionaries let a `CREATE_TABLE` fail and be retried once, and a third fail; both plans make their
first table of `a1`, and which of the two attributes comes first makes no difference; `Byte` is 8,
beyond every index and length there. One table is enough for it because every block
and every file is freed and made again under the same name, which is where stale
addresses and stale files would be taken for fresh ones. The views of these runs
leave out results and the last call of the memory manager, which no action reads
before they are set, and `SDFileView` leaves out the last call and its result; the tables of `schema_store` are interchangeable because their names have one
length. In `sd_stdio` a file of four bytes has room before, at and beyond each end
for every seek, and reads of two elements that are cut inside the second. That
`ImplementsStdio` looks at each result was tried by hand: an `feof` that answers always or
never, a read that does not set the indicator or sets it at the last byte already, a failing
read that counts, a seek from another base, one that goes below 0, one that refuses the end
of the file, one that leaves the indicator set, and an `ftell` off by one are each found.

*The view.* `memory_refines` and `memory_frees` use `BookkeepingView`: `errcode` and
`maxused` are read by no handler, and words that are not the size word of a
block, the link of a front block or, in a loop, the word at `next_front` have
no influence on what a handler does, and `call` is read by no action. That other
words have no influence is proved and not only argued: the steps of `NextIInv` use the invariant, which only
speaks of the tracked words, and the properties of the two runs do not mention
other words. The run with the data, `memory_data`, has no view.

*Fairness.* `WF_vars(Loop)`: a call that has started runs to its end. The code is
single threaded and nothing in the loops waits, so this is what the hardware
does; no fairness is assumed of the client. `FreesReturn` uses it. For the same
reason `Executor` has `WF_vars(Steps)`, an instruction that has started goes on, and
`ExecuteReturns` uses that; `TableLayer` has it for the steps of both components, and
`CallsReturn` uses that. The calls of `Schema` and `SDFile` have loops bounded by their
arguments and no property needs fairness there.

*Deadlock* is checked in every run: a client can always make another call.

The other configurations, of the `*Misuse` modules, each refute something a comment or
a test of the source says; section 6 lists them. Four of them are runs of the
project (`misuse_overrun`, `schema_names`, `exec_attributes`, `sd_modes`), one per
component; the others are run by hand, with `tlc -config X.cfg M`.

Every property has a mutant in `PROJECT.json`: a plausible bug of a definition
(the missing link in the collision test, the flag never stored, the comparison
with the flag instead of the test of the bit, the peak measured before the
move, ...), under which the property fails in its run. The mutated operators
stand next to the definitions, marked `mutant`, and are used by nothing else.

## 6. Findings

Each is a counterexample of TLC to what a comment or a test says. Configurations in
brackets; those of the memory manager are for `MCStackMemoryMisuse`, of the schema
store for `MCSchemaMisuse`, of the executor for `MCExecutorMisuse`, of the shim for
`MCSDFileMisuse`, where a comment quotes what is refuted.

*Memory manager*

1. `bextend` checks the room to the *start of the segment* (340) and so extends the
   back stack over the front stack (`MCMisuseOverrun`, run `misuse_overrun`).
2. `fextend` finds the size word through the link of the top block, which an
   earlier free redirected to the block below (285): the wrong block is resized
   (`MCMisuseFragment`). `DB_QMM_SIZEOF_FTOP` of the header reads the wrong block's size for
   the same reason (`MCMisuseTopSize`).
3. `balloc(0)` as the first back block cannot be freed: its payload is the end of
   the segment, which `bfree` refuses with -6 (202; `MCMisuseEmpty`).
4. `errcode` is a `uint8_t`, so none of the negative codes of its documentation
   is ever read back from it (`MCMisuseErrcode`).
5. `fextend` reports a collision with -4, documented as "Attempted to free space
   not at the top of the bottom stack" (279; `MCMisuseCause`).

*Schema store*

6. The block for an attribute name has the length of the *table* name (139); the test
   has a table name that is longer than its attribute names (`MCSchemaNames`, run
   `schema_names`).
7. The length of a name is cut to 8 bits and the name with it (71; `MCSchemaCut`).
8. Whether a schema exists is asked by opening it for reading; when that fails for
   another reason the schema is overwritten (50; `MCSchemaProbe`).
9. The result of `fclose` is not looked at (88; `MCSchemaClosed`).
10. Names that could not be freed have been marked free all the same; freeing them
    again frees what lies there by then (187; `MCSchemaRetry`).

*Executor*

11. A list of several attributes grows downwards from `plan->pointer`, and
    `CREATE_TABLE` reads upwards from it (78, 91; `MCExecutorAttributes`, run
    `exec_attributes`).
12. A `NOP` between two attributes loses the first (63; `MCExecutorNop`).
13. Every failure to create a schema is answered as "already exists" (119;
    `MCExecutorExists`).
14. A second `CREATE_TABLE` uses and frees the list of the first (90;
    `MCExecutorStale`).
15. The index wraps to the start of a plan of 256 instructions (146; `MCExecutorWrap`).

*Shim*

16. The shim does not know `"wb+"`, under which `schema.c` creates its files (152;
    `MCSDFileModes`, run `sd_modes`): on the boards no schema can be created.
17. Writing several elements writes the first over and over (311; `MCSDFileWrite`).
18. `sd_fwrite` returns elements and is documented to return bytes (324;
    `MCSDFileCount`).
19. The indicator of the end stays set, or is set, away from the end (83, 254;
    `MCSDFileEof`). A seek that is refused should not touch it at all. `EofRule` keeps
    callers from asking for it then; nothing in the repository asks for it.
20. A file that could not be removed is appended to (138; `MCSDFileEmpty`).
21. An open that fails loses its `SD_File` (183; `MCSDFileLeak`).
22. A read that fails counts more elements than were asked for, -1 taken for an unsigned
    number (211; `MCSDFileRead`). Callers that compare with the count they asked for, as
    `schema.c` does, see the failure.

Noticed and not checked by a run, because no document says otherwise: a load whose
seek or allocation fails leaves its file open (115, 129, 141), and a load that
fails leaves allocated what it had; attributes that are given up, by another plan or
an instruction between two of them, leave their list allocated (78); a `CREATE_TABLE` that fails after 108 leaves its
dictionary, and is retried by the next `execute` with a new one.

## 7. The proofs

TLAPS checks what follows for every value of the constants: segments, words, plans,
schemas, files, requests and sets of failures of any size. What a theorem needs beyond
the assumptions of its module is written in the theorem, as a named rule. In every module
the safety properties follow from an inductive invariant, with a lemma for each action.

The assumptions on constants are `ExecutorAssumption`, `SchemaAssumption` and
`SDFileAssumption`, which give sizes and bounds their types, and the two of `StackMemory`
below. Beyond types they say that a plan is not empty, has at most 256 instructions and ends
with one that ends it (its index is a `uint8_t`, and nothing in the code knows where a plan
ends), that the segment is not empty, and that no file is so large that an unsigned sum
with an offset wraps around into it. `TableLayer` has the assumptions
of both its components (`ComponentsAssumption`). The `NoneAssumption` of a module says that what
stands for no value is none; TLC's model values are like that.

### The memory manager

* `SizesAssumption`: sizes are positive and the segment is smaller than the flag
  bit, i.e. sizes fit in a `db_int` with one bit to spare. The code relies on it:
  a larger size would be taken for a flag.
* `ClientAssumption`: requests are not negative, client data are words, and stray
  pointers lie in the segment.

**The inductive invariant** (`StackMemoryInvariant!IInv`). That stacks are
disjoint is not inductive: the free functions believe sizes, flags and links
they read from the segment, so one must know what these words say. `FrontInv`
is this: front blocks tile `0 .. next_front` without gaps; the size word of a
block carries its size and is flagged exactly when the block *below* was freed;
the link leads to that freed block, and to the block itself otherwise; a block
that is freed and not yet reclaimed is never below the top of an idle stack. In
the loop of `ffree` the popped size word at `next_front` still tells about the
block now on top. `BackInv` is the simpler counterpart, with the flag on the freed
block itself. `NextIInv` has a lemma per action; disjointness, shape and
tightness are then consequences, in `StackMemoryProofs`:

| theorem | property |
|---|---|
| `TypeCorrect` | `TypeOK` |
| `StacksDisjoint` | `BlocksDisjoint` |
| `ShapeKept` | `SegmentShape` |
| `SizesKept` | `SizesIntact` |
| `SizesRead` | `TopSizes` |
| `FrontReclaimed`, `BackReclaimed` | `FrontTight`, `BackTight` |
| `PeakRecorded` | `MaxUsedCoversUse` |
| `ClientDataKept` | `DataKept` |
| `DoubleFreeHarmless` | `FreedOnce` |
| `ManagerImplementsTwoStacks` | `ImplementsTwoStacks` |

The refinement rests on one more fact: between calls `next_front` and `last_back`
are the tops that `TwoStacks` computes from the held blocks alone (`FTopIs`,
`BTopIs`). `PopTakesFreed` is its core: the link of the top front block never
leads past a held block.

### The back stack under its clients

`BackStack` says what a call of `TwoStacks` does when nothing is on the front stack
(`AllocStep`, `FreeStep`, `ExtendStep`, ...): held blocks stay apart (`BackOK`), and a new
or extended block lies below all others. That there is a topmost block rests on
`LeastNat`, the one induction needed; its scheme is cited in the form over sets
(`WFMin`), which has no operator as a parameter.

### The schema store

`SchemaProofs` has no rule: everything may fail. `TypeInv` says of the files that each
begins as the file of a schema, cut anywhere, fields included (`PrefixIs`), so that a
load knows what it can meet. That nobody else's block is freed is not inductive, because
`bfree` believes its argument. The invariant is about which pointers are whose:

* `Descending`: the names of a loaded schema lie one below the other, under its items.
  Frees run from the last name up (186), so each frees the lowest of them.
* `OwnBlocks`: until freeing fails, each pointer that is not NULL is a block of the store's
  own, and blocks of failed loads lie above them all. After a free has failed, pointers
  may point at nothing, but at no block of others before something is allocated, which
  is where the rule of section 4 is needed.
* `Freeing`: which names are gone when the loop is at `op.i`, so that items are
  freed last and nothing is loaded over a half-freed schema.
* `CleanInv`: as long as nothing failed there are no other blocks and no open file.

`SchemaRefinement` adds what the file and the client's struct have to do with each other,
`FileInv`: every file begins as that of one schema that was created (`FilesBegin`), a
create writes its own (`Creates`), and a load has read into the struct what the file says
as far as it has come (`Reads`). The core is that a file of full length is the file
of only one schema (`OneFile`) and reads back as that schema (`ReadBack`). It needs that
no name in it was cut: `NamesRule` allows names of up to 255 characters, and the longest, which
has 0 for its length, is a field of no bytes, at which the create stops because `fwrite`
answers 0 (75). So every field that is followed by another one has bytes. `FaultsRule` is the hypothesis: `fopen` fails
only when a file is not there or no more can be open, and `fclose` writes what
is buffered. Both are findings (8 and 9): without them the promise is false.

| theorem | property |
|---|---|
| `TypeCorrect` | `TypeOK` |
| `OtherBlocksKept` | `OthersKept` |
| `LoadsGivenBack` | `NothingLost` |
| `OrderOfFrees` | `FreesInOrder` |
| `StoreOfWholeSchemas` (`SchemaRefinement`), under `FaultsRule` | `ImplementsStore` |

### The executor

`TypeCorrect` holds of all plans. The others need `PlansRule`, that every plan satisfies
`TablesRule`: without it finding 14 is in the way, and `ListRule` alone, which the client
follows at the start of an `execute`, does not stop a plan that reaches a second
`CREATE_TABLE` without a pause. Four layers build on each other:

* `PlanInv`: where in the plan the index is tells whether there is a list. When nothing
  has been defined since the last table (`Spent`), `CREATE_TABLE` is reached only to be
  refused.
* `MemoryInv`: the list is in a block of the executor's own, the block around
  `plan->pointer`, also after other clients have allocated and freed; as long as it may be
  extended it is the topmost one, of `count` items exactly, with the pointer at its last.
  If nothing was given up (`kept`) and nothing failed it is the only one.
* `ListInv`: the cells of that block are the attributes defined, last one lowest; a single
  one also after a pause, because nobody else's block comes near it.
* `DictInv`: ids are indices of dictionaries, no two tables share one, each has values as
  long as its attributes, and without a failure only the dictionary of the `CREATE_TABLE`
  that is running has no table yet. What that one was sized by is what will be
  written: the list does not change between lines 91 and 119.

| theorem | property |
|---|---|
| `TypeCorrect`, without a rule | `TypeOK` |
| `OtherBlocksKept` | `OthersKept` |
| `MemoryGivenBack` | `MemoryReturned` |
| `ListKept` | `ListInMemory` |
| `EachTableItsDictionary` | `DictionariesOwned` |
| `ValuesFit` | `DictionaryFits` |
| `StoredAsDefined` | `StoredIsDefined` |

### The shim

`SDFileProofs!TypeInv` keeps the stream inside its file. The part that is not obvious is
`sd_fseek`, whose sums are unsigned: `SeekDoes` shows that a target below 0 becomes one
beyond every file, which the comparison refuses. `SavedInv` is about power failures: only
the file of the open stream can be ahead of what is on the card for good, and is there at
least as long. `EndInv` says that `eof` is the indicator of C unless it is stale; it is what
makes `feof` right under `EofRule`. `SeekRefines` is stated of the offset and the `whence` of
the call: the target is computed by `Stdio` on its own. `ShimIsStdio` has the hypothesis `ShimRules`, each part of which is a finding
or a divergence of the shim from stdio that its callers must stay away from:

* no modes that update or append: a file opened for update starts at its end;
* `remove` of the library does not fail: a file that could not be removed is appended to (20);
* one element per write (17);
* no read asks for as many elements as -1 is, taken for an unsigned number and divided by
  the size of an element (211): a failing read would be taken for a complete one.

| theorem | property |
|---|---|
| `TypeCorrect` | `TypeOK` |
| `ShimIsStdio`, under `ShimRules` | `ImplementsStdio` |

### The table layer

All theorems of `TableLayerProofs` have the hypothesis `LayerRules` (section 4). The run
`table_layer` has it as an assumption of its instance (`MCRules`), so that TLC shows that
plans, names and schemas which satisfy it exist.

`SP` and `EP` are the modules that hold the proofs about `Schema` and `Executor`, instantiated
as `S` and `E` are. To TLAPS `S!Next` and `SP!Next` are two definitions: `SameSchemas`,
`SameExecutor` and `SameMemory` show once, operator by operator, that they are the same, after
which every lemma of either component may be cited.

**The inductive invariant** (`LayerInv`) is `EP!AllInv` and `SP!AllInv`, those of the
components, with three facts about the two together:

* `Shared`: every held block is in `lists` or in `loads` and not in both; while an
  instruction runs no schema is loaded or freed; no load starts while the list may still be
  extended. This is why a free of the one finds the block it means and none of the other:
  each component's invariant says that its pointers are not those of its `others`.
* `OneDefined`: at most one attribute is defined at a time, and before the next
  `DEFINE_ATTRIBUTE` of the plan comes a `CREATE_TABLE`. With `ListInv` it says that what
  `CREATE_TABLE` reads is the attribute that was defined, hence a member of `Schemas`.
* `MadeStored`: `made` is what is in the file, if it is whole, and what will be in the one
  that is being written.

Preservation is not shown by going through the invariants of the components again. One lemma
per action shows that it is a step of `EP!Next` and a step of `SP!Next`, or leaves what the
invariant of one of them is about as it is (`EveryStep`); then `NextBoth` has their
invariants from the theorems on `Schema` and `Executor`. The work is at the borders.
An allocation by a list is an `OtherAlloc` of the store, and one by a load an
`OtherAlloc` of the executor, which allows only the sizes of its clients: it needs that
a file of a schema says one item (`HeadOfOne`). A free is an `OtherFree` only when the block
is the component's own (`OwnFree`, `FreeListSteps`). A create of files is a create of
`SchemaStore` by the refinement proved in `SchemaRefinement`, where the answers of the two
agree (`BeginSchemaSteps`, `WriteSchemaSteps`). The case that took an argument of
its own is a `CREATE_TABLE` that is run again after its list was used: it may pass on
anything it finds at `plan->pointer`, and is a step of the store only because the table is
there and it is refused (`CreatesDefined`).

| theorem | property |
|---|---|
| `TypeCorrect` | `TypeOK` |
| `KeepsBlocks` | `BlocksKept` |
| `ReturnsMemory` | `MemoryReturned` |
| `LoadsWhatWasDefined` | `LoadedAsDefined` |
| `LayerImplementsExecutor` | `ImplementsExecutor` |
| `LayerImplementsSchemas` | `ImplementsSchemas` |
| `FilesHaveDictionaries` | `DictionariesOwned`, `DictionaryFits` and `ListInMemory` of `Executor`, here about files |

`ImplementsExecutor` and `ImplementsSchemas` are about initial states and steps. The fairness of
`Executor` is not carried over; `CallsReturn` states its consequence for the layer.

### Only model-checked

`FreesReturn`, `ExecuteReturns` and `CallsReturn`: liveness under fairness is out of the
prover's reach. Every invariant and every action property of a passing run is a theorem.
The runs with `PlansRule`, `FaultsRule`, `EofRule` and `ShimRules` lifted are violations (section 6), and
counterexamples need no proof.

## 8. Not modelled

* `DB_QMM_FALLOC`, `BALLOC`, `FFREE` and `BFREE` of the header cast and forward to the
  functions, or to `malloc` and `free`; nothing in the repository uses them.
* Alignment and byte order of the words: the code reads and writes words at any
  address, which the boards it targets allow.
* `NULL` arguments: the free functions read the word before the pointer before they
  test for NULL (125, 132), then return -6 without using it.
* Negative request sizes: no caller has one.
* The buffer for file names, sized by a length cut to 8 bits (`schema.c` 45-47): it
  lies on the C stack. Table names are taken to be short enough for it.
* Bytes of fields and byte order in files; fields are written and read whole or not.
* IonDB beyond ids, sizes of values and failures of its master table.
* In `TableLayer`: files that fail to open, close or be read, and longer lists. Both are in
  the runs of the components, and the list of one attribute is the one for which
  `CREATE_TABLE` does what it says (finding 11).
* `NULL` streams of the shim, its `DEBUG` output and `sd_printint`, several streams at a
  time, elements of size 0, by which `sd_fread` divides (211).
* The names under which `kv_stdio_intercept.h` redirects: it has `fremove` and `frewind`, so
  that the `remove` of `schema.c` 173 is the C library's on the boards, whatever that is;
  and `sd_remove` answers the reverse of `remove`.
* `hash_string` of `utils.c`: a pure function that nothing calls and of which nothing is
  said but its code, so that there is no property to check. Query serializer: empty.
  Serial interface: one-line wrappers of an Arduino object.
