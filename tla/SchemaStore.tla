----------------------------- MODULE SchemaStore -----------------------------
(***************************************************************************)
(* What the schema store promises: a schema per table, as a whole.  A      *)
(* create that fails, or is cut off by a power failure, may leave a        *)
(* damaged schema, which no load accepts and which stays until it is       *)
(* deleted.  A load that answers OK gives exactly the schema created.      *)
(***************************************************************************)
CONSTANTS
  Tables,     \* the names of tables
  Schemas,    \* the schemas created
  None,       \* no schema
  Damaged     \* a schema that was written in part

VARIABLES
  store,      \* the schema of each table
  making,     \* the table and schema of a create that has not answered yet
  loaded,     \* the schema the client has loaded
  res         \* what the last call answered

avars == <<store, making, loaded, res>>

Errors == {"OUT_OF_MEMORY", "FILE_NOT_OPENED", "FILE_BAD_READ", "FILE_BAD_SEEK"}

Init ==
  store = [t \in Tables |-> None] /\ making = None /\ loaded = None /\ res = "none"

BeginCreate(t, s) ==
  /\ making = None /\ store[t] = None
  /\ making' = [tbl |-> t, of |-> s]
  /\ UNCHANGED <<store, res>> /\ loaded' = loaded

EndCreate ==
  /\ making # None
  /\ \/ res' = "OK" /\ store' = [store EXCEPT ![making.tbl] = making.of]
     \/ res' = "FILE_BAD_WRITE" /\ store' = [store EXCEPT ![making.tbl] = Damaged]
  /\ making' = None
  /\ loaded' = loaded

RefuseCreate(t) ==
  /\ making = None
  /\ \/ res' = "TABLE_ALREADY_EXISTS" /\ store[t] # None
     \/ res' = "FILE_NOT_CREATED"
  /\ UNCHANGED <<store, making>> /\ loaded' = loaded

Load(t) ==
  /\ making = None
  /\ \/ res' = "OK" /\ store[t] \in Schemas /\ loaded' = store[t]
     \/ res' \in Errors /\ loaded' = None
  /\ UNCHANGED <<store, making>>

Delete(t) ==
  /\ making = None
  /\ \/ res' = "OK" /\ store[t] # None /\ store' = [store EXCEPT ![t] = None]
     \/ res' = "FILE_NOT_REMOVED" /\ UNCHANGED store
  /\ UNCHANGED making /\ loaded' = loaded

\* The client gives up what it has loaded, in one or more steps.
Release ==
  /\ making = None
  /\ loaded' \in {loaded, None}
  /\ res' \in {res, "OK", "FAILED_TO_FREE_MEMORY"}
  /\ UNCHANGED <<store, making>>

\* A power failure leaves what is stored; of a schema being made anything.
PowerFailure ==
  /\ IF making = None
       THEN UNCHANGED store
       ELSE \E left \in {None, Damaged, making.of} :
              store' = [store EXCEPT ![making.tbl] = left]
  /\ making' = None /\ loaded' = None /\ res' = "none"

Next ==
  \/ \E t \in Tables, s \in Schemas : BeginCreate(t, s)
  \/ \E t \in Tables : RefuseCreate(t) \/ Load(t) \/ Delete(t)
  \/ EndCreate \/ Release \/ PowerFailure

Spec == Init /\ [][Next]_avars
==============================================================================
