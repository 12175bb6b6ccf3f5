-------------------------- MODULE MCExecutorMisuse ---------------------------
(***************************************************************************)
(* The executor where it does not do what the descriptions of its opcodes  *)
(* and error codes say.  Each property states one of them.                 *)
(***************************************************************************)
EXTENDS MCExecutor

TwoAttributes == {<<Define(a1), Define(a2), CreateTable(t1), HALT>>}
NopBetween == {<<Define(a1), NOP, Define(a2), CreateTable(t1), HALT>>}
OneAttribute == {<<Define(a1), CreateTable(t1), HALT>>}
TwoTables == {<<Define(a1), CreateTable(t1), HALT, CreateTable(t2), HALT>>}
LongPlan == {<<NOP, NOP, NOP, HALT>>}

\* ListRule of Executor is written nowhere in the source.
AnyListSpec == Init /\ [][Next \/ Execute]_vars

\* "Creates a table given that the schema is defined": the table has the attributes
\* that the plan defined.
CreatesAsDefined ==
  [][EndSchema /\ res' = "OK" => store'[Cur.arg].items = defs]_vars

\* "No operation": between two definitions it changes nothing, the table still has
\* as many attributes as were defined.
NopDoesNothing ==
  [][EndSchema /\ res' = "OK" => Len(store'[Cur.arg].items) = Len(defs)]_vars

\* "a table (or schema) already exists": when CREATE_TABLE answers this, it did.
ExistsMeansExists ==
  [][BeginSchema \/ EndSchema =>
       (status' # status /\ status' = "TABLE_ALREADY_EXISTS" => store[Cur.arg] # None)]_vars

\* "Frees the items in the scheme": CREATE_TABLE frees no block of another client.
OnlyItemsFreed == others \subseteq blive

\* "This will run the query plan until the end": a plan whose last instruction has
\* been executed is at its end.
RunsToTheEnd ==
  [][Halt /\ plan.idx + 1 = Len(plan.code) => Ended']_vars
==============================================================================
