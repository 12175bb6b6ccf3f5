----------------------------- MODULE MCExecutor ------------------------------
(***************************************************************************)
(* Small instances of Executor for TLC.                                    *)
(***************************************************************************)
EXTENDS Executor

CONSTANTS t1, t2

\* The size of a2 does not fit in a byte.
a1 == [name |-> "a1", type |-> 0, size |-> 3]
a2 == [name |-> "a2", type |-> 1, size |-> Byte + 2]

Define(x) == [op |-> "DEFINE_ATTRIBUTE", arg |-> x]
CreateTable(t) == [op |-> "CREATE_TABLE", arg |-> t]
HALT == [op |-> "HALT", arg |-> None]
NOP == [op |-> "NOP", arg |-> None]
UNDEFINED == [op |-> "UNDEFINED", arg |-> None]

\* One attribute a table, with pauses and idle instructions around it.
SinglePlans ==
  { <<Define(a1), HALT, CreateTable(t1), Define(a2), NOP, CreateTable(t2), HALT>>,
    <<NOP, Define(a2), CreateTable(t1), UNDEFINED>> }

\* Attributes next to each other: the list is extended.
ListPlans ==
  { <<Define(a1), Define(a2), Define(a1), HALT, Define(a2), HALT>>,
    <<NOP, Define(a2), Define(a1), CreateTable(t1), HALT>> }

MCPlans == SinglePlans \cup ListPlans
ASSUME MCPlansAssumption == \A p \in MCPlans : TablesRule(p)

\* status, res, ret and call are read by no action before they are set.
ExecutorView ==
  <<plan, pc, cells, dicts, store, making, blive, others, defs, clean, kept>>
==============================================================================
